--------------------------- MODULE PromptHistory ---------------------------
(***************************************************************************)
(* What the prompt library promises: a prompt is a name, a status and a    *)
(* history of contents that only ever grows at its end.  The last content  *)
(* is the head.  PromptLibrary keeps the promise with rows and SQL         *)
(* transactions; PromptEditorView relies on it as its server.              *)
(***************************************************************************)
EXTENDS Naturals, Sequences

CONSTANTS Prompts, Contents, Names

Statuses == {"draft", "active", "archived"}
Metas == [name : Names, status : Statuses]
NoMeta == [name |-> "none", status |-> "none"]

VARIABLES
  history,   \* the contents of each prompt's versions, oldest first
  meta       \* the prompt's name and status; NoMeta before it exists

historyVars == <<history, meta>>

Exists(p) == meta[p] # NoMeta
HeadContent(p) == history[p][Len(history[p])]

HistoryInit ==
  /\ history = [p \in Prompts |-> <<>>]
  /\ meta = [p \in Prompts |-> NoMeta]

\* A prompt appears whole: its first version is there and is its head.
CreatePrompt(p, m, c) ==
  /\ ~Exists(p) /\ m.status # "archived"
  /\ history' = [history EXCEPT ![p] = <<c>>]
  /\ meta' = [meta EXCEPT ![p] = m]

\* An archived prompt takes no new version.
AppendVersion(p, c) ==
  /\ Exists(p) /\ meta[p].status # "archived"
  /\ history' = [history EXCEPT ![p] = Append(@, c)]
  /\ UNCHANGED meta

\* Any metadata may be saved over any other, an archived prompt's included.
SaveMeta(p, m) ==
  /\ Exists(p)
  /\ meta' = [meta EXCEPT ![p] = m]
  /\ UNCHANGED history

HistoryNext ==
  \E p \in Prompts :
    \/ \E m \in Metas, c \in Contents : CreatePrompt(p, m, c)
    \/ \E c \in Contents : AppendVersion(p, c)
    \/ \E m \in Metas : SaveMeta(p, m)

HistorySpec == HistoryInit /\ [][HistoryNext]_historyVars
=============================================================================
