-------------------------- MODULE PromptEditorView --------------------------
(***************************************************************************)
(* The prompt editor page (PromptEditor.tsx) over a server that keeps the  *)
(* promise of PromptHistory.  As with the job page, one component instance *)
(* stays mounted while the user goes from prompt to prompt, a handler      *)
(* suspended at an await keeps the promptId it closed over, and a step is  *)
(* the code between two awaits.  Requests are served in any order, and     *)
(* answered in any order or not at all.                                    *)
(***************************************************************************)
EXTENDS PromptHistory, FiniteSets, SequencesExt

CONSTANTS
  None,        \* no prompt: any page but the editor
  Library,     \* the prompts there are at the start
  MaxActs      \* bound: the user's navigations and clicks on the page's buttons

ASSUME NoneAssumption == None \notin Prompts /\ Library \subseteq Prompts
ASSUME SomeAssumption == Library # {} /\ Contents # {} /\ Names # {}
ASSUME BoundAssumption == MaxActs \in Nat

VARIABLES
  (* the browser *)
  page,           \* the prompt the page is about
  mounts,         \* instances so far; the last one lives while page # None
  detail,         \* what is shown: the prompt's status, and the versions
                  \* with the prompt they are of
  form,           \* the Status and Content fields, and the prompt whose load
                  \* filled them last
  savingMeta, savingVersion,
  sent,           \* requests the server has not served
  answers,        \* answers under way, in the order they were served
  acts,           \* navigations and clicks so far
  (* history *)
  arrived,        \* a load for this page was shown since the user came to it
  inOrder         \* since then the page took every answer, in the order they
                  \* were served, and none but its own instance's acted on p

shown == <<detail, form, savingMeta, savingVersion>>
viewVars == <<page, mounts, shown, sent, answers, acts>>
vars == <<historyVars, viewVars, arrived, inOrder>>

NoDetail == [status |-> "none", of |-> None, versions |-> <<>>]
BlankForm == [status |-> "draft", content |-> "", of |-> None]

InFlight == sent \cup {answers[i].req : i \in DOMAIN answers}

Requests ==
  [kind : {"load", "save", "archive", "version", "restore", "duplicate"},
   prompt : Prompts, mount : 1..(1 + MaxActs),
   arg : Statuses \cup Contents \cup {"", "arrival", "version", "restore"},
   version : [of : Prompts \cup {None}, number : Nat], by : 0..MaxActs]

Answers == [req : Requests, ok : BOOLEAN, status : Statuses,
            versions : Seq(Contents), copies : SUBSET Prompts]

ArgFits(r) ==
  /\ r.kind = "save" => r.arg \in Statuses
  /\ r.kind = "version" => r.arg \in Contents

ServerOK ==
  /\ history \in [Prompts -> Seq(Contents)]
  /\ meta \in [Prompts -> Metas \cup {NoMeta}]

PageOK ==
  /\ page \in Prompts \cup {None} /\ mounts \in 1..(1 + MaxActs)
  /\ detail \in [status : Statuses \cup {"none"}, of : Prompts \cup {None},
                 versions : Seq(Contents)]
  /\ form \in [status : Statuses, content : Contents \cup {""},
               of : Prompts \cup {None}]
  /\ savingMeta \in BOOLEAN /\ savingVersion \in BOOLEAN
  /\ arrived \in BOOLEAN /\ inOrder \in BOOLEAN /\ acts \in 0..MaxActs

WireOK ==
  /\ sent \subseteq Requests /\ answers \in Seq(Answers)
  /\ \A r \in InFlight : ArgFits(r)

TypeOK == ServerOK /\ PageOK /\ WireOK

-----------------------------------------------------------------------------
(* Requests.                                                               *)

NoVersion == [of |-> None, number |-> 0]

\* "by" is the number of the user's act the request stems from.
Request(kind, p, mount, arg, version, by) ==
  [kind |-> kind, prompt |-> p, mount |-> mount, arg |-> arg,
   version |-> version, by |-> by]

\* load(), called on arrival or after a version was saved or restored.
LoadFor(p, mount, after, by) == Request("load", p, mount, after, NoVersion, by)

\* The app is opened at the address of a prompt.
Init ==
  LET p == CHOOSE q \in Library : TRUE IN
  /\ history = [q \in Prompts |-> IF q \in Library
                                   THEN <<CHOOSE c \in Contents : TRUE>>
                                   ELSE <<>>]
  /\ meta = [q \in Prompts |->
               IF q \in Library
                 THEN [name |-> CHOOSE n \in Names : TRUE, status |-> "active"]
                 ELSE NoMeta]
  /\ page = p /\ mounts = 1 /\ detail = NoDetail /\ form = BlankForm
  /\ savingMeta = FALSE /\ savingVersion = FALSE
  /\ sent = {LoadFor(p, 1, "arrival", 0)} /\ answers = <<>>
  /\ acts = 0 /\ arrived = FALSE /\ inOrder = TRUE

\* The user, or a handler's go(), comes to the page of p.  An instance that is
\* there stays and keeps all it shows.
Show(p, by) ==
  LET mount == IF page = None THEN mounts + 1 ELSE mounts IN
  /\ page' = p /\ mounts' = mount /\ arrived' = FALSE
  /\ inOrder' = \A r \in InFlight : r.prompt = p => r.mount = mount
  /\ sent' = sent \cup {LoadFor(p, mount, "arrival", by)}
  /\ IF page = None
       THEN /\ detail' = NoDetail /\ form' = BlankForm
            /\ savingMeta' = FALSE /\ savingVersion' = FALSE
       ELSE UNCHANGED shown

GoTo(p) ==
  /\ acts < MaxActs /\ acts' = acts + 1
  /\ Exists(p) /\ p # page
  /\ Show(p, acts + 1)
  /\ UNCHANGED <<historyVars, answers>>

Leave ==
  /\ acts < MaxActs /\ acts' = acts + 1
  /\ page # None /\ page' = None
  /\ detail' = NoDetail /\ form' = BlankForm
  /\ savingMeta' = FALSE /\ savingVersion' = FALSE
  /\ arrived' = FALSE /\ inOrder' = FALSE
  /\ UNCHANGED <<historyVars, mounts, sent, answers>>

-----------------------------------------------------------------------------
(* What the user does on the page; nothing is there before a first load.   *)

Ready == page # None /\ detail # NoDetail

Fill ==
  /\ Ready
  /\ UNCHANGED <<historyVars, page, mounts, detail, savingMeta, savingVersion,
                 sent, answers, acts, arrived, inOrder>>

EditContent(c) == Fill /\ form' = [form EXCEPT !.content = c]

EditStatus(s) ==
  Fill /\ detail.status # "archived" /\ form' = [form EXCEPT !.status = s]

Click(kind, arg, version) ==
  /\ Ready /\ acts < MaxActs /\ acts' = acts + 1
  /\ sent' = sent \cup
       {Request(kind, page, mounts, arg, version, acts + 1)}
  /\ UNCHANGED <<historyVars, page, mounts, detail, form, answers,
                 arrived, inOrder>>

ClickSaveDetails ==
  /\ ~savingMeta /\ savingMeta' = TRUE
  /\ Click("save", form.status, NoVersion) /\ UNCHANGED savingVersion

HeadShown == IF detail.versions = <<>> THEN "" ELSE Last(detail.versions)

\* Mutant: the button stays enabled.
CanSaveAgain == form.content # HeadShown

CanSaveVersion == form.content # HeadShown /\ ~savingVersion

ClickSaveVersion ==
  /\ CanSaveVersion /\ savingVersion' = TRUE
  /\ Click("version", form.content, NoVersion) /\ UNCHANGED savingMeta

\* The button of one of the versions listed.
ClickRestore ==
  /\ detail.status # "archived"
  /\ \E i \in DOMAIN detail.versions :
       Click("restore", "", [of |-> detail.of, number |-> i])
  /\ UNCHANGED <<savingMeta, savingVersion>>

ClickArchive ==
  /\ detail.status # "archived"
  /\ Click("archive", "", NoVersion) /\ UNCHANGED <<savingMeta, savingVersion>>

ClickDuplicate ==
  Click("duplicate", "", NoVersion) /\ UNCHANGED <<savingMeta, savingVersion>>

-----------------------------------------------------------------------------
(* The server.                                                             *)

\* Mutant: any prompt's version will do.
IsAnyVersion(p, v) == v.number \in DOMAIN history[v.of]

IsOwnVersion(p, v) == v.of = p /\ v.number \in DOMAIN history[p]

Archive(p) == SaveMeta(p, [meta[p] EXCEPT !.status = "archived"])

Performs(r) ==
  LET p == r.prompt IN
  CASE r.kind = "save"    -> SaveMeta(p, [meta[p] EXCEPT !.status = r.arg])
    [] r.kind = "archive" -> Archive(p)
    [] r.kind = "version" -> AppendVersion(p, r.arg)
    [] r.kind = "restore" ->
         /\ IsOwnVersion(p, r.version)
         /\ AppendVersion(p, history[r.version.of][r.version.number])
    [] r.kind = "duplicate" ->
         \E q \in Prompts :
           CreatePrompt(q, [meta[p] EXCEPT !.status = "draft"], HeadContent(p))
    [] OTHER              -> UNCHANGED historyVars   \* "load"

Refuses(r) ==
  \/ r.kind = "version" /\ meta[r.prompt].status = "archived"
  \/ /\ r.kind = "restore"
     /\ meta[r.prompt].status = "archived" \/ ~IsOwnVersion(r.prompt, r.version)

\* What the answer says: the prompt as it is now, and for "duplicate" the copy.
Answer(r, ok) ==
  [req |-> r, ok |-> ok,
   status |-> meta'[r.prompt].status, versions |-> history'[r.prompt],
   copies |-> {q \in Prompts : history'[q] # <<>> /\ history[q] = <<>>}]

\* The server answers; or it refuses, or the request is lost, and nothing
\* happens but the error.
Serve(r) ==
  /\ r \in sent /\ sent' = sent \ {r}
  /\ \/ /\ ~Refuses(r) /\ Performs(r)
        /\ answers' = Append(answers, Answer(r, TRUE)) /\ UNCHANGED inOrder
     \/ /\ UNCHANGED historyVars
        /\ answers' = Append(answers, Answer(r, FALSE))
        /\ inOrder' = (inOrder /\ r.kind # "load")
  /\ UNCHANGED <<page, mounts, shown, acts, arrived>>

\* (Of a load it makes no difference where it is lost.)
LoseAnswer(i) ==
  /\ answers[i].ok /\ answers[i].req.kind # "load"
  /\ answers' = [answers EXCEPT ![i].ok = FALSE] /\ inOrder' = FALSE
  /\ UNCHANGED <<historyVars, page, mounts, shown, sent, acts, arrived>>

-----------------------------------------------------------------------------
(* The handlers go on.  The setters of an instance that is gone do nothing.*)

Alive(r) == page # None /\ r.mount = mounts

\* Mutant: whatever is loaded is shown.
AnyLoad(r) == Alive(r)

\* activePromptIdRef.current === id
IsActive(r) == Alive(r) /\ r.prompt = page

Take(i, kinds) ==
  /\ answers[i].req.kind \in kinds
  /\ answers' = RemoveAt(answers, i)
  /\ UNCHANGED <<historyVars, acts>>

\* Taken in order; an answer for another prompt that the page acts on is not.
TakenInOrder(i) ==
  inOrder' = (inOrder /\ i = 1 /\ (Alive(answers[i].req) => IsActive(answers[i].req)))

LoadReturns(i) ==
  LET a == answers[i] r == a.req IN
  /\ Take(i, {"load"})
  /\ inOrder' = (inOrder /\ i = 1)
  /\ IF a.ok /\ IsActive(r)
       THEN /\ detail' = [status |-> a.status, of |-> r.prompt,
                          versions |-> a.versions]
            /\ form' = [status |-> a.status, of |-> r.prompt,
                        content |-> Last(a.versions)]
            /\ arrived' = TRUE
       ELSE UNCHANGED <<detail, form, arrived>>
  /\ savingVersion' = (savingVersion /\ ~(Alive(r) /\ r.arg = "version"))
  /\ UNCHANGED <<page, mounts, savingMeta, sent>>

\* What is shown, with the prompt as answered; if anything is.
Refreshed(a) ==
  IF a.ok /\ detail # NoDetail THEN [detail EXCEPT !.status = a.status] ELSE detail

SaveReturns(i) ==
  LET a == answers[i] IN
  /\ Take(i, {"save"}) /\ TakenInOrder(i)
  /\ IF Alive(a.req)
       THEN /\ savingMeta' = FALSE
            /\ detail' = Refreshed(a)
       ELSE UNCHANGED <<savingMeta, detail>>
  /\ UNCHANGED <<page, mounts, form, savingVersion, sent, arrived>>

ArchiveReturns(i) ==
  LET a == answers[i] IN
  /\ Take(i, {"archive"}) /\ TakenInOrder(i)
  /\ IF Alive(a.req) /\ a.ok
       THEN detail' = Refreshed(a) /\ form' = [form EXCEPT !.status = a.status]
       ELSE UNCHANGED <<detail, form>>
  /\ UNCHANGED <<page, mounts, savingMeta, savingVersion, sent, arrived>>

\* Mutant: a saved version is not loaded.
NoReload(i) ==
  LET a == answers[i] r == a.req IN
  /\ Take(i, {"version", "restore"})
  /\ inOrder' = (inOrder /\ i = 1)
  /\ savingVersion' = (savingVersion /\ ~(Alive(r) /\ r.kind = "version"))
  /\ UNCHANGED <<page, mounts, detail, form, savingMeta, sent, arrived>>

VersionReturns(i) ==
  LET a == answers[i] r == a.req IN
  /\ Take(i, {"version", "restore"})
  /\ inOrder' = (inOrder /\ i = 1)
  /\ IF a.ok
       THEN /\ sent' = sent \cup {LoadFor(r.prompt, r.mount, r.kind, r.by)}
            /\ UNCHANGED savingVersion
       ELSE /\ savingVersion' = (savingVersion /\ ~(Alive(r) /\ r.kind = "version"))
            /\ UNCHANGED sent
  /\ UNCHANGED <<page, mounts, detail, form, savingMeta, arrived>>

\* The handler goes to the copy, wherever the user is by now.
DuplicateReturns(i) ==
  LET a == answers[i] IN
  /\ Take(i, {"duplicate"})
  /\ IF a.ok /\ page \notin a.copies
       THEN \E p \in a.copies : Show(p, a.req.by)
       ELSE /\ inOrder' = (inOrder /\ i = 1)
            /\ UNCHANGED <<page, mounts, shown, sent, arrived>>

Next ==
  \/ \E p \in Prompts : GoTo(p)
  \/ Leave
  \/ \E c \in Contents : EditContent(c)
  \/ \E s \in Statuses : EditStatus(s)
  \/ ClickSaveDetails \/ ClickSaveVersion \/ ClickRestore
  \/ ClickArchive \/ ClickDuplicate
  \/ \E r \in sent : Serve(r)
  \/ \E i \in DOMAIN answers :
       \/ LoseAnswer(i)
       \/ LoadReturns(i) \/ SaveReturns(i) \/ ArchiveReturns(i)
       \/ VersionReturns(i) \/ DuplicateReturns(i)

Spec == Init /\ [][Next]_vars

-----------------------------------------------------------------------------
(* Once a load for this page has been shown, the content being edited and  *)
(* the versions listed are this prompt's, whatever loads for prompts left  *)
(* behind still come in (PromptEditor.tsx activePromptIdRef).              *)
FormIsOfPage == arrived => form.of = page /\ detail.of = page

(* When nothing is under way any more, a page that took its answers in     *)
(* order and lost none shows the prompt's status and every version the     *)
(* server has: each handler refreshes what it has changed.                 *)
QuietPageIsCurrent ==
  arrived /\ inOrder /\ InFlight = {} =>
    /\ detail.status = meta[page].status
    /\ detail.versions = history[page]

(* However often Save new version is clicked, one instance of the page has *)
(* one version under way at a time (savingVersion).                        *)
OneVersionAtATime ==
  Cardinality({r \in InFlight : r.kind = "version" /\ r.mount = mounts}) <= 1

(* Restoring never brings a content into a prompt's history that it did    *)
(* not have, though until a new prompt is loaded the page lists the        *)
(* versions of the one left behind (Restore of A's version, sent for B).   *)
RestoresOwnContent ==
  [][ \A r \in sent : \A p \in Prompts :
        r.kind = "restore" /\ r \notin sent' /\ history'[p] # history[p] =>
          \E i \in DOMAIN history[p] : history[p][i] = Last(history'[p]) ]_vars

(* What the comment in PromptEditor.tsx says of a slow response for an old *)
(* prompt: it is discarded rather than overwriting the form of the prompt  *)
(* the user has gone to.  The handler of Archive does not look: once it    *)
(* has returned, Save details archives the other prompt as well.           *)
SlowAnswersAreDiscarded ==
  [][ \A i \in DOMAIN answers :
        /\ arrived /\ page' = page /\ Len(answers') = Len(answers) - 1
        /\ answers' = RemoveAt(answers, i) /\ answers[i].req.prompt # page
        => form' = form ]_vars
=============================================================================
