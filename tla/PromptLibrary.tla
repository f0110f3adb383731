--------------------------- MODULE PromptLibrary ---------------------------
(***************************************************************************)
(* The prompt service on its two tables.  One process owns the connection  *)
(* and a request runs from its checks to its COMMIT without an await, so   *)
(* requests do not interleave; what does go wrong is a statement that      *)
(* throws, or a process that dies, between two of them.                    *)
(***************************************************************************)
EXTENDS Naturals, Sequences, FiniteSetsExt

CONSTANTS Prompts, VersionIds, Contents, Names, NoVersion

ASSUME NoVersionAssumption == NoVersion \notin VersionIds

Statuses == {"draft", "active", "archived"}

VARIABLES
  db,     \* what is committed: the rows of prompts and prompt_versions
  open,   \* the connection has a transaction open
  work,   \* the database as the connection sees it
  call,   \* the transactional request under way, or NoCall
  told    \* history: the database as the answers sent so far describe it

vars == <<db, open, work, call, told>>

NoCall == [op |-> "none"]

PromptRows ==
  [name : Names, status : Statuses, head : VersionIds \cup {NoVersion},
   archivedAt : BOOLEAN]
VersionRows == [prompt : Prompts, number : Nat \ {0}, content : Contents]
Empty == [prompts |-> <<>>, versions |-> <<>>]

Todos == {<<"prompt", "version", "head">>, <<"version", "head">>, <<"head">>,
          <<>>}
Calls ==
  [op : {"create", "duplicate"}, prompt : Prompts, source : Prompts,
   version : VersionIds, name : Names, status : Statuses, content : Contents,
   todo : Todos]
  \cup
  [op : {"version", "restore"}, prompt : Prompts, source : Prompts,
   version : VersionIds, content : Contents, todo : Todos]

\* A table holds rows of one kind under some of the ids.
IsTable(t, ids, rows) == DOMAIN t \subseteq ids /\ t \in [DOMAIN t -> rows]

IsDatabase(d) ==
  /\ d = [prompts |-> d.prompts, versions |-> d.versions]
  /\ IsTable(d.prompts, Prompts, PromptRows)
  /\ IsTable(d.versions, VersionIds, VersionRows)

TypeOK ==
  /\ IsDatabase(db) /\ IsDatabase(work) /\ IsDatabase(told)
  /\ open \in BOOLEAN
  /\ call \in Calls \cup {NoCall}

Init ==
  /\ db = Empty /\ work = Empty /\ told = Empty
  /\ open = FALSE /\ call = NoCall

-----------------------------------------------------------------------------
(* Statements, as what they make of the database.                          *)

VersionsOf(d, p) == {v \in DOMAIN d.versions : d.versions[v].prompt = p}

NumbersOf(d, p) == {d.versions[v].number : v \in VersionsOf(d, p)}

\* The version of prompt p that is number i.
VersionAt(d, p, i) ==
  CHOOSE v \in VersionsOf(d, p) : d.versions[v].number = i

NextVersionNumber(d, p) == Max({0} \cup NumbersOf(d, p)) + 1

\* The table with one more row.
Insert(table, id, r) ==
  [i \in DOMAIN table \cup {id} |-> IF i = id THEN r ELSE table[i]]

InsertPrompt(d, c) ==
  [d EXCEPT !.prompts =
     Insert(@, c.prompt, [name |-> c.name, status |-> c.status,
                          head |-> NoVersion, archivedAt |-> FALSE])]

InsertVersion(d, c) ==
  [d EXCEPT !.versions =
     Insert(@, c.version, [prompt |-> c.prompt, content |-> c.content,
                           number |-> NextVersionNumber(d, c.prompt)])]

SetCurrentVersion(d, c) == [d EXCEPT !.prompts[c.prompt].head = c.version]

Effect(statement, d, c) ==
  CASE statement = "prompt"  -> InsertPrompt(d, c)
    [] statement = "version" -> InsertVersion(d, c)
    [] statement = "head"    -> SetCurrentVersion(d, c)

UpdatePrompt(d, p, n, s) ==
  [d EXCEPT !.prompts[p].name = n, !.prompts[p].status = s,
            !.prompts[p].archivedAt = (s = "archived")]

-----------------------------------------------------------------------------
(* runInTransaction.                                                       *)

Transaction(c) ==
  /\ call = NoCall
  /\ ~open          \* BEGIN inside a transaction throws: the request fails
  /\ open' = TRUE /\ call' = c
  /\ UNCHANGED <<db, work, told>>

\* Mutant: every statement commits by itself.
ExecuteAlone ==
  /\ call # NoCall /\ call.todo # <<>>
  /\ work' = Effect(Head(call.todo), work, call) /\ db' = work'
  /\ call' = [call EXCEPT !.todo = Tail(@)]
  /\ UNCHANGED <<open, told>>

Execute ==
  /\ call # NoCall /\ call.todo # <<>>
  /\ work' = Effect(Head(call.todo), work, call)
  /\ call' = [call EXCEPT !.todo = Tail(@)]
  /\ UNCHANGED <<db, open, told>>

\* The last statement is through: COMMIT, and the answer.
Commit ==
  /\ call # NoCall /\ call.todo = <<>>
  /\ db' = work /\ told' = work
  /\ open' = FALSE /\ call' = NoCall
  /\ UNCHANGED work

\* Mutant: the error is re-thrown without a rollback.
LeaveOpen == UNCHANGED <<open, work>>

\* ROLLBACK throws only when SQLite has already rolled back; that is swallowed.
Rollback == open' = FALSE /\ work' = db

\* A statement or the COMMIT throws, before it has any effect.
Throw ==
  /\ call # NoCall
  /\ Rollback
  /\ call' = NoCall
  /\ UNCHANGED <<db, told>>

\* The process dies; SQLite drops what was not committed.  The connection of
\* the next process sees what is committed.
Crash ==
  /\ open' = FALSE /\ work' = db /\ call' = NoCall
  /\ UNCHANGED <<db, told>>

-----------------------------------------------------------------------------
(* Requests.  A refused one (404, 409, 422) changes nothing.               *)

FreshPrompt(p) == p \notin DOMAIN work.prompts
FreshVersion(v) == v \notin DOMAIN work.versions

\* Mutant: archived prompts take versions too.
Known(p) == p \in DOMAIN work.prompts

Live(p) == p \in DOMAIN work.prompts /\ work.prompts[p].status # "archived"

Create(p, v, n, s, c) ==
  /\ FreshPrompt(p) /\ FreshVersion(v)
  /\ Transaction([op |-> "create", prompt |-> p, source |-> p, version |-> v,
                  name |-> n, status |-> s, content |-> c,
                  todo |-> <<"prompt", "version", "head">>])

\* The two writes of a new version, for a prompt that is there.
NewVersion(op, p, v, c) ==
  Transaction([op |-> op, prompt |-> p, source |-> p, version |-> v,
               content |-> c, todo |-> <<"version", "head">>])

CreateVersion(p, v, c) ==
  Live(p) /\ FreshVersion(v) /\ NewVersion("version", p, v, c)

\* Mutant: the version's prompt is not compared with the one in the URL.
AnyVersion(p, t) == t \in DOMAIN work.versions

OwnVersion(p, t) == t \in DOMAIN work.versions /\ work.versions[t].prompt = p

RestoreVersion(p, t, v) ==
  /\ Live(p) /\ OwnVersion(p, t) /\ FreshVersion(v)
  /\ NewVersion("restore", p, v, work.versions[t].content)

\* The copy is a draft; the name "... (copy)" is not told from the source's.
Duplicate(s, p, v) ==
  /\ s \in DOMAIN work.prompts /\ FreshPrompt(p) /\ FreshVersion(v)
  /\ work.prompts[s].head # NoVersion
  /\ Transaction([op |-> "duplicate", prompt |-> p, source |-> s, version |-> v,
                  name |-> work.prompts[s].name, status |-> "draft",
                  content |-> work.versions[work.prompts[s].head].content,
                  todo |-> <<"prompt", "version", "head">>])

\* PATCH, and DELETE with the status "archived": one UPDATE.  Outside a
\* transaction it commits by itself.
Update(p, n, s) ==
  /\ call = NoCall /\ p \in DOMAIN work.prompts
  /\ work' = UpdatePrompt(work, p, n, s)
  /\ db' = IF open THEN db ELSE work'
  /\ told' = work'
  /\ UNCHANGED <<open, call>>

Next ==
  \/ Execute \/ Commit \/ Throw \/ Crash
  \/ \E p \in Prompts, v \in VersionIds :
       \/ \E n \in Names, s \in {"draft", "active"}, c \in Contents :
            Create(p, v, n, s, c)
       \/ \E c \in Contents : CreateVersion(p, v, c)
       \/ \E t \in VersionIds : RestoreVersion(p, t, v)
       \/ \E s \in Prompts : Duplicate(s, p, v)
  \/ \E p \in Prompts, n \in Names, s \in Statuses : Update(p, n, s)

Spec == Init /\ [][Next]_vars

-----------------------------------------------------------------------------
(* Whatever was committed, and whenever the process died, every prompt has *)
(* versions numbered 1, 2, ... without a gap or a repetition, its head is  *)
(* the last of them, and archived_at is set exactly while it is archived   *)
(* (promptService.ts create and createVersion, versionRepo.ts).            *)
WellFormed ==
  \A p \in DOMAIN db.prompts :
    LET vs == VersionsOf(db, p)
        head == db.prompts[p].head
    IN
    /\ head \in vs
    /\ NumbersOf(db, p) = 1..db.versions[head].number
    /\ \A v, w \in vs : db.versions[v].number = db.versions[w].number => v = w
    /\ db.prompts[p].archivedAt <=> db.prompts[p].status = "archived"

(* What clients were told is what a crash leaves: no answer describes a    *)
(* write that is still inside a transaction (client.ts runInTransaction).  *)
AnsweredIsCommitted == told = db

(* A restored version repeats a content its own prompt already had, and a  *)
(* copy starts from the newest content of its source at that moment        *)
(* (promptService.ts restoreVersion and duplicate).                        *)
CopiesAreFaithful ==
  [][ call # NoCall /\ db' # db =>
        LET made == db'.versions[call.version].content
            olds == VersionsOf(db, call.source)
            newest == VersionAt(db, call.source,
                                Max({0} \cup NumbersOf(db, call.source)))
        IN /\ call.op = "restore" => \E v \in olds : db.versions[v].content = made
           /\ call.op = "duplicate" => db.versions[newest].content = made ]_vars

(* The committed tables keep the promise of PromptHistory: prompts appear  *)
(* whole, and histories grow by one immutable version at a time, never     *)
(* while archived.                                                         *)
HistoryOf(d, p) ==
  [i \in NumbersOf(d, p) |-> d.versions[VersionAt(d, p, i)].content]

MetaOf(d, p) ==
  IF p \in DOMAIN d.prompts
    THEN [name |-> d.prompts[p].name, status |-> d.prompts[p].status]
    ELSE [name |-> "none", status |-> "none"]

Promise == INSTANCE PromptHistory WITH
  history <- [p \in Prompts |-> HistoryOf(db, p)],
  meta <- [p \in Prompts |-> MetaOf(db, p)]

KeepsPromise == Promise!HistorySpec
=============================================================================
