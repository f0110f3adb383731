------------------------- MODULE ServerStartProofs -------------------------
(***************************************************************************)
(* Proofs about ServerStart, for any number of servers, commands, jobs,    *)
(* samples and kills: at every moment the committed schema is the one on   *)
(* record and holds every job it held, at most one server polls, and the   *)
(* samples are inserted once.                                              *)
(***************************************************************************)
EXTENDS ServerStart, SequenceTheorems, FiniteSetTheorems, TLAPS

-----------------------------------------------------------------------------
(* Where a migration can be: what is left of the statements of both.       *)

Line(i) ==
  CASE i = 1 -> "create if not exists"
    [] i = 2 -> "record 1"
    [] i = 3 -> "create v2"
    [] i = 4 -> "copy"
    [] i = 5 -> "drop"
    [] i = 6 -> "rename"
    [] OTHER -> "record 2"

From(k) == [i \in 1..(8 - k) |-> Line(i + k - 1)]

\* What a schema is, by the versions on record.
Schema(d) ==
  /\ d.jobs__v2 = NoTable
  /\ \/ d.applied = {} /\ d.jobs = NoTable
     \/ d.applied = {1} /\ d.jobs.def = 1
     \/ d.applied = {1, 2} /\ d.jobs.def = 2

\* What the writer sees before the statements From(k), compared with what is
\* committed.  The tables may have been migrated by another process since the
\* writer read the versions; then it ends at the statement that records one.
Stage(k) ==
  /\ work.prompts = db.prompts
  /\ k = 2 =>
       IF db.applied = {}
         THEN /\ work.applied = {} /\ work.jobs__v2 = NoTable
              /\ work.jobs = [def |-> 1, rows |-> {}]
         ELSE work = db
  /\ k = 3 => /\ db.applied = {} /\ work.applied = {1}
              /\ work.jobs__v2 = NoTable
              /\ work.jobs = [def |-> 1, rows |-> {}]
  /\ k > 3 => 1 \in work.applied
  /\ k = 4 => /\ work.jobs.rows = db.jobs.rows
              /\ work.jobs__v2 = [def |-> 2, rows |-> {}]
  /\ k \in {5, 6} => work.jobs__v2 = [def |-> 2, rows |-> db.jobs.rows]
  /\ k > 6 => /\ work.jobs = [def |-> 2, rows |-> db.jobs.rows]
              /\ work.jobs__v2 = NoTable
  /\ k = 8 => 2 \in work.applied

-----------------------------------------------------------------------------
(* The inductive invariant.                                                *)

\* What is left is an end of the statements; unless it writes, a process has
\* not begun what it has to execute, and what it relies on is committed.
TodoInv ==
  /\ todo \in [Processes -> {From(k) : k \in 1..8}]
  /\ \A p \in Processes : pc[p] = "migrating" /\ writer # p =>
       \E k \in {1, 3} : todo[p] = From(k) /\ (k = 3 => 1 \in db.applied)

WriterInv ==
  writer # None =>
    /\ pc[writer] = "migrating"
    /\ \E k \in 2..8 : todo[writer] = From(k) /\ Stage(k)

SeedInv ==
  (\A s, t \in Seeders : s = t) =>
    /\ db.prompts <= Samples
    /\ \A p \in Processes :
         pc[p] = "seeding" => p \in Seeders /\ db.prompts + left[p] <= Samples

\* The command ends after the migrations.
ServerInv ==
  \A p \in Processes : pc[p] \in {"seeding", "binding", "up"} => p \in Servers

IInv ==
  /\ TypeOK /\ Schema(db) /\ TodoInv /\ WriterInv
  /\ SeedInv /\ ServerInv /\ OnePoller

-----------------------------------------------------------------------------
(* Facts about the statements.                                             *)

LEMMA FromFacts ==
  /\ From(8) = <<>>
  /\ \A k \in 1..7 :
       From(k) # <<>> /\ Head(From(k)) = Line(k) /\ Tail(From(k)) = From(k + 1)
<1>1. From(8) = <<>>
  BY DEF From
<1>2. ASSUME NEW k \in 1..7
      PROVE  From(k) # <<>> /\ Head(From(k)) = Line(k) /\ Tail(From(k)) = From(k + 1)
  <2>1. Len(From(k)) = 8 - k /\ From(k) # <<>>
    BY DEF From
  <2>2. Head(From(k)) = Line(k)
    BY DEF From
  <2>3. Tail(From(k)) = From(k + 1)
    BY <2>1 DEF From
  <2> QED BY <2>1, <2>2, <2>3
<1> QED BY <1>1, <1>2

LEMMA FromIsSeq ==
  ASSUME NEW S, \A i \in 1..7 : Line(i) \in S, NEW k \in 1..8
  PROVE  From(k) \in Seq(S) /\ Len(From(k)) = 8 - k
<1>1. \A i \in 1..(8 - k) : i + k - 1 \in 1..7
  OBVIOUS
<1>2. From(k) \in [1..(8 - k) -> S]
  BY <1>1 DEF From
<1>3. 8 - k \in Nat
  OBVIOUS
<1>4. From(k) \in Seq(S)
  BY <1>2, <1>3
<1>5. Len(From(k)) = 8 - k
  BY <1>3 DEF From
<1> QED BY <1>4, <1>5

\* The two scripts one after the other.
LEMMA Glue ==
  ASSUME NEW S, NEW s \in Seq(S), NEW t \in Seq(S), NEW u \in Seq(S),
         Len(s) = 2, Len(t) = 5, Len(u) = 7,
         u[1] = s[1], u[2] = s[2], u[3] = t[1], u[4] = t[2], u[5] = t[3],
         u[6] = t[4], u[7] = t[5]
  PROVE  s \o t = u
<1>1. /\ s \o t \in Seq(S) /\ Len(s \o t) = Len(s) + Len(t)
      /\ \A i \in 1..(Len(s) + Len(t)) : (s \o t)[i] =
            IF i <= Len(s) THEN s[i] ELSE t[i - Len(s)]
  BY ConcatProperties
<1>2. \A i \in 1..7 : (s \o t)[i] = IF i <= 2 THEN s[i] ELSE t[i - 2]
  BY <1>1
<1>3. ASSUME NEW i \in 1..7 PROVE (s \o t)[i] = u[i]
  <2>1. i = 1 \/ i = 2 \/ i = 3 \/ i = 4 \/ i = 5 \/ i = 6 \/ i = 7
    OBVIOUS
  <2>2. (s \o t)[i] = IF i <= 2 THEN s[i] ELSE t[i - 2]
    BY <1>2
  <2> QED BY <2>1, <2>2
<1>4. Len(s \o t) = Len(u)
  BY <1>1
<1> QED BY <1>1, <1>3, <1>4, SeqEqual

\* Whatever versions are on record, the pending statements are such an end.
LEMMA PendingIsFrom ==
  /\ Pending({}) = From(1)
  /\ Pending({1}) = From(3)
  /\ Pending({1, 2}) = From(8)
<1> DEFINE L == {"create if not exists", "record 1", "create v2", "copy",
                 "drop", "rename", "record 2"}
<1>1. /\ Script(1) \in Seq(L) /\ Len(Script(1)) = 2
      /\ Script(1)[1] = "create if not exists" /\ Script(1)[2] = "record 1"
  BY DEF Script
<1>2. /\ Script(2) \in Seq(L) /\ Len(Script(2)) = 5
      /\ Script(2)[1] = "create v2" /\ Script(2)[2] = "copy"
      /\ Script(2)[3] = "drop" /\ Script(2)[4] = "rename"
      /\ Script(2)[5] = "record 2"
  BY DEF Script
<1>3. \A i \in 1..7 : Line(i) \in L
  BY DEF Line
<1> HIDE DEF L
<1>4. \A k \in 1..8 : From(k) \in Seq(L) /\ Len(From(k)) = 8 - k
  BY <1>3, FromIsSeq
<1>5. /\ From(1)[1] = "create if not exists" /\ From(1)[2] = "record 1"
      /\ From(1)[3] = "create v2" /\ From(1)[4] = "copy"
      /\ From(1)[5] = "drop" /\ From(1)[6] = "rename"
      /\ From(1)[7] = "record 2"
  BY DEF From, Line
<1>6. /\ From(3)[1] = "create v2" /\ From(3)[2] = "copy"
      /\ From(3)[3] = "drop" /\ From(3)[4] = "rename"
      /\ From(3)[5] = "record 2"
  BY DEF From, Line
<1>7. From(1) \in Seq(L) /\ Len(From(1)) = 7
  <2>1. PICK k \in 1..8 : k = 1
    OBVIOUS
  <2>2. From(k) \in Seq(L) /\ Len(From(k)) = 8 - k
    BY <1>4
  <2> QED BY <2>1, <2>2
<1>8. From(3) \in Seq(L) /\ Len(From(3)) = 5
  <2>1. PICK k \in 1..8 : k = 3
    OBVIOUS
  <2>2. From(k) \in Seq(L) /\ Len(From(k)) = 8 - k
    BY <1>4
  <2> QED BY <2>1, <2>2
<1>9. Script(1) \o Script(2) = From(1)
  BY <1>1, <1>2, <1>5, <1>7, Glue
<1>10. Script(2) = From(3)
  <2>1. ASSUME NEW i \in 1..5 PROVE Script(2)[i] = From(3)[i]
    <3>1. i = 1 \/ i = 2 \/ i = 3 \/ i = 4 \/ i = 5
      OBVIOUS
    <3> QED BY <1>2, <1>6, <3>1
  <2> QED BY <1>2, <1>6, <1>8, <2>1, SeqEqual
<1>11. <<>> \o Script(2) = Script(2) /\ <<>> \o <<>> = <<>>
  BY <1>2, ConcatEmptySeq, EmptySeq
<1> QED BY <1>9, <1>10, <1>11, FromFacts DEF Pending

-----------------------------------------------------------------------------
(* What a statement does to what the writer sees.                          *)

LEMMA RenameEffect ==
  ASSUME NEW d \in Databases
  PROVE  Effect(Line(6), d) = [applied |-> d.applied, jobs |-> d.jobs__v2,
                               jobs__v2 |-> NoTable, prompts |-> d.prompts]
<1>1. Line(6) = "rename"
  BY DEF Line
<1>2. Effect("rename", d) = [d EXCEPT !.jobs = d.jobs__v2, !.jobs__v2 = NoTable]
  BY DEF Effect
<1>3. d = [applied |-> d.applied, jobs |-> d.jobs, jobs__v2 |-> d.jobs__v2,
           prompts |-> d.prompts]
  BY DEF Databases
<1> QED BY <1>1, <1>2, <1>3

LEMMA EffectType ==
  ASSUME NEW d \in Databases, NEW k \in 1..7
  PROVE  Effect(Line(k), d) \in Databases
<1>1. CASE k = 1
  BY <1>1 DEF Effect, Line, Databases, Tables, NoTable, Migrations
<1>2. CASE k = 2
  BY <1>2 DEF Effect, Line, Databases, Tables, NoTable, Migrations
<1>3. CASE k = 3
  BY <1>3 DEF Effect, Line, Databases, Tables, NoTable, Migrations
<1>4. CASE k = 4
  BY <1>4 DEF Effect, Line, Databases, Tables, NoTable, Migrations
<1>5. CASE k = 5
  BY <1>5 DEF Effect, Line, Databases, Tables, NoTable, Migrations
<1>6. CASE k = 6
  BY <1>6, RenameEffect DEF Databases, Tables, NoTable
<1>7. CASE k = 7
  BY <1>7 DEF Effect, Line, Databases, Tables, NoTable, Migrations
<1> QED BY <1>1, <1>2, <1>3, <1>4, <1>5, <1>6, <1>7

\* The first statement, on what is committed.
LEMMA FirstStage ==
  ASSUME db \in Databases, Schema(db), db' = db,
         NEW k \in {1, 3}, k = 3 => 1 \in db.applied,
         work' = Effect(Line(k), db)
  PROVE  Stage(k + 1)'
<1>1. CASE k = 1
  BY <1>1 DEF Stage, Schema, Effect, Line, Databases, Tables, NoTable, Migrations
<1>2. CASE k = 3
  BY <1>2 DEF Stage, Schema, Effect, Line, Databases, Tables, NoTable, Migrations
<1> QED BY <1>1, <1>2

\* Every further statement that does not throw.
LEMMA NextStage ==
  ASSUME db \in Databases, work \in Databases, Schema(db), db' = db,
         NEW k \in 2..7, Stage(k), ~Throws(Line(k), work),
         work' = Effect(Line(k), work)
  PROVE  Stage(k + 1)'
<1>2. CASE k = 2
  BY <1>2 DEF Stage, Schema, Throws, Effect, Line, Databases, Tables, NoTable,
              Migrations
<1>3. CASE k = 3
  BY <1>3 DEF Stage, Schema, Throws, Effect, Line, Databases, Tables, NoTable,
              Migrations
<1>4. CASE k = 4
  BY <1>4 DEF Stage, Schema, Throws, Effect, Line, Databases, Tables, NoTable,
              Migrations
<1>5. CASE k = 5
  BY <1>5 DEF Stage, Schema, Throws, Effect, Line, Databases, Tables, NoTable,
              Migrations
<1>6. CASE k = 6
  <2>1. work' = [applied |-> work.applied, jobs |-> work.jobs__v2,
                 jobs__v2 |-> NoTable, prompts |-> work.prompts]
    BY <1>6, RenameEffect
  <2>2. /\ work'.applied = work.applied /\ work'.jobs = work.jobs__v2
        /\ work'.jobs__v2 = NoTable /\ work'.prompts = work.prompts
    BY <2>1
  <2>3. /\ work.prompts = db.prompts /\ 1 \in work.applied
        /\ work.jobs__v2 = [def |-> 2, rows |-> db.jobs.rows]
    BY <1>6 DEF Stage
  <2> QED BY <1>6, <2>2, <2>3 DEF Stage
<1>7. CASE k = 7
  BY <1>7 DEF Stage, Schema, Throws, Effect, Line, Databases, Tables, NoTable,
              Migrations
<1> QED BY <1>2, <1>3, <1>4, <1>5, <1>6, <1>7

-----------------------------------------------------------------------------
(* The invariant is inductive.                                             *)

LEMMA InitInv == Init => IInv
<1> SUFFICES ASSUME Init PROVE IInv
  OBVIOUS
<1> USE ProcessesAssumption, BoundsAssumption
<1>1. TypeOK
  BY DEF Init, TypeOK, Databases, Tables, NoTable, Migrations
<1>2. Schema(db)
  <2>1. CASE db = [applied |-> {}, jobs |-> NoTable, jobs__v2 |-> NoTable,
                   prompts |-> 0]
    BY <2>1 DEF Schema
  <2>2. CASE db = [applied |-> {1}, jobs |-> [def |-> 1, rows |-> Rows],
                   jobs__v2 |-> NoTable, prompts |-> 0]
    <3>1. db.jobs__v2 = NoTable /\ db.applied = {1} /\ db.jobs.def = 1
      BY <2>2
    <3> QED BY <3>1 DEF Schema
  <2> QED BY <2>1, <2>2 DEF Init
<1>3. TodoInv
  BY FromFacts DEF Init, TodoInv
<1>4. WriterInv
  BY DEF Init, WriterInv
<1>5. SeedInv
  BY DEF Init, SeedInv
<1>6. ServerInv /\ OnePoller
  BY DEF Init, ServerInv, OnePoller
<1> QED BY <1>1, <1>2, <1>3, <1>4, <1>5, <1>6 DEF IInv

\* A process that ends, whatever it was doing.
LEMMA ExitInv ==
  ASSUME IInv, NEW p \in Processes, Exit(p), work' = work, kills' \in 0..MaxKills
  PROVE  IInv'
<1> USE ProcessesAssumption, BoundsAssumption
<1>1. TypeOK'
  BY DEF IInv, TypeOK, Exit
<1>2. Schema(db)'
  BY DEF IInv, Schema, Exit
<1>3. TodoInv'
  <2>1. todo' = [todo EXCEPT ![p] = From(8)]
    BY FromFacts DEF Exit
  <2>2. todo' \in [Processes -> {From(k) : k \in 1..8}]
    BY <2>1 DEF IInv, TodoInv
  <2>3. ASSUME NEW q \in Processes, pc'[q] = "migrating", writer' # q
        PROVE  \E k \in {1, 3} : todo'[q] = From(k) /\ (k = 3 => 1 \in db'.applied)
    <3>1. q # p /\ pc[q] = "migrating" /\ writer # q
      BY <2>3 DEF IInv, TypeOK, Exit
    <3> QED BY <2>1, <3>1 DEF IInv, TodoInv, Exit
  <2> QED BY <2>2, <2>3 DEF TodoInv
<1>4. WriterInv'
  <2>1. CASE writer \in {None, p}
    BY <2>1 DEF Exit, WriterInv
  <2>2. CASE writer \notin {None, p}
    BY <2>2 DEF IInv, TypeOK, TodoInv, WriterInv, Stage, Exit
  <2> QED BY <2>1, <2>2
<1>5. SeedInv'
  BY DEF IInv, TypeOK, SeedInv, Exit
<1>6. ServerInv' /\ OnePoller'
  BY DEF IInv, TypeOK, ServerInv, OnePoller, Exit
<1> QED BY <1>1, <1>2, <1>3, <1>4, <1>5, <1>6 DEF IInv

\* Reading the versions on record leaves a process at the begin of what is
\* pending, and what precedes that is on record for good.
LEMMA ReadAppliedInv ==
  ASSUME IInv, NEW p \in Processes, ReadApplied(p)
  PROVE  IInv'
<1> USE ProcessesAssumption, BoundsAssumption
<1>1. PICK k \in {1, 3, 8} : /\ Pending(db.applied) = From(k)
                             /\ k = 3 => 1 \in db.applied
  BY PendingIsFrom DEF IInv, Schema
<1>2. writer # p
  BY DEF IInv, WriterInv, ReadApplied
<1>3. TypeOK'
  BY DEF IInv, TypeOK, ReadApplied
<1>4. TodoInv'
  <2>1. todo' = [todo EXCEPT ![p] = From(k)]
    BY <1>1 DEF ReadApplied
  <2>2. todo' \in [Processes -> {From(j) : j \in 1..8}]
    BY <2>1 DEF IInv, TodoInv
  <2>3. ASSUME NEW q \in Processes, pc'[q] = "migrating", writer' # q
        PROVE  \E j \in {1, 3} : todo'[q] = From(j) /\ (j = 3 => 1 \in db'.applied)
    <3>1. CASE q = p
      <4>1. k # 8
        BY <1>1, <2>3, <3>1, FromFacts DEF IInv, TypeOK, ReadApplied
      <4>2. todo'[q] = From(k)
        BY <2>1, <3>1 DEF IInv, TodoInv
      <4> QED BY <1>1, <4>1, <4>2 DEF ReadApplied
    <3>2. CASE q # p
      BY <2>1, <2>3, <3>2 DEF IInv, TypeOK, TodoInv, ReadApplied
    <3> QED BY <3>1, <3>2
  <2> QED BY <2>2, <2>3 DEF TodoInv
<1>5. WriterInv'
  BY <1>2 DEF IInv, TypeOK, TodoInv, WriterInv, Stage, ReadApplied
<1>6. SeedInv' /\ ServerInv'
  BY DEF IInv, TypeOK, SeedInv, ServerInv, ReadApplied
<1> QED BY <1>3, <1>4, <1>5, <1>6 DEF IInv, Schema, OnePoller, ReadApplied

\* A statement makes the process the writer, one statement further.
LEMMA StatementInv ==
  ASSUME IInv, NEW p \in Processes, Statement(p)
  PROVE  IInv'
<1> USE ProcessesAssumption, BoundsAssumption
<1>1. PICK k \in 1..7 : /\ todo[p] = From(k)
                        /\ work' = Effect(Line(k), Seen(p))
                        /\ Stage(k + 1)'
  <2>1. db' = db /\ db \in Databases /\ work \in Databases /\ Schema(db)
    BY DEF Statement, IInv, TypeOK
  <2>2. CASE writer = None
    <3>1. writer # p /\ Seen(p) = db
      BY <2>2 DEF Seen
    <3>2. PICK k \in {1, 3} : todo[p] = From(k) /\ (k = 3 => 1 \in db.applied)
      BY <3>1 DEF IInv, TodoInv, Statement
    <3>3. Head(todo[p]) = Line(k)
      <4>1. k \in 1..7
        OBVIOUS
      <4>2. Head(From(k)) = Line(k)
        BY <4>1, FromFacts
      <4> QED BY <3>2, <4>2
    <3>4. work' = Effect(Line(k), db)
      BY <3>1, <3>3 DEF Statement
    <3>5. Stage(k + 1)'
      BY <2>1, <3>2, <3>4, FirstStage
    <3> QED BY <3>1, <3>2, <3>4, <3>5
  <2>3. CASE writer = p
    <3>1. Seen(p) = work
      BY <2>3 DEF Seen
    <3>2. PICK k \in 2..8 : todo[p] = From(k) /\ Stage(k)
      BY <2>3 DEF IInv, WriterInv
    <3>3. k \in 2..7
      BY <3>2, FromFacts DEF Statement
    <3>4. Head(todo[p]) = Line(k)
      <4>1. k \in 1..7
        BY <3>3
      <4>2. Head(From(k)) = Line(k)
        BY <4>1, FromFacts
      <4> QED BY <3>2, <4>2
    <3>5. work' = Effect(Line(k), work) /\ ~Throws(Line(k), work)
      BY <3>1, <3>4 DEF Statement
    <3>6. Stage(k + 1)'
      BY <2>1, <3>2, <3>3, <3>5, NextStage
    <3> QED BY <3>1, <3>2, <3>3, <3>5, <3>6
  <2> QED BY <2>2, <2>3 DEF Statement
<1>2. Tail(todo[p]) = From(k + 1)
  BY <1>1, FromFacts
<1>3. todo' = [todo EXCEPT ![p] = From(k + 1)] /\ writer' = p
  BY <1>2 DEF Statement
<1>4. TypeOK'
  <2>1. Seen(p) \in Databases
    BY DEF Seen, IInv, TypeOK
  <2>2. work' \in Databases
    BY <1>1, <2>1, EffectType
  <2> QED BY <2>2 DEF IInv, TypeOK, Statement
<1>5. TodoInv'
  <2>1. k + 1 \in 1..8
    OBVIOUS
  <2>2. todo' \in [Processes -> {From(j) : j \in 1..8}]
    BY <1>3, <2>1 DEF IInv, TodoInv
  <2>3. ASSUME NEW q \in Processes, pc'[q] = "migrating", writer' # q
        PROVE  \E j \in {1, 3} : todo'[q] = From(j) /\ (j = 3 => 1 \in db'.applied)
    BY <1>3, <2>3 DEF IInv, TodoInv, Statement
  <2> QED BY <2>2, <2>3 DEF TodoInv
<1>6. WriterInv'
  <2>1. k + 1 \in 2..8 /\ todo'[p] = From(k + 1)
    BY <1>3 DEF IInv, TodoInv
  <2> QED BY <1>1, <1>3, <2>1 DEF WriterInv, Statement
<1> QED BY <1>4, <1>5, <1>6 DEF IInv, Schema, SeedInv, ServerInv, OnePoller,
                           Statement

\* What a migration commits is the newest schema, with the rows of the old one.
LEMMA CommitStep ==
  ASSUME IInv, NEW p \in Processes, Commit(p)
  PROVE  /\ writer = p /\ db' = work /\ Stage(8)
         /\ db'.applied = {1, 2}
<1>1. writer = p
  <2> SUFFICES ASSUME writer # p PROVE FALSE
    OBVIOUS
  <2> QED BY FromFacts DEF Commit, IInv, TodoInv
<1>2. PICK k \in 2..8 : todo[p] = From(k) /\ Stage(k)
  BY <1>1, ProcessesAssumption DEF IInv, WriterInv
<1>3. k = 8
  <2> SUFFICES ASSUME k \in 1..7 PROVE FALSE
    OBVIOUS
  <2>1. From(k) # <<>>
    BY FromFacts
  <2> QED BY <1>2, <2>1 DEF Commit
<1>4. db' = work
  BY <1>1 DEF Commit, Seen
<1> QED BY <1>1, <1>2, <1>3, <1>4 DEF Stage, IInv, TypeOK, Databases, Migrations

LEMMA CommitInv ==
  ASSUME IInv, NEW p \in Processes, Commit(p)
  PROVE  IInv'
<1> USE ProcessesAssumption, BoundsAssumption
<1>1. /\ writer = p /\ db' = work /\ Stage(8) /\ db'.applied = {1, 2}
  BY CommitStep
<1>2. TypeOK'
  BY <1>1 DEF IInv, TypeOK, Commit
<1>3. Schema(db)'
  BY <1>1 DEF Schema, Stage
<1>4. TodoInv'
  BY <1>1 DEF IInv, TypeOK, TodoInv, Commit
<1>5. WriterInv'
  BY DEF WriterInv, Commit
<1>6. SeedInv' /\ ServerInv'
  BY <1>1 DEF IInv, TypeOK, SeedInv, ServerInv, Stage, Commit
<1> QED BY <1>2, <1>3, <1>4, <1>5, <1>6 DEF IInv, OnePoller, Commit

\* The steps of boot that migrate nothing.
LEMMA BootInv ==
  ASSUME IInv, NEW p \in Processes,
         Start(p) \/ CountPrompts(p) \/ SeedOne(p) \/ Bind(p)
  PROVE  IInv'
<1> USE ProcessesAssumption, BoundsAssumption
<1>1. CASE Start(p)
  <2>1. TypeOK' /\ Schema(db)' /\ ServerInv' /\ OnePoller'
    BY <1>1 DEF IInv, TypeOK, Schema, ServerInv, OnePoller, Start
  <2>2. TodoInv' /\ SeedInv'
    BY <1>1 DEF IInv, TypeOK, TodoInv, SeedInv, Start
  <2>3. WriterInv'
    BY <1>1 DEF IInv, TypeOK, WriterInv, Stage, Start
  <2> QED BY <2>1, <2>2, <2>3 DEF IInv
<1>2. CASE CountPrompts(p)
  <2>1. TypeOK' /\ Schema(db)' /\ ServerInv' /\ OnePoller'
    BY <1>2 DEF IInv, TypeOK, Schema, ServerInv, OnePoller, CountPrompts, IsServer
  <2>2. TodoInv'
    BY <1>2 DEF IInv, TypeOK, TodoInv, CountPrompts
  <2>3. SeedInv'
    BY <1>2 DEF IInv, TypeOK, SeedInv, CountPrompts, Seeds
  <2>4. WriterInv'
    BY <1>2 DEF IInv, TypeOK, WriterInv, Stage, CountPrompts
  <2> QED BY <2>1, <2>2, <2>3, <2>4 DEF IInv
<1>3. CASE SeedOne(p)
  <2>1. db' = [db EXCEPT !.prompts = @ + 1] /\ db \in Databases
    BY <1>3 DEF IInv, TypeOK, SeedOne
  <2>2. /\ db' \in Databases /\ db'.prompts = db.prompts + 1
        /\ db'.applied = db.applied /\ db'.jobs = db.jobs
        /\ db'.jobs__v2 = db.jobs__v2
    BY <2>1 DEF Databases
  <2>3. TypeOK'
    BY <1>3, <2>2 DEF IInv, TypeOK, SeedOne
  <2>4. Schema(db)' /\ ServerInv' /\ OnePoller'
    BY <1>3, <2>2 DEF IInv, TypeOK, Schema, ServerInv, OnePoller, SeedOne
  <2>5. TodoInv' /\ WriterInv'
    BY <1>3, <2>2 DEF IInv, TypeOK, TodoInv, WriterInv, SeedOne
  <2>6. SeedInv'
    BY <1>3, <2>2 DEF IInv, TypeOK, SeedInv, SeedOne, Databases
  <2> QED BY <2>3, <2>4, <2>5, <2>6 DEF IInv
<1>4. CASE Bind(p)
  <2>1. p \in Servers
    BY <1>4 DEF Bind, IInv, ServerInv
  <2>2. TypeOK' /\ Schema(db)' /\ ServerInv' /\ OnePoller'
    BY <1>4, <2>1 DEF IInv, TypeOK, Schema, ServerInv, OnePoller, Bind, Processes
  <2>3. TodoInv' /\ SeedInv'
    BY <1>4 DEF IInv, TypeOK, TodoInv, SeedInv, Bind
  <2>4. WriterInv'
    BY <1>4 DEF IInv, TypeOK, WriterInv, Stage, Bind
  <2> QED BY <2>2, <2>3, <2>4 DEF IInv
<1> QED BY <1>1, <1>2, <1>3, <1>4

\* The steps that end a process.
LEMMA EndingsInv ==
  ASSUME IInv, NEW p \in Processes,
         Kill(p) \/ Busy(p) \/ StatementThrows(p) \/ CommandDone(p) \/ BindFails(p)
  PROVE  IInv'
<1>1. Exit(p) /\ work' = work
  BY DEF Kill, Busy, StatementThrows, CommandDone, BindFails
<1>2. kills' \in 0..MaxKills
  BY BoundsAssumption
     DEF IInv, TypeOK, Kill, Busy, StatementThrows, CommandDone, BindFails
<1> QED BY <1>1, <1>2, ExitInv

LEMMA StepInv == IInv /\ [Next]_vars => IInv'
<1> SUFFICES ASSUME IInv, [Next]_vars PROVE IInv'
  OBVIOUS
<1>1. CASE UNCHANGED vars
  BY <1>1 DEF vars, IInv, TypeOK, Schema, TodoInv, WriterInv, Stage, SeedInv,
              ServerInv, OnePoller
<1>2. ASSUME NEW p \in Processes,
             \/ Kill(p) \/ Busy(p) \/ Start(p)
             \/ Migrates(p) \/ CommandDone(p) \/ Boots(p)
      PROVE  IInv'
  BY <1>2, ReadAppliedInv, StatementInv, CommitInv, BootInv, EndingsInv
     DEF Migrates, Boots
<1> QED BY <1>1, <1>2 DEF Next

THEOREM Inductive == Spec => []IInv
<1> QED BY InitInv, StepInv, PTL DEF Spec

-----------------------------------------------------------------------------
(* What follows.                                                           *)

(* Every variable stays in its range, and only servers ever poll.          *)
THEOREM TypeCorrect == Spec => []TypeOK
<1>1. IInv => TypeOK
  BY DEF IInv
<1> QED BY <1>1, Inductive, PTL

(* However many processes migrate one file, and wherever each is killed,   *)
(* what is committed is the schema of the recorded versions (migrations.ts *)
(* runMigrations).                                                         *)
THEOREM SchemaCorrect == Spec => []SchemaMatchesRecord
<1>1. IInv => SchemaMatchesRecord
  <2> SUFFICES ASSUME IInv PROVE SchemaMatchesRecord
    OBVIOUS
  <2>1. Cardinality({}) = 0 /\ Cardinality({1}) = 1
    BY FS_EmptySet, FS_Singleton
  <2>2. Cardinality({1, 2}) = 2
    <3>1. IsFiniteSet({1})
      BY FS_Singleton
    <3>2. {1} \cup {2} = {1, 2} /\ 2 \notin {1}
      OBVIOUS
    <3>3. Cardinality({1} \cup {2}) = Cardinality({1}) + 1
      BY <3>1, <3>2, FS_AddElement
    <3> QED BY <2>1, <3>2, <3>3
  <2> QED BY <2>1, <2>2 DEF IInv, Schema, SchemaMatchesRecord, NoTable
<1> QED BY <1>1, Inductive, PTL

(* No start, race or crash loses a generation job, though migration 2      *)
(* drops the table they are in.                                            *)
THEOREM RowsAreKept == Spec => RowsSurvive
<1>1. IInv /\ [Next]_vars => [db.jobs.rows \subseteq db'.jobs.rows]_vars
  <2> SUFFICES ASSUME IInv, Next PROVE db.jobs.rows \subseteq db'.jobs.rows
    BY DEF vars
  <2>1. PICK p \in Processes :
          \/ Kill(p) \/ Busy(p) \/ Start(p)
          \/ Migrates(p) \/ CommandDone(p) \/ Boots(p)
    BY DEF Next
  <2>2. CASE Commit(p)
    BY <2>2, CommitStep DEF Stage
  <2>3. CASE SeedOne(p)
    BY <2>3 DEF SeedOne, IInv, TypeOK, Databases
  <2>4. CASE ~Commit(p) /\ ~SeedOne(p)
    <3>1. db' = db
      BY <2>1, <2>4 DEF Kill, Busy, Start, Migrates, ReadApplied, Statement,
            StatementThrows, CommandDone, Boots, CountPrompts, Bind, BindFails, Exit
    <3> QED BY <3>1
  <2> QED BY <2>2, <2>3, <2>4
<1> QED BY <1>1, Inductive, PTL DEF Spec, RowsSurvive

(* With one seeding server the samples are inserted at most once, however  *)
(* often it is killed among them (seed.ts).                                *)
THEOREM SeededOnce == Spec => []SeededAtMostOnce
<1>1. IInv => SeededAtMostOnce
  BY DEF IInv, SeedInv, SeededAtMostOnce
<1> QED BY <1>1, Inductive, PTL

(* At most one server polls, and it is the one that has the port           *)
(* (server.ts starts the poller once it listens).                          *)
THEOREM PollerIsAlone == Spec => []OnePoller
<1>1. IInv => OnePoller
  BY DEF IInv
<1> QED BY <1>1, Inductive, PTL
=============================================================================
