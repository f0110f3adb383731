------------------------- MODULE PromptLibraryProofs -------------------------
(***************************************************************************)
(* The prompt library.  Its tables, for every set of prompts, versions and *)
(* contents: the inductive invariant says what an open transaction has     *)
(* done so far, from which follow the invariants of PromptLibrary and that *)
(* it implements PromptHistory.  And its texts: what PromptText says of    *)
(* rendering, searching and inserting holds of texts of every length, by   *)
(* induction over the recursive functions it is written with.              *)
(***************************************************************************)
EXTENDS PromptLibrary, PromptText, SequenceTheorems, WellFoundedInduction, TLAPS

\* TypeOK, as sets of tables.
Tables(ids, rows) == UNION {[S -> rows] : S \in SUBSET ids}
Databases == [prompts : Tables(Prompts, PromptRows),
              versions : Tables(VersionIds, VersionRows)]

TypeInv ==
  /\ {db, work, told} \subseteq Databases
  /\ open \in BOOLEAN
  /\ call \in Calls \cup {NoCall}

Makes(c) == c.op \in {"create", "duplicate"}
Base(d, c) == IF Makes(c) THEN InsertPrompt(d, c) ELSE d
Made(d, c) == SetCurrentVersion(InsertVersion(Base(d, c), c), c)

\* What the transaction c sees after the statements it is through with.
WorkOf(d, c) ==
  CASE c.todo = <<"prompt", "version", "head">> -> d
    [] c.todo = <<"version", "head">> -> Base(d, c)
    [] c.todo = <<"head">> -> InsertVersion(Base(d, c), c)
    [] OTHER -> Made(d, c)

\* The number of the prompt's newest version, 0 while there is no prompt.
LastNumber(d, p) ==
  IF p \in DOMAIN d.prompts THEN d.versions[d.prompts[p].head].number ELSE 0

WholePrompt(d, p) ==
  /\ d.prompts[p].head \in VersionsOf(d, p)
  /\ NumbersOf(d, p) = 1..LastNumber(d, p)
  /\ \A v, w \in VersionsOf(d, p) :
       d.versions[v].number = d.versions[w].number => v = w
  /\ d.prompts[p].archivedAt <=> d.prompts[p].status = "archived"

\* The tables of WellFormed; and no version is without its prompt.
Whole(d) ==
  /\ \A p \in DOMAIN d.prompts : WholePrompt(d, p)
  /\ \A v \in DOMAIN d.versions : d.versions[v].prompt \in DOMAIN d.prompts

\* What the checks before the transaction found.
CallOK(d, c) ==
  /\ c.version \notin DOMAIN d.versions
  /\ Makes(c) => c.prompt \notin DOMAIN d.prompts /\ c.status # "archived"
  /\ ~Makes(c) => /\ c.prompt \in DOMAIN d.prompts
                  /\ d.prompts[c.prompt].status # "archived"
                  /\ c.source = c.prompt
                  /\ c.todo # <<"prompt", "version", "head">>
  /\ c.op = "restore" =>
       \E v \in VersionsOf(d, c.source) : d.versions[v].content = c.content
  /\ c.op = "duplicate" =>
       /\ c.source \in DOMAIN d.prompts
       /\ c.content = d.versions[d.prompts[c.source].head].content

TransactionInv ==
  /\ open <=> call # NoCall
  /\ call = NoCall => work = db
  /\ call # NoCall => work = WorkOf(db, call) /\ CallOK(db, call)

IInv == TypeInv /\ Whole(db) /\ AnsweredIsCommitted /\ TransactionInv

-----------------------------------------------------------------------------
(* Tables.                                                                 *)

LEMMA TableFacts ==
  ASSUME NEW ids, NEW rows, NEW f \in Tables(ids, rows)
  PROVE  DOMAIN f \subseteq ids /\ f \in [DOMAIN f -> rows]
BY DEF Tables

LEMMA TableMade ==
  ASSUME NEW ids, NEW rows, NEW S \in SUBSET ids, NEW f \in [S -> rows]
  PROVE  f \in Tables(ids, rows)
BY DEF Tables

LEMMA InsertType ==
  ASSUME NEW ids, NEW rows, NEW f \in Tables(ids, rows), NEW k \in ids,
         NEW r \in rows
  PROVE  Insert(f, k, r) \in Tables(ids, rows)
<1>1. DOMAIN f \subseteq ids /\ f \in [DOMAIN f -> rows]
  BY TableFacts
<1>2. Insert(f, k, r) \in [DOMAIN f \cup {k} -> rows]
  BY <1>1 DEF Insert
<1> QED
  BY <1>1, <1>2, TableMade

LEMMA DatabaseFacts ==
  ASSUME NEW d \in Databases
  PROVE  /\ DOMAIN d.prompts \subseteq Prompts
         /\ DOMAIN d.versions \subseteq VersionIds
         /\ \A p \in DOMAIN d.prompts : d.prompts[p] \in PromptRows
         /\ \A v \in DOMAIN d.versions : d.versions[v] \in VersionRows
<1>1. d.prompts \in Tables(Prompts, PromptRows)
      /\ d.versions \in Tables(VersionIds, VersionRows)
  BY DEF Databases
<1> QED
  BY <1>1, TableFacts

LEMMA MaxOfNumbers ==
  ASSUME NEW n \in Nat
  PROVE  Max({0} \cup 1..n) = n
<1> DEFINE S == {0} \cup 1..n
<1>1. n \in S /\ \A m \in S : n >= m
  OBVIOUS
<1>2. Max(S) \in S /\ \A m \in S : Max(S) >= m
  BY <1>1 DEF Max
<1> QED
  BY <1>1, <1>2

LEMMA NumberFacts ==
  ASSUME NEW d \in Databases, Whole(d), NEW p \in Prompts
  PROVE  /\ LastNumber(d, p) \in Nat
         /\ NumbersOf(d, p) = 1..LastNumber(d, p)
         /\ Max({0} \cup NumbersOf(d, p)) = LastNumber(d, p)
         /\ NextVersionNumber(d, p) = LastNumber(d, p) + 1
<1>1. LastNumber(d, p) \in Nat /\ NumbersOf(d, p) = 1..LastNumber(d, p)
  <2>1. CASE p \in DOMAIN d.prompts
    <3>1. WholePrompt(d, p)
      BY <2>1 DEF Whole
    <3>2. d.versions[d.prompts[p].head] \in VersionRows
      BY <3>1, DatabaseFacts DEF WholePrompt, VersionsOf
    <3>3. QED
      BY <2>1, <3>1, <3>2 DEF WholePrompt, LastNumber, VersionRows
  <2>2. CASE p \notin DOMAIN d.prompts
    <3>1. VersionsOf(d, p) = {}
      BY <2>2 DEF Whole, VersionsOf
    <3>2. NumbersOf(d, p) = {} /\ LastNumber(d, p) = 0
      BY <2>2, <3>1 DEF NumbersOf, LastNumber
    <3>3. QED
      BY <3>2
  <2>3. QED
    BY <2>1, <2>2
<1>2. Max({0} \cup NumbersOf(d, p)) = LastNumber(d, p)
  BY <1>1, MaxOfNumbers
<1> QED
  BY <1>1, <1>2 DEF NextVersionNumber

-----------------------------------------------------------------------------
(* Statements.                                                             *)

LEMMA CallFacts ==
  ASSUME NEW c \in Calls
  PROVE  /\ c.op \in {"create", "duplicate", "version", "restore"}
         /\ c.prompt \in Prompts /\ c.source \in Prompts
         /\ c.version \in VersionIds /\ c.content \in Contents
         /\ c.todo \in Todos
         /\ Makes(c) => c.name \in Names /\ c.status \in Statuses
         /\ c # NoCall
BY DEF Calls, Makes, NoCall

\* The prompt is there once the first of the statements is through.
LEMMA BaseFacts ==
  ASSUME NEW d \in Databases, NEW c \in Calls, CallOK(d, c)
  PROVE  LET b == Base(d, c) IN
         /\ b \in Databases /\ b.versions = d.versions
         /\ DOMAIN b.prompts = DOMAIN d.prompts \cup {c.prompt}
         /\ \A p \in DOMAIN d.prompts : b.prompts[p] = d.prompts[p]
         /\ Makes(c) => b.prompts[c.prompt] =
              [name |-> c.name, status |-> c.status, head |-> NoVersion,
               archivedAt |-> FALSE]
<1>1. CASE Makes(c)
  <2> DEFINE r == [name |-> c.name, status |-> c.status, head |-> NoVersion,
                   archivedAt |-> FALSE]
             f == Insert(d.prompts, c.prompt, r)
  <2>1. r \in PromptRows /\ c.prompt \in Prompts
    BY <1>1, CallFacts DEF PromptRows
  <2>2. d.prompts \in Tables(Prompts, PromptRows)
        /\ d.versions \in Tables(VersionIds, VersionRows)
    BY DEF Databases
  <2>3. /\ f \in Tables(Prompts, PromptRows)
        /\ DOMAIN f = DOMAIN d.prompts \cup {c.prompt}
        /\ f[c.prompt] = r
        /\ \A p \in DOMAIN d.prompts : p # c.prompt => f[p] = d.prompts[p]
    <3> HIDE DEF r
    <3>1. f \in Tables(Prompts, PromptRows)
      BY <2>1, <2>2, InsertType
    <3>2. QED
      BY <3>1 DEF Insert
  <2>4. Base(d, c) = [d EXCEPT !.prompts = f]
    BY <1>1 DEF Base, InsertPrompt
  <2>5. c.prompt \notin DOMAIN d.prompts
    BY <1>1 DEF CallOK
  <2> HIDE DEF f, r
  <2>6. /\ Base(d, c) \in Databases
        /\ Base(d, c).versions = d.versions /\ Base(d, c).prompts = f
    BY <2>2, <2>3, <2>4 DEF Databases
  <2>7. QED
    BY <2>3, <2>5, <2>6 DEF r
<1>2. CASE ~Makes(c)
  <2>1. Base(d, c) = d /\ c.prompt \in DOMAIN d.prompts
    BY <1>2 DEF Base, CallOK
  <2>2. QED
    BY <1>2, <2>1
<1>3. QED
  BY <1>1, <1>2

LEMMA VersionFacts ==
  ASSUME NEW d \in Databases, Whole(d), NEW c \in Calls, CallOK(d, c)
  PROVE  LET b == Base(d, c)
             e == InsertVersion(b, c)
         IN
         /\ e \in Databases /\ e.prompts = b.prompts
         /\ DOMAIN e.versions = DOMAIN d.versions \cup {c.version}
         /\ \A v \in DOMAIN d.versions : e.versions[v] = d.versions[v]
         /\ e.versions[c.version] =
              [prompt |-> c.prompt, content |-> c.content,
               number |-> LastNumber(d, c.prompt) + 1]
<1> DEFINE b == Base(d, c)
           n == LastNumber(d, c.prompt) + 1
           r == [prompt |-> c.prompt, content |-> c.content, number |-> n]
           f == Insert(d.versions, c.version, r)
<1>1. b \in Databases /\ b.versions = d.versions
  BY BaseFacts
<1>2. /\ c.prompt \in Prompts /\ c.version \in VersionIds
      /\ c.content \in Contents /\ c.version \notin DOMAIN d.versions
  BY CallFacts DEF CallOK
<1>3. NextVersionNumber(d, c.prompt) = n /\ n \in Nat \ {0}
  <2>1. c.prompt \in Prompts
    BY <1>2
  <2>2. /\ LastNumber(d, c.prompt) \in Nat
        /\ NextVersionNumber(d, c.prompt) = LastNumber(d, c.prompt) + 1
    BY <2>1, NumberFacts, Zenon
  <2>3. QED
    BY <2>2
<1>4. NextVersionNumber(b, c.prompt) = n
  BY <1>1, <1>3 DEF NextVersionNumber, NumbersOf, VersionsOf
<1>5. r \in VersionRows
  BY <1>2, <1>3 DEF VersionRows
<1>6. InsertVersion(b, c) = [b EXCEPT !.versions = f]
  BY <1>1, <1>4 DEF InsertVersion
<1>7. d.versions \in Tables(VersionIds, VersionRows)
      /\ b.prompts \in Tables(Prompts, PromptRows)
  BY <1>1 DEF Databases
<1> HIDE DEF b, n, r
<1>8. /\ f \in Tables(VersionIds, VersionRows)
      /\ DOMAIN f = DOMAIN d.versions \cup {c.version}
      /\ f[c.version] = r
      /\ \A v \in DOMAIN d.versions : v # c.version => f[v] = d.versions[v]
  <2>1. f \in Tables(VersionIds, VersionRows)
    BY <1>2, <1>5, <1>7, InsertType
  <2>2. QED
    BY <2>1 DEF Insert
<1> HIDE DEF f
<1>9. /\ InsertVersion(b, c) \in Databases
      /\ InsertVersion(b, c).prompts = b.prompts
      /\ InsertVersion(b, c).versions = f
  BY <1>1, <1>6, <1>7, <1>8 DEF Databases
<1> QED
  BY <1>2, <1>8, <1>9 DEF b, r, n

\* What a transaction that is through makes of the tables.
LEMMA MadeFacts ==
  ASSUME NEW d \in Databases, Whole(d), NEW c \in Calls, CallOK(d, c)
  PROVE  LET m == Made(d, c) IN
         /\ m \in Databases
         /\ DOMAIN m.prompts = DOMAIN d.prompts \cup {c.prompt}
         /\ \A p \in DOMAIN d.prompts \ {c.prompt} : m.prompts[p] = d.prompts[p]
         /\ m.prompts[c.prompt] = [Base(d, c).prompts[c.prompt] EXCEPT
                                     !.head = c.version]
         /\ DOMAIN m.versions = DOMAIN d.versions \cup {c.version}
         /\ \A v \in DOMAIN d.versions : m.versions[v] = d.versions[v]
         /\ m.versions[c.version] =
              [prompt |-> c.prompt, content |-> c.content,
               number |-> LastNumber(d, c.prompt) + 1]
<1> DEFINE b == Base(d, c)
           e == InsertVersion(b, c)
           r == [b.prompts[c.prompt] EXCEPT !.head = c.version]
           f == [b.prompts EXCEPT ![c.prompt] = r]
<1>1. /\ b \in Databases
      /\ DOMAIN b.prompts = DOMAIN d.prompts \cup {c.prompt}
      /\ \A p \in DOMAIN d.prompts : b.prompts[p] = d.prompts[p]
  BY BaseFacts
<1>2. /\ e \in Databases /\ e.prompts = b.prompts
      /\ DOMAIN e.versions = DOMAIN d.versions \cup {c.version}
      /\ \A v \in DOMAIN d.versions : e.versions[v] = d.versions[v]
      /\ e.versions[c.version] =
           [prompt |-> c.prompt, content |-> c.content,
            number |-> LastNumber(d, c.prompt) + 1]
  BY VersionFacts
<1> HIDE DEF b, e
<1>3. Made(d, c) = [e EXCEPT !.prompts = f]
  BY <1>2 DEF Made, SetCurrentVersion, b, e
<1>4. b.prompts[c.prompt] \in PromptRows /\ c.version \in VersionIds
      /\ c.prompt \in Prompts
  BY <1>1, CallFacts, DatabaseFacts
<1>5. r \in PromptRows
  BY <1>4 DEF PromptRows
<1> HIDE DEF r
<1>6. /\ b.prompts \in [DOMAIN b.prompts -> PromptRows]
      /\ DOMAIN b.prompts \subseteq Prompts
  BY <1>1, TableFacts DEF Databases
<1>7. f \in [DOMAIN b.prompts -> PromptRows]
      /\ f[c.prompt] = r
      /\ \A p \in DOMAIN d.prompts \ {c.prompt} : f[p] = d.prompts[p]
  BY <1>1, <1>5, <1>6
<1>8. f \in Tables(Prompts, PromptRows) /\ DOMAIN f = DOMAIN b.prompts
  BY <1>6, <1>7, TableMade
<1> HIDE DEF f
<1>9. /\ Made(d, c) \in Databases
      /\ Made(d, c).prompts = f /\ Made(d, c).versions = e.versions
  BY <1>2, <1>3, <1>8 DEF Databases
<1> QED
  BY <1>1, <1>2, <1>7, <1>8, <1>9 DEF r, b

\* The prompts of a whole database have their versions told apart by number.
LEMMA PromptFacts ==
  ASSUME NEW d \in Databases, Whole(d), NEW p \in Prompts
  PROVE  /\ \A v, w \in VersionsOf(d, p) :
              d.versions[v].number = d.versions[w].number => v = w
         /\ \A v \in VersionsOf(d, p) :
              d.versions[v].number \in 1..LastNumber(d, p)
         /\ p \notin DOMAIN d.prompts => VersionsOf(d, p) = {}
<1>1. CASE p \in DOMAIN d.prompts
  BY <1>1 DEF Whole, WholePrompt, NumbersOf
<1>2. CASE p \notin DOMAIN d.prompts
  BY <1>2 DEF Whole, VersionsOf
<1>3. QED
  BY <1>1, <1>2

LEMMA MadeIsWhole ==
  ASSUME NEW d \in Databases, Whole(d), NEW c \in Calls, CallOK(d, c)
  PROVE  Whole(Made(d, c))
<1> DEFINE m == Made(d, c)
           q == c.prompt
           n == LastNumber(d, q)
<1>1. /\ DOMAIN m.prompts = DOMAIN d.prompts \cup {q}
      /\ \A p \in DOMAIN d.prompts \ {q} : m.prompts[p] = d.prompts[p]
      /\ m.prompts[q] = [Base(d, c).prompts[q] EXCEPT !.head = c.version]
      /\ DOMAIN m.versions = DOMAIN d.versions \cup {c.version}
      /\ \A v \in DOMAIN d.versions : m.versions[v] = d.versions[v]
      /\ m.versions[c.version] =
           [prompt |-> q, content |-> c.content, number |-> n + 1]
  BY MadeFacts
<1>2. c.version \notin DOMAIN d.versions /\ q \in Prompts
  BY CallFacts DEF CallOK
<1>3. m \in Databases
  BY MadeFacts
<1> HIDE DEF m
<1>4. n \in Nat
  BY <1>2, NumberFacts
<1>5. /\ \A v, w \in VersionsOf(d, q) :
           d.versions[v].number = d.versions[w].number => v = w
      /\ \A v \in VersionsOf(d, q) : d.versions[v].number \in 1..n
      /\ NumbersOf(d, q) = 1..n
  BY <1>2, PromptFacts, NumberFacts, Zenon
<1> HIDE DEF n
<1>6. WholePrompt(m, q)
  <2>1. VersionsOf(m, q) = VersionsOf(d, q) \cup {c.version}
    BY <1>1, <1>2 DEF VersionsOf
  <2>2. \A v \in VersionsOf(d, q) : m.versions[v] = d.versions[v]
    BY <1>1 DEF VersionsOf
  <2>3. NumbersOf(m, q) = NumbersOf(d, q) \cup {n + 1}
    BY <1>1, <2>1, <2>2 DEF NumbersOf
  <2>4. Base(d, c).prompts[q] \in PromptRows
    BY BaseFacts, DatabaseFacts
  <2>5. m.prompts[q].head = c.version
    BY <1>1, <2>4 DEF PromptRows
  <2>6. LastNumber(m, q) = n + 1
    BY <1>1, <2>5 DEF LastNumber
  <2>7. NumbersOf(m, q) = 1..LastNumber(m, q)
    BY <1>4, <1>5, <2>3, <2>6
  <2>8. \A v, w \in VersionsOf(m, q) :
          m.versions[v].number = m.versions[w].number => v = w
    <3>1. m.versions[c.version].number = n + 1
      BY <1>1
    <3>2. \A v \in VersionsOf(d, q) :
            m.versions[v].number = d.versions[v].number
            /\ d.versions[v].number # n + 1
      BY <1>4, <1>5, <2>2
    <3>3. QED
      BY <1>5, <2>1, <3>1, <3>2
  <2>9. m.prompts[q].archivedAt <=> m.prompts[q].status = "archived"
    <3>1. Base(d, c).prompts[q].archivedAt
            <=> Base(d, c).prompts[q].status = "archived"
      <4>1. CASE Makes(c)
        <5>1. Base(d, c).prompts[q] =
                [name |-> c.name, status |-> c.status, head |-> NoVersion,
                 archivedAt |-> FALSE]
          BY <4>1, BaseFacts, Zenon
        <5>2. c.status # "archived"
          BY <4>1 DEF CallOK
        <5>3. QED
          BY <5>1, <5>2
      <4>2. CASE ~Makes(c)
        <5>1. Base(d, c) = d /\ q \in DOMAIN d.prompts
          BY <4>2 DEF Base, CallOK
        <5>2. QED
          BY <5>1 DEF Whole, WholePrompt
      <4>3. QED
        BY <4>1, <4>2
    <3>2. /\ m.prompts[q].archivedAt = Base(d, c).prompts[q].archivedAt
          /\ m.prompts[q].status = Base(d, c).prompts[q].status
      BY <1>1, <2>4 DEF PromptRows
    <3>3. QED
      BY <3>1, <3>2
  <2>10. QED
    BY <2>1, <2>5, <2>7, <2>8, <2>9 DEF WholePrompt
<1>7. ASSUME NEW p \in DOMAIN d.prompts \ {q} PROVE WholePrompt(m, p)
  <2>1. VersionsOf(m, p) = VersionsOf(d, p)
    BY <1>1, <1>2 DEF VersionsOf
  <2>2. \A v \in VersionsOf(d, p) : m.versions[v] = d.versions[v]
    BY <1>1 DEF VersionsOf
  <2>3. NumbersOf(m, p) = NumbersOf(d, p)
    BY <2>1, <2>2 DEF NumbersOf
  <2>4. WholePrompt(d, p) /\ m.prompts[p] = d.prompts[p]
    BY <1>1 DEF Whole
  <2>5. LastNumber(m, p) = LastNumber(d, p)
    BY <1>1, <2>2, <2>4 DEF LastNumber, WholePrompt
  <2>6. QED
    BY <2>1, <2>2, <2>3, <2>4, <2>5 DEF WholePrompt
<1>8. \A v \in DOMAIN m.versions : m.versions[v].prompt \in DOMAIN m.prompts
  BY <1>1 DEF Whole
<1>9. Whole(m)
  BY <1>1, <1>6, <1>7, <1>8 DEF Whole
<1> QED
  BY <1>9 DEF m

LEMMA UpdateFacts ==
  ASSUME NEW d \in Databases, Whole(d), NEW p \in DOMAIN d.prompts,
         NEW n \in Names, NEW s \in Statuses
  PROVE  LET u == UpdatePrompt(d, p, n, s) IN
         /\ u \in Databases /\ Whole(u)
         /\ u.versions = d.versions /\ DOMAIN u.prompts = DOMAIN d.prompts
         /\ \A q \in DOMAIN d.prompts \ {p} : u.prompts[q] = d.prompts[q]
         /\ u.prompts[p].name = n /\ u.prompts[p].status = s
<1> DEFINE u == UpdatePrompt(d, p, n, s)
           r == [d.prompts[p] EXCEPT !.name = n, !.status = s,
                                     !.archivedAt = (s = "archived")]
           f == [d.prompts EXCEPT ![p] = r]
<1>1. /\ d.prompts \in [DOMAIN d.prompts -> PromptRows]
      /\ DOMAIN d.prompts \subseteq Prompts
  BY TableFacts DEF Databases
<1>2. /\ r \in PromptRows /\ r.head = d.prompts[p].head /\ r.name = n
      /\ r.status = s /\ r.archivedAt = (s = "archived")
  BY <1>1 DEF PromptRows
<1>3. u = [d EXCEPT !.prompts = f]
  BY <1>1 DEF UpdatePrompt, Databases
<1> HIDE DEF r
<1>4. /\ f \in [DOMAIN d.prompts -> PromptRows] /\ f[p] = r
      /\ \A q \in DOMAIN d.prompts \ {p} : f[q] = d.prompts[q]
  BY <1>1, <1>2
<1>5. f \in Tables(Prompts, PromptRows) /\ DOMAIN f = DOMAIN d.prompts
  BY <1>1, <1>4, TableMade
<1> HIDE DEF f, u
<1>6. u \in Databases /\ u.versions = d.versions /\ u.prompts = f
  BY <1>3, <1>5 DEF Databases
<1>7. \A q \in Prompts : /\ VersionsOf(u, q) = VersionsOf(d, q)
                         /\ NumbersOf(u, q) = NumbersOf(d, q)
  BY <1>6 DEF VersionsOf, NumbersOf
<1>8. \A q \in DOMAIN d.prompts : u.prompts[q].head = d.prompts[q].head
  BY <1>2, <1>4, <1>6
<1>9. \A q \in DOMAIN d.prompts : LastNumber(u, q) = LastNumber(d, q)
  BY <1>5, <1>6, <1>8 DEF LastNumber
<1>10. \A q \in DOMAIN d.prompts :
         u.prompts[q].archivedAt <=> u.prompts[q].status = "archived"
  BY <1>2, <1>4, <1>6 DEF Whole, WholePrompt
<1>11. \A q \in DOMAIN d.prompts : WholePrompt(u, q)
  BY <1>1, <1>6, <1>7, <1>8, <1>9, <1>10 DEF Whole, WholePrompt
<1>12. Whole(u)
  BY <1>5, <1>6, <1>11 DEF Whole
<1> QED
  BY <1>2, <1>4, <1>5, <1>6, <1>12 DEF u

-----------------------------------------------------------------------------
(* The invariant.                                                          *)

LEMMA WorkType ==
  ASSUME NEW d \in Databases, Whole(d), NEW c \in Calls, CallOK(d, c)
  PROVE  WorkOf(d, c) \in Databases
<1>1. Base(d, c) \in Databases
  BY BaseFacts
<1>2. InsertVersion(Base(d, c), c) \in Databases
  BY VersionFacts
<1>3. Made(d, c) \in Databases
  BY MadeFacts
<1> QED
  BY <1>1, <1>2, <1>3 DEF WorkOf

LEMMA InitInvariant == Init => IInv
<1> SUFFICES ASSUME Init PROVE IInv
  OBVIOUS
<1>1. Empty \in Databases
  <2>1. <<>> \in [{} -> PromptRows] /\ <<>> \in [{} -> VersionRows]
    OBVIOUS
  <2>2. <<>> \in Tables(Prompts, PromptRows)
        /\ <<>> \in Tables(VersionIds, VersionRows)
    BY <2>1, TableMade
  <2>3. QED
    BY <2>2 DEF Empty, Databases
<1>2. DOMAIN Empty.prompts = {} /\ DOMAIN Empty.versions = {}
  BY DEF Empty
<1>3. Whole(Empty)
  BY <1>2 DEF Whole
<1> QED
  BY <1>1, <1>3 DEF Init, IInv, TypeInv, AnsweredIsCommitted, TransactionInv

\* A request's transaction begins.
LEMMA BeginStep ==
  ASSUME IInv, NEW c \in Calls, CallOK(db, c), WorkOf(db, c) = db,
         Transaction(c)
  PROVE  IInv'
BY CallFacts
   DEF Transaction, IInv, TypeInv, AnsweredIsCommitted, TransactionInv

\* A script and what is left of it.
LEMMA TodoFacts ==
  /\ Head(<<"prompt", "version", "head">>) = "prompt"
  /\ Tail(<<"prompt", "version", "head">>) = <<"version", "head">>
  /\ Head(<<"version", "head">>) = "version"
  /\ Tail(<<"version", "head">>) = <<"head">>
  /\ Head(<<"head">>) = "head" /\ Tail(<<"head">>) = <<>>
  /\ <<"version", "head">> # <<"prompt", "version", "head">>
  /\ <<"head">> # <<"prompt", "version", "head">>
  /\ <<>> # <<"prompt", "version", "head">>
  /\ <<"head">> # <<"version", "head">>
  /\ <<>> # <<"version", "head">> /\ <<>> # <<"head">>
OBVIOUS

\* One more of its statements.
LEMMA ExecuteStep ==
  ASSUME IInv, Execute
  PROVE  IInv'
<1> DEFINE c == [call EXCEPT !.todo = Tail(call.todo)]
<1>1. /\ call \in Calls /\ CallOK(db, call) /\ work = WorkOf(db, call)
      /\ open /\ db \in Databases /\ Whole(db)
  BY DEF Execute, IInv, TypeInv, TransactionInv
<1>2. /\ call.todo # <<>> /\ call' = c /\ db' = db /\ told' = told
      /\ open' = open /\ work' = Effect(Head(call.todo), work, call)
  BY DEF Execute
<1>3. /\ call.todo \in {<<"prompt", "version", "head">>, <<"version", "head">>,
                        <<"head">>}
      /\ Tail(call.todo) \in Todos
      /\ Tail(call.todo) # <<"prompt", "version", "head">>
  <2>1. call.todo \in Todos
    BY <1>1, CallFacts
  <2>2. QED
    BY <1>2, <2>1, TodoFacts, Zenon DEF Todos
<1>4. c \in Calls
  BY <1>1, <1>3 DEF Calls
<1>5. /\ c.todo = Tail(call.todo) /\ (Makes(c) <=> Makes(call))
      /\ c.op = call.op /\ c.prompt = call.prompt /\ c.source = call.source
      /\ c.version = call.version /\ c.content = call.content
      /\ Makes(c) => c.name = call.name /\ c.status = call.status
  BY <1>1 DEF Calls, Makes
<1> HIDE DEF c
<1>6. /\ Base(db, c) = Base(db, call)
      /\ \A d : InsertVersion(d, c) = InsertVersion(d, call)
      /\ \A d : SetCurrentVersion(d, c) = SetCurrentVersion(d, call)
  BY <1>5 DEF Base, InsertPrompt, InsertVersion, SetCurrentVersion
<1>7. WorkOf(db, c) = Effect(Head(call.todo), work, call)
  <2>1. CASE call.todo = <<"prompt", "version", "head">>
    <3>1. Head(call.todo) = "prompt" /\ c.todo = <<"version", "head">>
          /\ Makes(call) /\ work = db
      BY <1>1, <1>5, <2>1, TodoFacts DEF CallOK, WorkOf
    <3>2. WorkOf(db, c) = InsertPrompt(db, call)
      BY <1>6, <3>1 DEF WorkOf, Base
    <3>3. QED
      BY <3>1, <3>2 DEF Effect
  <2>2. CASE call.todo = <<"version", "head">>
    <3>1. Head(call.todo) = "version" /\ c.todo = <<"head">>
          /\ work = Base(db, call)
      BY <1>1, <1>5, <2>2, TodoFacts, Zenon DEF WorkOf
    <3>2. WorkOf(db, c) = InsertVersion(work, call)
      BY <1>6, <3>1 DEF WorkOf
    <3>3. QED
      BY <3>1, <3>2 DEF Effect
  <2>3. CASE call.todo = <<"head">>
    <3>1. Head(call.todo) = "head" /\ c.todo = <<>>
          /\ work = InsertVersion(Base(db, call), call)
      BY <1>1, <1>5, <2>3, TodoFacts, Zenon DEF WorkOf
    <3>2. WorkOf(db, c) = SetCurrentVersion(work, call)
      BY <1>6, <3>1 DEF WorkOf, Made
    <3>3. QED
      BY <3>1, <3>2 DEF Effect
  <2>4. QED
    BY <1>3, <2>1, <2>2, <2>3
<1>8. CallOK(db, c)
  BY <1>1, <1>3, <1>5 DEF CallOK
<1>9. work' \in Databases /\ work' = WorkOf(db, c)
  BY <1>1, <1>2, <1>4, <1>7, <1>8, WorkType
<1> QED
  BY <1>1, <1>2, <1>4, <1>8, <1>9, CallFacts
     DEF IInv, TypeInv, AnsweredIsCommitted, TransactionInv

LEMMA CommitFacts ==
  ASSUME IInv, Commit
  PROVE  /\ call \in Calls /\ CallOK(db, call)
         /\ db \in Databases /\ Whole(db) /\ db' = Made(db, call)
<1>1. call \in Calls /\ CallOK(db, call) /\ work = WorkOf(db, call)
  BY DEF Commit, IInv, TypeInv, TransactionInv
<1>2. WorkOf(db, call) = Made(db, call)
  BY DEF Commit, WorkOf
<1> QED
  BY <1>1, <1>2 DEF Commit, IInv, TypeInv

LEMMA CommitStep ==
  ASSUME IInv, Commit
  PROVE  IInv'
<1>1. db' \in Databases /\ Whole(db')
  BY CommitFacts, MadeFacts, MadeIsWhole, ZenonT(60)
<1> QED
  BY <1>1 DEF Commit, IInv, TypeInv, AnsweredIsCommitted, TransactionInv

LEMMA UpdateStep ==
  ASSUME IInv, NEW p \in Prompts, NEW n \in Names, NEW s \in Statuses,
         Update(p, n, s)
  PROVE  IInv'
<1>1. /\ ~open /\ work = db /\ db \in Databases /\ Whole(db)
      /\ p \in DOMAIN db.prompts
      /\ db' = UpdatePrompt(db, p, n, s) /\ work' = db' /\ told' = db'
  BY DEF Update, IInv, TypeInv, TransactionInv
<1>2. db' \in Databases /\ Whole(db')
  BY <1>1, UpdateFacts
<1> QED
  BY <1>1, <1>2
     DEF Update, IInv, TypeInv, AnsweredIsCommitted, TransactionInv

LEMMA CreateStep ==
  ASSUME IInv, NEW p \in Prompts, NEW v \in VersionIds, NEW n \in Names,
         NEW s \in {"draft", "active"}, NEW c \in Contents,
         Create(p, v, n, s, c)
  PROVE  IInv'
<1> DEFINE r == [op |-> "create", prompt |-> p, source |-> p, version |-> v,
                 name |-> n, status |-> s, content |-> c,
                 todo |-> <<"prompt", "version", "head">>]
<1>1. work = db /\ Transaction(r)
  BY DEF Create, Transaction, IInv, TransactionInv
<1>2. r \in Calls /\ Makes(r)
  BY DEF Calls, Makes, Todos, Statuses
<1>3. CallOK(db, r)
  BY <1>1, <1>2 DEF Create, FreshPrompt, FreshVersion, CallOK
<1>4. WorkOf(db, r) = db
  BY DEF WorkOf
<1> QED
  BY <1>1, <1>2, <1>3, <1>4, BeginStep

\* The writes of a new version see the prompt's tables as they are.
LEMMA NewVersionStep ==
  ASSUME IInv, NEW op \in {"version", "restore"}, NEW p \in Prompts,
         NEW v \in VersionIds, NEW c \in Contents,
         Live(p), FreshVersion(v), NewVersion(op, p, v, c),
         op = "restore" =>
           \E t \in VersionsOf(work, p) : work.versions[t].content = c
  PROVE  IInv'
<1> DEFINE r == [op |-> op, prompt |-> p, source |-> p, version |-> v,
                 content |-> c, todo |-> <<"version", "head">>]
<1>1. work = db /\ Transaction(r)
  BY DEF NewVersion, Transaction, IInv, TransactionInv
<1>2. r \in Calls /\ ~Makes(r)
  BY DEF Calls, Makes, Todos
<1>3. CallOK(db, r)
  <2>1. r.todo # <<"prompt", "version", "head">>
    BY TodoFacts
  <2>2. QED
    BY <1>1, <1>2, <2>1 DEF Live, FreshVersion, CallOK
<1>4. WorkOf(db, r) = db
  <2>1. WorkOf(db, r) = Base(db, r)
    BY TodoFacts DEF WorkOf
  <2>2. QED
    BY <1>2, <2>1 DEF Base
<1> QED
  BY <1>1, <1>2, <1>3, <1>4, BeginStep

LEMMA RestoreStep ==
  ASSUME IInv, NEW p \in Prompts, NEW t \in VersionIds, NEW v \in VersionIds,
         RestoreVersion(p, t, v)
  PROVE  IInv'
<1>1. work \in Databases
  BY DEF IInv, TypeInv
<1>2. t \in VersionsOf(work, p) /\ work.versions[t].content \in Contents
  BY <1>1, DatabaseFacts
     DEF RestoreVersion, OwnVersion, VersionsOf, VersionRows
<1> QED
  BY <1>2, NewVersionStep DEF RestoreVersion

LEMMA DuplicateStep ==
  ASSUME IInv, NEW s \in Prompts, NEW p \in Prompts, NEW v \in VersionIds,
         Duplicate(s, p, v)
  PROVE  IInv'
<1> DEFINE r == [op |-> "duplicate", prompt |-> p, source |-> s, version |-> v,
                 name |-> work.prompts[s].name, status |-> "draft",
                 content |-> work.versions[work.prompts[s].head].content,
                 todo |-> <<"prompt", "version", "head">>]
<1>1. work = db /\ Transaction(r) /\ s \in DOMAIN db.prompts
      /\ db \in Databases /\ Whole(db)
  BY DEF Duplicate, Transaction, IInv, TypeInv, TransactionInv
<1>2. db.prompts[s].name \in Names
      /\ db.versions[db.prompts[s].head].content \in Contents
  <2>1. db.prompts[s].head \in VersionsOf(db, s)
    BY <1>1 DEF Whole, WholePrompt
  <2>2. QED
    BY <1>1, <2>1, DatabaseFacts DEF VersionsOf, PromptRows, VersionRows
<1>3. r \in Calls /\ Makes(r)
  BY <1>1, <1>2 DEF Calls, Makes, Todos, Statuses
<1>4. CallOK(db, r)
  BY <1>1, <1>3 DEF Duplicate, FreshPrompt, FreshVersion, CallOK
<1>5. WorkOf(db, r) = db
  BY DEF WorkOf
<1> QED
  BY <1>1, <1>3, <1>4, <1>5, BeginStep

LEMMA StepInvariant == IInv /\ [Next]_vars => IInv'
<1> SUFFICES ASSUME IInv, [Next]_vars PROVE IInv'
  OBVIOUS
<1>1. CASE Execute
  BY <1>1, ExecuteStep
<1>2. CASE Commit
  BY <1>2, CommitStep
<1>3. CASE Throw \/ Crash
  <2>1. /\ db' = db /\ work' = db /\ call' = NoCall /\ told' = told
        /\ open' = FALSE
    BY <1>3 DEF Throw, Crash, Rollback
  <2>2. QED
    BY <2>1 DEF IInv, TypeInv, AnsweredIsCommitted, TransactionInv
<1>4. ASSUME NEW p \in Prompts, NEW v \in VersionIds, NEW n \in Names,
             NEW s \in {"draft", "active"}, NEW c \in Contents,
             Create(p, v, n, s, c)
      PROVE  IInv'
  BY <1>4, CreateStep
<1>5. ASSUME NEW p \in Prompts, NEW v \in VersionIds, NEW c \in Contents,
             CreateVersion(p, v, c)
      PROVE  IInv'
  BY <1>5, NewVersionStep DEF CreateVersion
<1>6. ASSUME NEW p \in Prompts, NEW v \in VersionIds, NEW t \in VersionIds,
             RestoreVersion(p, t, v)
      PROVE  IInv'
  BY <1>6, RestoreStep
<1>7. ASSUME NEW p \in Prompts, NEW v \in VersionIds, NEW s \in Prompts,
             Duplicate(s, p, v)
      PROVE  IInv'
  BY <1>7, DuplicateStep
<1>8. ASSUME NEW p \in Prompts, NEW n \in Names, NEW s \in Statuses,
             Update(p, n, s)
      PROVE  IInv'
  BY <1>8, UpdateStep
<1>9. CASE UNCHANGED vars
  BY <1>9 DEF vars, IInv, TypeInv, AnsweredIsCommitted, TransactionInv
<1> QED
  BY <1>1, <1>2, <1>3, <1>4, <1>5, <1>6, <1>7, <1>8, <1>9 DEF Next

(* The invariant holds in every reachable state of the library's tables    *)
(* and of the transaction open on them (client.ts runInTransaction).       *)
THEOREM Inductive == Spec => []IInv
BY InitInvariant, StepInvariant, PTL DEF Spec

(* Tables, transaction and the request under way are what they should be   *)
(* (promptRepo.ts and versionRepo.ts rows).                                *)
THEOREM TypeCorrect == Spec => []TypeOK
<1>1. ASSUME NEW d \in Databases PROVE IsDatabase(d)
  <2>1. d = [prompts |-> d.prompts, versions |-> d.versions]
    BY DEF Databases
  <2>2. /\ d.prompts \in Tables(Prompts, PromptRows)
        /\ d.versions \in Tables(VersionIds, VersionRows)
    BY DEF Databases
  <2> QED
    BY <2>1, <2>2, TableFacts DEF IsDatabase, IsTable
<1>2. IInv => TypeOK
  BY <1>1 DEF IInv, TypeInv, TypeOK
<1> QED
  BY <1>2, Inductive, PTL

(* Whatever is committed, and whenever the process dies, every prompt has  *)
(* versions 1, 2, ... with the last as its head (promptService.ts).        *)
THEOREM HistoriesAreWhole == Spec => []WellFormed
<1>1. IInv => WellFormed
  BY DEF IInv, Whole, WholePrompt, WellFormed, LastNumber
<1> QED
  BY <1>1, Inductive, PTL

(* An answer never describes a write that a crash takes back (client.ts    *)
(* runInTransaction).                                                      *)
THEOREM AnswersAreDurable == Spec => []AnsweredIsCommitted
<1>1. IInv => AnsweredIsCommitted
  BY DEF IInv
<1> QED
  BY <1>1, Inductive, PTL

-----------------------------------------------------------------------------
(* Copies.                                                                 *)

\* A version is found by its number.
LEMMA FoundByNumber ==
  ASSUME NEW d \in Databases, Whole(d), NEW p \in Prompts,
         NEW v \in VersionsOf(d, p)
  PROVE  VersionAt(d, p, d.versions[v].number) = v
<1>1. \A w \in VersionsOf(d, p) :
        d.versions[v].number = d.versions[w].number => v = w
  BY PromptFacts
<1> QED
  BY <1>1 DEF VersionAt

\* Only a commit changes the tables while a request is under way.
LEMMA OnlyCommitWrites ==
  ASSUME Next, call # NoCall, db' # db
  PROVE  Commit
BY DEF Next, Execute, Throw, Crash, Create, CreateVersion, RestoreVersion,
       Duplicate, NewVersion, Transaction, Update

(* A restored version repeats a content of its own prompt and a duplicate  *)
(* starts from the newest content of its source (promptService.ts          *)
(* restoreVersion and duplicate).                                          *)
THEOREM CopiesRepeat == Spec => CopiesAreFaithful
<1> DEFINE A ==
      call # NoCall /\ db' # db =>
        LET made == db'.versions[call.version].content
            olds == VersionsOf(db, call.source)
            newest == VersionAt(db, call.source,
                                Max({0} \cup NumbersOf(db, call.source)))
        IN /\ call.op = "restore" => \E v \in olds : db.versions[v].content = made
           /\ call.op = "duplicate" => db.versions[newest].content = made
<1>1. IInv /\ [Next]_vars => [A]_vars
  <2> SUFFICES ASSUME IInv, Next, call # NoCall, db' # db
               PROVE  A
    BY DEF vars
  <2>1. /\ call \in Calls /\ CallOK(db, call)
        /\ db \in Databases /\ Whole(db) /\ db' = Made(db, call)
    BY OnlyCommitWrites, CommitFacts
  <2>2. db'.versions[call.version].content = call.content
    <3>1. db'.versions[call.version] =
            [prompt |-> call.prompt, content |-> call.content,
             number |-> LastNumber(db, call.prompt) + 1]
      BY <2>1, MadeFacts, Zenon
    <3> QED
      BY <3>1
  <2>3. ASSUME call.op = "duplicate"
        PROVE  db.versions[VersionAt(db, call.source,
                 Max({0} \cup NumbersOf(db, call.source)))].content
                 = call.content
    <3> DEFINE h == db.prompts[call.source].head
    <3>1. call.source \in DOMAIN db.prompts /\ call.content = db.versions[h].content
      BY <2>1, <2>3 DEF CallOK
    <3>2. call.source \in Prompts /\ h \in VersionsOf(db, call.source)
      BY <2>1, <3>1, CallFacts DEF Whole, WholePrompt
    <3>3. Max({0} \cup NumbersOf(db, call.source)) = db.versions[h].number
      BY <2>1, <3>1, <3>2, NumberFacts DEF LastNumber
    <3>4. VersionAt(db, call.source, db.versions[h].number) = h
      BY <2>1, <3>2, FoundByNumber
    <3> QED
      BY <3>1, <3>3, <3>4
  <2> QED
    BY <2>1, <2>2, <2>3 DEF CallOK
<1> QED
  BY <1>1, Inductive, PTL DEF Spec, CopiesAreFaithful

-----------------------------------------------------------------------------
(* The tables implement PromptHistory.                                     *)

Histories == [p \in Prompts |-> HistoryOf(db, p)]
MetaNow == [p \in Prompts |-> MetaOf(db, p)]

LEMMA HistoryFacts ==
  ASSUME NEW d \in Databases, Whole(d), NEW p \in Prompts
  PROVE  /\ HistoryOf(d, p) \in Seq(Contents)
         /\ Len(HistoryOf(d, p)) = LastNumber(d, p)
         /\ \A v \in VersionsOf(d, p) :
              HistoryOf(d, p)[d.versions[v].number] = d.versions[v].content
         /\ \A i \in 1..LastNumber(d, p) :
              \E v \in VersionsOf(d, p) : d.versions[v].number = i
<1>1. LastNumber(d, p) \in Nat /\ NumbersOf(d, p) = 1..LastNumber(d, p)
  BY NumberFacts
<1>2. \A i \in 1..LastNumber(d, p) :
        \E v \in VersionsOf(d, p) : d.versions[v].number = i
  BY <1>1 DEF NumbersOf
<1>3. \A v \in VersionsOf(d, p) : d.versions[v].content \in Contents
  BY DatabaseFacts DEF VersionsOf, VersionRows
<1>4. \A v \in VersionsOf(d, p) : VersionAt(d, p, d.versions[v].number) = v
  BY FoundByNumber
<1>5. HistoryOf(d, p) \in [1..LastNumber(d, p) -> Contents]
  BY <1>1, <1>2, <1>3, <1>4 DEF HistoryOf
<1>6. HistoryOf(d, p) \in Seq(Contents)
      /\ Len(HistoryOf(d, p)) = LastNumber(d, p)
  BY <1>1, <1>5, IsASeq, LenProperties
<1>7. \A v \in VersionsOf(d, p) :
        HistoryOf(d, p)[d.versions[v].number] = d.versions[v].content
  BY <1>4 DEF HistoryOf, NumbersOf
<1> QED
  BY <1>2, <1>6, <1>7

LEMMA SameHistory ==
  ASSUME NEW d \in Databases, Whole(d), NEW e \in Databases, Whole(e),
         NEW p \in Prompts, VersionsOf(e, p) = VersionsOf(d, p),
         \A v \in VersionsOf(d, p) : e.versions[v] = d.versions[v]
  PROVE  HistoryOf(e, p) = HistoryOf(d, p)
<1>1. NumbersOf(e, p) = NumbersOf(d, p)
  BY DEF NumbersOf
<1>2. LastNumber(e, p) = LastNumber(d, p) /\ LastNumber(d, p) \in Nat
  <2>1. /\ LastNumber(d, p) \in Nat /\ NumbersOf(d, p) = 1..LastNumber(d, p)
        /\ LastNumber(e, p) \in Nat /\ NumbersOf(e, p) = 1..LastNumber(e, p)
    BY NumberFacts
  <2> QED
    BY <1>1, <2>1, NumberFacts
<1>3. \A i \in 1..LastNumber(d, p) : HistoryOf(e, p)[i] = HistoryOf(d, p)[i]
  BY HistoryFacts
<1>4. /\ HistoryOf(d, p) \in Seq(Contents) /\ HistoryOf(e, p) \in Seq(Contents)
      /\ Len(HistoryOf(d, p)) = LastNumber(d, p)
      /\ Len(HistoryOf(e, p)) = LastNumber(d, p)
  BY <1>2, HistoryFacts
<1> QED
  BY <1>3, <1>4, SeqEqual

\* A commit adds its version at the end of its prompt's history.
LEMMA HistoryGrows ==
  ASSUME NEW d \in Databases, Whole(d), NEW c \in Calls, CallOK(d, c)
  PROVE  HistoryOf(Made(d, c), c.prompt)
           = Append(HistoryOf(d, c.prompt), c.content)
<1> DEFINE m == Made(d, c)
           p == c.prompt
           n == LastNumber(d, p)
           old == HistoryOf(d, p)
           new == HistoryOf(m, p)
<1>1. p \in Prompts /\ c.content \in Contents /\ c.version \notin DOMAIN d.versions
  BY CallFacts DEF CallOK
<1>2. m \in Databases /\ Whole(m)
  BY MadeFacts, MadeIsWhole
<1>3. /\ VersionsOf(m, p) = VersionsOf(d, p) \cup {c.version}
      /\ \A v \in VersionsOf(d, p) : m.versions[v] = d.versions[v]
      /\ m.versions[c.version].number = n + 1
      /\ m.versions[c.version].content = c.content
  <2>1. /\ DOMAIN m.versions = DOMAIN d.versions \cup {c.version}
        /\ \A v \in DOMAIN d.versions : m.versions[v] = d.versions[v]
        /\ m.versions[c.version] =
             [prompt |-> p, content |-> c.content, number |-> n + 1]
    BY MadeFacts, Zenon
  <2> HIDE DEF m, n, p
  <2>2. /\ m.versions[c.version].prompt = p
        /\ m.versions[c.version].number = n + 1
        /\ m.versions[c.version].content = c.content
    BY <2>1
  <2> QED
    BY <1>1, <2>1, <2>2 DEF VersionsOf, p
<1> HIDE DEF m
<1>4. n \in Nat /\ NumbersOf(d, p) = 1..n
  BY <1>1, NumberFacts
<1>5. NumbersOf(m, p) = 1..(n + 1)
  BY <1>3, <1>4 DEF NumbersOf
<1>6. LastNumber(m, p) = n + 1
  <2>1. LastNumber(m, p) \in Nat /\ NumbersOf(m, p) = 1..LastNumber(m, p)
    BY <1>1, <1>2, NumberFacts
  <2> QED
    BY <1>4, <1>5, <2>1
<1>7. /\ old \in Seq(Contents) /\ Len(old) = n
      /\ \A v \in VersionsOf(d, p) :
           old[d.versions[v].number] = d.versions[v].content
      /\ \A i \in 1..n : \E v \in VersionsOf(d, p) : d.versions[v].number = i
  BY <1>1, HistoryFacts
<1>8. /\ new \in Seq(Contents) /\ Len(new) = n + 1
      /\ \A v \in VersionsOf(m, p) :
           new[m.versions[v].number] = m.versions[v].content
  BY <1>1, <1>2, <1>6, HistoryFacts
<1> HIDE DEF n, old, new
<1>9. \A i \in 1..n : new[i] = old[i]
  BY <1>3, <1>7, <1>8
<1>10. new[n + 1] = c.content
  BY <1>3, <1>8
<1>11. /\ Append(old, c.content) \in Seq(Contents)
       /\ Len(Append(old, c.content)) = n + 1
       /\ \A i \in 1..n : Append(old, c.content)[i] = old[i]
       /\ Append(old, c.content)[n + 1] = c.content
  BY <1>1, <1>7, AppendProperties
<1>12. \A i \in 1..(n + 1) : new[i] = Append(old, c.content)[i]
  BY <1>4, <1>9, <1>10, <1>11
<1> QED
  BY <1>8, <1>11, <1>12, SeqEqual DEF old, new, m

PromiseStep == Promise!HistoryNext \/ UNCHANGED <<Histories, MetaNow>>

LEMMA PromiseInit == Init => Promise!HistoryInit
<1> SUFFICES ASSUME Init, NEW p \in Prompts
             PROVE  HistoryOf(db, p) = <<>> /\ MetaOf(db, p) = Promise!NoMeta
  BY DEF Promise!HistoryInit
<1>1. db = Empty
  BY DEF Init
<1>2. db \in Databases /\ Whole(db)
  BY InitInvariant DEF IInv, TypeInv
<1>3. p \notin DOMAIN db.prompts
  BY <1>1 DEF Empty
<1>4. Len(HistoryOf(db, p)) = 0 /\ HistoryOf(db, p) \in Seq(Contents)
  BY <1>2, <1>3, HistoryFacts DEF LastNumber
<1> QED
  BY <1>3, <1>4, EmptySeq DEF MetaOf, Promise!NoMeta

\* A committed request is a new prompt, or one more version of a live one.
LEMMA CommitRefines ==
  ASSUME IInv, Commit
  PROVE  Promise!HistoryNext
<1> DEFINE p == call.prompt
           c == call.content
<1>1. /\ call \in Calls /\ CallOK(db, call)
      /\ db \in Databases /\ Whole(db) /\ db' = Made(db, call)
  BY CommitFacts
<1>2. p \in Prompts /\ c \in Contents /\ call.version \notin DOMAIN db.versions
  BY <1>1, CallFacts DEF CallOK
<1>3. db' \in Databases /\ Whole(db')
  BY <1>1, MadeFacts, MadeIsWhole
<1>4. /\ DOMAIN db'.prompts = DOMAIN db.prompts \cup {p}
      /\ \A q \in DOMAIN db.prompts \ {p} : db'.prompts[q] = db.prompts[q]
      /\ db'.prompts[p] = [Base(db, call).prompts[p] EXCEPT !.head = call.version]
      /\ DOMAIN db'.versions = DOMAIN db.versions \cup {call.version}
      /\ \A v \in DOMAIN db.versions : db'.versions[v] = db.versions[v]
      /\ db'.versions[call.version] =
           [prompt |-> p, content |-> c, number |-> LastNumber(db, p) + 1]
  BY <1>1, MadeFacts, Zenon
<1>5. HistoryOf(db', p) = Append(HistoryOf(db, p), c)
  BY <1>1, HistoryGrows
<1>6. ASSUME NEW q \in Prompts, q # p
      PROVE  HistoryOf(db', q) = HistoryOf(db, q) /\ MetaOf(db', q) = MetaOf(db, q)
  <2>1. VersionsOf(db', q) = VersionsOf(db, q)
    BY <1>2, <1>4, <1>6 DEF VersionsOf
  <2>2. \A v \in VersionsOf(db, q) : db'.versions[v] = db.versions[v]
    BY <1>4 DEF VersionsOf
  <2>3. HistoryOf(db', q) = HistoryOf(db, q)
    BY <1>1, <1>3, <2>1, <2>2, SameHistory
  <2>4. MetaOf(db', q) = MetaOf(db, q)
    BY <1>4, <1>6 DEF MetaOf
  <2> QED
    BY <2>3, <2>4
<1>7. Base(db, call).prompts[p] \in PromptRows
  BY <1>1, BaseFacts, DatabaseFacts
<1>8. MetaOf(db', p) = [name |-> Base(db, call).prompts[p].name,
                        status |-> Base(db, call).prompts[p].status]
  BY <1>4, <1>7 DEF MetaOf, PromptRows
<1>9. CASE Makes(call)
  <2> DEFINE m == [name |-> call.name, status |-> call.status]
  <2>1. /\ p \notin DOMAIN db.prompts /\ call.status # "archived"
        /\ call.name \in Names /\ call.status \in Statuses
    BY <1>1, <1>9, CallFacts DEF CallOK
  <2>2. Base(db, call).prompts[p] =
          [name |-> call.name, status |-> call.status, head |-> NoVersion,
           archivedAt |-> FALSE]
    BY <1>1, <1>9, BaseFacts, Zenon
  <2>3. MetaOf(db', p) = m
    BY <1>8, <2>2
  <2>4. HistoryOf(db', p) = <<c>>
    <3>1. Len(HistoryOf(db, p)) = 0 /\ HistoryOf(db, p) \in Seq(Contents)
      BY <1>1, <1>2, <2>1, HistoryFacts DEF LastNumber
    <3>2. HistoryOf(db, p) = <<>>
      BY <3>1, EmptySeq
    <3> QED
      BY <1>5, <3>2
  <2>5. MetaOf(db, p) = Promise!NoMeta
    BY <2>1 DEF MetaOf, Promise!NoMeta
  <2>6. /\ Histories' = [Histories EXCEPT ![p] = <<c>>]
        /\ MetaNow' = [MetaNow EXCEPT ![p] = m]
    BY <1>6, <2>3, <2>4 DEF Histories, MetaNow
  <2>7. m \in Promise!Metas
    BY <2>1 DEF Promise!Metas, Promise!Statuses, Statuses
  <2>8. Promise!CreatePrompt(p, m, c)
    BY <1>2, <2>1, <2>5, <2>6
       DEF Promise!CreatePrompt, Promise!Exists, Histories, MetaNow
  <2> QED
    BY <1>2, <2>7, <2>8 DEF Promise!HistoryNext
<1>10. CASE ~Makes(call)
  <2>1. /\ p \in DOMAIN db.prompts /\ db.prompts[p].status # "archived"
        /\ Base(db, call) = db
    BY <1>1, <1>10 DEF CallOK, Base
  <2>2. MetaOf(db', p) = MetaOf(db, p)
    BY <1>8, <2>1 DEF MetaOf
  <2>3. /\ Histories' = [Histories EXCEPT ![p] = Append(HistoryOf(db, p), c)]
        /\ MetaNow' = MetaNow
    BY <1>5, <1>6, <2>2 DEF Histories, MetaNow
  <2>4. db.prompts[p].status \in Statuses
    BY <1>1, <2>1, DatabaseFacts DEF PromptRows
  <2>5. MetaOf(db, p) # Promise!NoMeta /\ MetaOf(db, p).status # "archived"
    BY <2>1, <2>4 DEF MetaOf, Promise!NoMeta, Statuses
  <2>6. Promise!AppendVersion(p, c)
    BY <1>2, <2>3, <2>5
       DEF Promise!AppendVersion, Promise!Exists, Histories, MetaNow
  <2> QED
    BY <1>2, <2>6 DEF Promise!HistoryNext
<1> QED
  BY <1>9, <1>10

LEMMA UpdateRefines ==
  ASSUME IInv, NEW p \in Prompts, NEW n \in Names, NEW s \in Statuses,
         Update(p, n, s)
  PROVE  Promise!HistoryNext
<1> DEFINE m == [name |-> n, status |-> s]
<1>1. /\ db \in Databases /\ Whole(db) /\ p \in DOMAIN db.prompts
      /\ db' = UpdatePrompt(db, p, n, s)
  BY DEF Update, IInv, TypeInv, TransactionInv
<1>2. /\ db' \in Databases /\ Whole(db')
      /\ db'.versions = db.versions /\ DOMAIN db'.prompts = DOMAIN db.prompts
      /\ \A q \in DOMAIN db.prompts \ {p} : db'.prompts[q] = db.prompts[q]
      /\ db'.prompts[p].name = n /\ db'.prompts[p].status = s
  BY <1>1, UpdateFacts
<1>3. ASSUME NEW q \in Prompts PROVE HistoryOf(db', q) = HistoryOf(db, q)
  <2>1. VersionsOf(db', q) = VersionsOf(db, q)
    BY <1>2 DEF VersionsOf
  <2> QED
    BY <1>1, <1>2, <2>1, SameHistory
<1>4. /\ MetaOf(db', p) = m
      /\ \A q \in Prompts : q # p => MetaOf(db', q) = MetaOf(db, q)
  BY <1>1, <1>2 DEF MetaOf
<1>5. /\ Histories' = Histories
      /\ MetaNow' = [MetaNow EXCEPT ![p] = m]
  BY <1>3, <1>4 DEF Histories, MetaNow
<1>6. db.prompts[p].status \in Statuses
  BY <1>1, DatabaseFacts DEF PromptRows
<1>7. MetaOf(db, p) # Promise!NoMeta
  BY <1>1, <1>6 DEF MetaOf, Promise!NoMeta, Statuses
<1>8. Promise!SaveMeta(p, m)
  BY <1>5, <1>7 DEF Promise!SaveMeta, Promise!Exists, Histories, MetaNow
<1>9. m \in Promise!Metas
  BY DEF Promise!Metas, Promise!Statuses, Statuses
<1> QED
  BY <1>8, <1>9 DEF Promise!HistoryNext

LEMMA StepRefines == IInv /\ [Next]_vars => PromiseStep
<1> SUFFICES ASSUME IInv, [Next]_vars PROVE PromiseStep
  OBVIOUS
<1>1. CASE Commit
  BY <1>1, CommitRefines DEF PromiseStep
<1>2. ASSUME NEW p \in Prompts, NEW n \in Names, NEW s \in Statuses,
             Update(p, n, s)
      PROVE  PromiseStep
  BY <1>2, UpdateRefines DEF PromiseStep
<1>3. CASE db' = db
  BY <1>3 DEF PromiseStep, Histories, MetaNow
<1> QED
  BY <1>1, <1>2, <1>3
     DEF Next, vars, Execute, Throw, Crash, Create, CreateVersion,
         RestoreVersion, Duplicate, NewVersion, Transaction

(* The tables, written a statement at a time and rolled back or lost at    *)
(* any of them, keep the promise of PromptHistory: a prompt appears whole  *)
(* and its history only grows, one version at a time (promptService.ts).   *)
THEOREM KeepsThePromise == Spec => KeepsPromise
<1>1. IInv /\ [Next]_vars => [Promise!HistoryNext]_(Promise!historyVars)
  BY StepRefines DEF PromiseStep, Promise!historyVars, Histories, MetaNow
<1> QED
  BY <1>1, Inductive, PromiseInit, PTL
     DEF Spec, KeepsPromise, Promise!HistorySpec

-----------------------------------------------------------------------------
(* Texts: induction and recursion.                                         *)

(* Induction, over sets of numbers. *)
LessThan == {ss \in Nat \X Nat : ss[1] < ss[2]}

\* Induction over numbers, a property being the set of those that have it.
LEMMA LessThanIsWellFounded == IsWellFoundedOn(LessThan, Nat)
BY NatLessThanWellFounded DEF OpToRel, LessThan

LEMMA LeastNumber ==
  ASSUME NEW T, T \subseteq Nat, T # {}
  PROVE  \E x \in T : \A y \in T : x <= y
<1>1. PICK x \in T : \A y \in T : <<y, x>> \notin LessThan
  BY LessThanIsWellFounded, WFMin
<1>2. ASSUME NEW y \in T PROVE x <= y
  <2>1. y < x => <<y, x>> \in LessThan BY DEF LessThan
  <2> QED BY <1>1, <2>1
<1> QED BY <1>2

LEMMA InductionOn ==
  ASSUME NEW S, 0 \in S, \A n \in Nat : n \in S => n + 1 \in S
  PROVE  Nat \subseteq S
<1> DEFINE T == Nat \ S
<1> SUFFICES ASSUME T # {} PROVE FALSE OBVIOUS
<1>1. PICK x \in T : \A y \in T : x <= y BY LeastNumber
<1>2. x # 0 /\ x - 1 \in Nat /\ x - 1 \notin T BY <1>1
<1> QED BY <1>1, <1>2

(* A function defined by recursion over a rank is there. *)
LooksDown(D, rank, V, G) ==
  /\ rank \in [D -> Nat] /\ V # {} /\ G \in [D -> [[D -> V] -> V]]
  /\ \A i \in D : \A f, h \in [D -> V] :
       (\A k \in D : rank[k] < rank[i] => f[k] = h[k]) => G[i][f] = G[i][h]

\* What is defined by recursion is there: of what G says about one place it may
\* use the values at places of lower rank.
LEMMA RecursionByRank ==
  ASSUME NEW D, NEW rank, NEW V, NEW G, LooksDown(D, rank, V, G)
  PROVE  \E f \in [D -> V] : \A i \in D : f[i] = G[i][f]
<1>0. PICK v0 \in V : TRUE BY DEF LooksDown
<1> USE DEF LooksDown
<1> DEFINE Upto(m, f) == \A i \in D : rank[i] < m => f[i] = G[i][f]
           S == {m \in Nat : \E f \in [D -> V] : Upto(m, f)
                   /\ \A g \in [D -> V] : Upto(m, g) =>
                        \A i \in D : rank[i] < m => f[i] = g[i]}
<1>1. 0 \in S
  <2>1. [i \in D |-> v0] \in [D -> V] OBVIOUS
  <2>2. \A i \in D : ~(rank[i] < 0) OBVIOUS
  <2> QED BY <2>1, <2>2
<1>2. ASSUME NEW m \in Nat, m \in S PROVE m + 1 \in S
  <2>1. PICK f \in [D -> V] : /\ Upto(m, f)
                              /\ \A g \in [D -> V] : Upto(m, g) =>
                                   \A i \in D : rank[i] < m => f[i] = g[i]
    BY <1>2
  <2> DEFINE h == [i \in D |-> IF rank[i] < m THEN f[i] ELSE G[i][f]]
  <2>2. h \in [D -> V] OBVIOUS
  <2>3. \A i \in D : rank[i] < m => h[i] = f[i] OBVIOUS
  <2>4. ASSUME NEW i \in D, rank[i] < m + 1 PROVE h[i] = G[i][h]
    <3>1. \A k \in D : rank[k] < rank[i] => f[k] = h[k] BY <2>4, <2>3
    <3>2. G[i][f] = G[i][h] BY <3>1, <2>2
    <3>3. h[i] = G[i][f] BY <2>1, <2>3
    <3> QED BY <3>2, <3>3
  <2>5. ASSUME NEW g \in [D -> V], Upto(m + 1, g), NEW i \in D, rank[i] < m + 1
        PROVE  h[i] = g[i]
    <3>1. Upto(m, g) BY <2>5
    <3>2. \A k \in D : rank[k] < m => f[k] = g[k] BY <3>1, <2>1
    <3>3. G[i][f] = G[i][g]
      <4>1. \A k \in D : rank[k] < rank[i] => f[k] = g[k] BY <3>2, <2>5
      <4> HIDE DEF h
      <4> QED BY <4>1, <2>5
    <3>4. h[i] = G[i][f] BY <2>1, <2>3
    <3>5. g[i] = G[i][g] BY <2>5
    <3> QED BY <3>3, <3>4, <3>5
  <2> HIDE DEF h
  <2> QED BY <2>2, <2>4, <2>5
<1>3. \A m \in Nat : m \in S BY <1>1, <1>2, InductionOn
<1> DEFINE Of(m) == CHOOSE f \in [D -> V] : Upto(m, f)
                      /\ \A g \in [D -> V] : Upto(m, g) =>
                           \A i \in D : rank[i] < m => f[i] = g[i]
           all == [i \in D |-> Of(rank[i] + 1)[i]]
<1>4. ASSUME NEW m \in Nat
      PROVE  /\ Of(m) \in [D -> V] /\ Upto(m, Of(m))
             /\ \A g \in [D -> V] : Upto(m, g) => \A i \in D : rank[i] < m => Of(m)[i] = g[i]
  BY <1>3
<1> HIDE DEF Of, S
<1>5. all \in [D -> V] BY <1>4
<1>6. ASSUME NEW i \in D PROVE all[i] = G[i][all]
  <2> DEFINE m == rank[i] + 1
  <2>1. m \in Nat /\ rank[i] < m OBVIOUS
  <2>2. ASSUME NEW k \in D, rank[k] < rank[i] PROVE Of(m)[k] = all[k]
    <3>1. rank[k] + 1 \in Nat /\ rank[k] + 1 <= m BY <2>2
    <3>2. Upto(m, Of(m)) /\ Of(m) \in [D -> V] BY <2>1, <1>4
    <3>3. \A j \in D : rank[j] < rank[k] + 1 => rank[j] < m BY <3>1, <2>1
    <3>4. Upto(rank[k] + 1, Of(m)) BY <3>2, <3>3
    <3>5. Of(rank[k] + 1)[k] = Of(m)[k]
      <4>1. rank[k] < rank[k] + 1 OBVIOUS
      <4> HIDE DEF m, all
      <4> QED BY <4>1, <3>1, <3>2, <3>4, <1>4
    <3> QED BY <3>5
  <2>3. all[i] = Of(m)[i] OBVIOUS
  <2>4. Of(m)[i] = G[i][Of(m)] BY <2>1, <1>4
  <2>5. G[i][Of(m)] = G[i][all]
    <3>1. Of(m) \in [D -> V] BY <1>4, <2>1
    <3> HIDE DEF all, m
    <3> QED BY <3>1, <2>2, <1>5
  <2> QED BY <2>3, <2>4, <2>5
<1> HIDE DEF all
<1> QED BY <1>5, <1>6

\* One element before a sequence.
LEMMA ConsProperties ==
  ASSUME NEW A, NEW x \in A, NEW r \in Seq(A)
  PROVE  /\ <<x>> \o r \in Seq(A) /\ Len(<<x>> \o r) = Len(r) + 1 /\ (<<x>> \o r)[1] = x
         /\ \A k \in 1..Len(r) : (<<x>> \o r)[k + 1] = r[k]
<1> DEFINE one == <<x>>
<1>1. one \in Seq(A) /\ Len(one) = 1 /\ one[1] = x OBVIOUS
<1>2. Len(r) \in Nat OBVIOUS
<1> HIDE DEF one
<1>3. /\ one \o r \in Seq(A) /\ Len(one \o r) = Len(one) + Len(r)
      /\ \A i \in 1..(Len(one) + Len(r)) :
           (one \o r)[i] = IF i <= Len(one) THEN one[i] ELSE r[i - Len(one)]
  BY <1>1, ConcatProperties
<1>4. (one \o r)[1] = x
  <2>1. 1 \in 1..(Len(one) + Len(r)) /\ 1 <= Len(one) BY <1>1, <1>2
  <2> QED BY <2>1, <1>1, <1>3
<1>5. ASSUME NEW k \in 1..Len(r) PROVE (one \o r)[k + 1] = r[k]
  <2>1. k + 1 \in 1..(Len(one) + Len(r)) /\ ~(k + 1 <= Len(one)) /\ k + 1 - Len(one) = k
    BY <1>1, <1>2
  <2> QED BY <2>1, <1>3
<1>6. Len(one \o r) = Len(r) + 1 BY <1>1, <1>2, <1>3
<1> QED BY <1>3, <1>4, <1>5, <1>6 DEF one

LEMMA ConsIs ==
  ASSUME NEW A, NEW x \in A, NEW r \in Seq(A), NEW s \in Seq(A), Len(s) = Len(r) + 1,
         s[1] = x, \A k \in 1..Len(r) : s[k + 1] = r[k]
  PROVE  s = <<x>> \o r
<1> DEFINE u == <<x>> \o r
<1>1. u \in Seq(A) /\ Len(u) = Len(r) + 1 /\ u[1] = x /\ \A k \in 1..Len(r) : u[k + 1] = r[k]
  BY ConsProperties
<1> HIDE DEF u
<1>3. \A i \in 1..Len(s) : s[i] = u[i]
  <2> SUFFICES ASSUME NEW i \in 1..Len(s) PROVE s[i] = u[i] OBVIOUS
  <2>1. CASE i = 1 BY <2>1, <1>1
  <2>2. CASE i # 1
    <3>1. i - 1 \in 1..Len(r) /\ (i - 1) + 1 = i BY <2>2
    <3> QED BY <3>1, <1>1
  <2> QED BY <2>1, <2>2
<1> QED BY <1>1, <1>3, SeqEqual DEF u

LEMMA PairIsConcat ==
  ASSUME NEW C, NEW a \in C, NEW b \in C
  PROVE  <<a>> \in Seq(C) /\ <<a, b>> = <<a>> \o <<b>>
<1> DEFINE s == <<a, b>>
           w == <<b>>
<1>1. w \in Seq(C) /\ Len(w) = 1 /\ w[1] = b OBVIOUS
<1>2. s \in Seq(C) /\ Len(s) = 2 /\ s[1] = a /\ s[1 + 1] = b OBVIOUS
<1>3. \A k \in 1..Len(w) : s[k + 1] = w[k] BY <1>1, <1>2
<1> HIDE DEF s, w
<1>4. Len(s) = Len(w) + 1 BY <1>1, <1>2
<1>5. s = <<a>> \o w BY <1>1, <1>2, <1>3, <1>4, ConsIs
<1>6. <<a>> \in Seq(C) OBVIOUS
<1> QED BY <1>5, <1>6 DEF s, w

LEMMA OneIsSeq == ASSUME NEW C, NEW c \in C PROVE <<c>> \in Seq(C)
OBVIOUS

LEMMA TwoAreSeq == ASSUME NEW C, NEW a \in C, NEW b \in C PROVE <<a, b>> \in Seq(C)
OBVIOUS

\* Induction over sequences, from the front and from the back.
LEMMA InductionFromFront ==
  ASSUME NEW C, NEW S, <<>> \in S, \A x \in C, r \in Seq(C) : r \in S => <<x>> \o r \in S
  PROVE  Seq(C) \subseteq S
<1> DEFINE T == {n \in Nat : \A s \in Seq(C) : Len(s) = n => s \in S}
<1>1. 0 \in T
  <2>1. \A s \in Seq(C) : Len(s) = 0 => s = <<>> OBVIOUS
  <2> QED BY <2>1
<1>2. ASSUME NEW n \in Nat, n \in T PROVE n + 1 \in T
  <2> SUFFICES ASSUME NEW s \in Seq(C), Len(s) = n + 1 PROVE s \in S OBVIOUS
  <2> DEFINE r == Tail(s)
  <2>1. s # <<>> /\ 1 \in 1..Len(s) OBVIOUS
  <2>2. r \in Seq(C) /\ Len(r) = n /\ \A i \in 1..Len(r) : r[i] = s[i + 1]
    BY <2>1, HeadTailProperties
  <2>3. s[1] \in C BY <2>1, ElementOfSeq
  <2> HIDE DEF r
  <2>4. s = <<s[1]>> \o r BY <2>2, <2>3, ConsIs
  <2>5. r \in S BY <1>2, <2>2
  <2> QED BY <2>2, <2>3, <2>4, <2>5
<1>3. \A n \in Nat : n \in T BY <1>1, <1>2, InductionOn
<1>4. \A s \in Seq(C) : Len(s) \in Nat OBVIOUS
<1> QED BY <1>3, <1>4

LEMMA InductionFromBack ==
  ASSUME NEW C, NEW S, <<>> \in S, \A x \in C, r \in Seq(C) : r \in S => Append(r, x) \in S
  PROVE  Seq(C) \subseteq S
<1> DEFINE T == {n \in Nat : \A s \in Seq(C) : Len(s) = n => s \in S}
<1>1. 0 \in T
  <2>1. \A s \in Seq(C) : Len(s) = 0 => s = <<>> OBVIOUS
  <2> QED BY <2>1
<1>2. ASSUME NEW n \in Nat, n \in T PROVE n + 1 \in T
  <2> SUFFICES ASSUME NEW s \in Seq(C), Len(s) = n + 1 PROVE s \in S OBVIOUS
  <2>1. s # <<>> OBVIOUS
  <2>2. PICK r \in Seq(C), x \in C : s = Append(r, x) BY <2>1, SequenceEmptyOrAppend
  <2>3. Len(r) = n BY <2>2
  <2>4. r \in S BY <1>2, <2>3
  <2> QED BY <2>2, <2>4
<1>3. \A n \in Nat : n \in T BY <1>1, <1>2, InductionOn
<1>4. \A s \in Seq(C) : Len(s) \in Nat OBVIOUS
<1> QED BY <1>3, <1>4

\* The recursion inside FlattenSeq.
IsFlat(f, s) == f = [i \in 1..Len(s) |-> IF i = 1 THEN s[i] ELSE f[i - 1] \o s[i]]

LEMMA FlatFunction ==
  ASSUME NEW A, NEW s \in Seq(Seq(A))
  PROVE  \E f \in [1..Len(s) -> Seq(A)] : IsFlat(f, s)
<1> DEFINE D == 1..Len(s)
           rank == [i \in D |-> i]
           V == Seq(A)
           G == [i \in D |-> [f \in [D -> V] |-> IF i = 1 THEN s[i] ELSE f[i - 1] \o s[i]]]
<1>0. /\ rank \in [D -> Nat] /\ <<>> \in V
      /\ \A i \in D : s[i] \in V /\ (i # 1 => i - 1 \in D)
  OBVIOUS
<1>1. ASSUME NEW i \in D, NEW f \in [D -> V]
      PROVE  (IF i = 1 THEN s[i] ELSE f[i - 1] \o s[i]) \in V
  <2>1. CASE i = 1 BY <2>1, <1>0
  <2>2. CASE i # 1
    <3>1. f[i - 1] \in V /\ s[i] \in V BY <2>2, <1>0
    <3>2. f[i - 1] \o s[i] \in V BY <3>1, ConcatProperties
    <3> QED BY <3>2, <2>2
  <2> QED BY <2>1, <2>2
<1>2. G \in [D -> [[D -> V] -> V]] BY <1>1
<1>3. \A i \in D : \A f \in [D -> V] : G[i][f] = IF i = 1 THEN s[i] ELSE f[i - 1] \o s[i]
  OBVIOUS
<1> HIDE DEF G, V
<1>4. ASSUME NEW i \in D, NEW f \in [D -> V], NEW h \in [D -> V],
             \A k \in D : rank[k] < rank[i] => f[k] = h[k]
      PROVE  G[i][f] = G[i][h]
  <2>1. CASE i = 1 BY <2>1, <1>3
  <2>2. CASE i # 1
    <3>1. i - 1 \in D /\ rank[i - 1] < rank[i] BY <2>2
    <3>2. f[i - 1] = h[i - 1] BY <3>1, <1>4
    <3>3. G[i][f] = f[i - 1] \o s[i] /\ G[i][h] = h[i - 1] \o s[i]
      <4> HIDE DEF D, rank
      <4> QED BY <1>3, <2>2
    <3> QED BY <3>2, <3>3
  <2> QED BY <2>1, <2>2
<1> HIDE DEF rank, D
<1>5. PICK f \in [D -> V] : \A i \in D : f[i] = G[i][f]
  <2>1. LooksDown(D, rank, V, G) BY <1>0, <1>2, <1>4 DEF LooksDown
  <2> QED BY <2>1, RecursionByRank
<1>6. \A i \in D : f[i] = IF i = 1 THEN s[i] ELSE f[i - 1] \o s[i] BY <1>3, <1>5
<1>7. f = [i \in D |-> f[i]] OBVIOUS
<1>8. f = [i \in D |-> IF i = 1 THEN s[i] ELSE f[i - 1] \o s[i]] BY <1>6, <1>7
<1> QED BY <1>8 DEF IsFlat, D, V

LEMMA FlatAt ==
  ASSUME NEW s, NEW f, IsFlat(f, s), NEW i \in 1..Len(s)
  PROVE  f[i] = IF i = 1 THEN s[i] ELSE f[i - 1] \o s[i]
<1> DEFINE D == 1..Len(s)
<1>1. i \in D OBVIOUS
<1>2. f = [k \in D |-> IF k = 1 THEN s[k] ELSE f[k - 1] \o s[k]] BY DEF IsFlat
<1> HIDE DEF D
<1> QED BY <1>1, <1>2

LEMMA FlattenEmpty == FlattenSeq(<<>>) = <<>>
BY DEF FlattenSeq

LEMMA FlattenIs ==
  ASSUME NEW A, NEW s \in Seq(Seq(A)), s # <<>>
  PROVE  \E f : IsFlat(f, s) /\ FlattenSeq(s) = f[Len(s)]
<1>1. Len(s) # 0 OBVIOUS
<1>2. \E f : IsFlat(f, s) BY FlatFunction
<1> DEFINE flat == CHOOSE f : IsFlat(f, s)
<1>3. IsFlat(flat, s) BY <1>2
<1>4. FlattenSeq(s) = flat[Len(s)] BY <1>1 DEF FlattenSeq, IsFlat
<1> QED BY <1>3, <1>4

LEMMA FlatSame ==
  ASSUME NEW A, NEW s \in Seq(Seq(A)), NEW r \in Seq(Seq(A)), NEW n \in Nat,
         n <= Len(s), n <= Len(r), \A i \in 1..n : s[i] = r[i],
         NEW f, IsFlat(f, s), NEW g, IsFlat(g, r)
  PROVE  \A i \in 1..n : f[i] = g[i] /\ f[i] \in Seq(A)
<1> DEFINE S == {m \in Nat : m \in 1..n => f[m] = g[m] /\ f[m] \in Seq(A)}
<1>1. 0 \in S OBVIOUS
<1>2. ASSUME NEW m \in Nat, m \in S PROVE m + 1 \in S
  <2> SUFFICES ASSUME m + 1 <= n PROVE f[m + 1] = g[m + 1] /\ f[m + 1] \in Seq(A) OBVIOUS
  <2>1. m + 1 \in 1..Len(s) /\ m + 1 \in 1..Len(r) /\ s[m + 1] = r[m + 1] /\ s[m + 1] \in Seq(A)
    OBVIOUS
  <2>2. f[m + 1] = IF m + 1 = 1 THEN s[m + 1] ELSE f[m + 1 - 1] \o s[m + 1] BY <2>1, FlatAt
  <2>3. g[m + 1] = IF m + 1 = 1 THEN r[m + 1] ELSE g[m + 1 - 1] \o r[m + 1] BY <2>1, FlatAt
  <2>4. CASE m = 0 BY <2>1, <2>2, <2>3, <2>4
  <2>5. CASE m # 0
    <3>1. f[m] = g[m] /\ f[m] \in Seq(A) BY <1>2, <2>5
    <3>0. m + 1 # 1 /\ m + 1 - 1 = m BY <2>5
    <3>2. f[m + 1] = f[m] \o s[m + 1] /\ g[m + 1] = g[m] \o r[m + 1] BY <2>2, <2>3, <3>0
    <3> QED BY <3>1, <3>2, <2>1, ConcatProperties
  <2> QED BY <2>4, <2>5
<1>3. \A m \in Nat : m \in S BY <1>1, <1>2, InductionOn
<1> QED BY <1>3

LEMMA FlattenType ==
  ASSUME NEW A, NEW s \in Seq(Seq(A))
  PROVE  FlattenSeq(s) \in Seq(A)
<1>1. CASE s = <<>>
  <2>1. FlattenSeq(s) = <<>> BY <1>1, FlattenEmpty, Zenon
  <2> QED BY <2>1
<1>2. CASE s # <<>>
  <2>1. PICK f : IsFlat(f, s) /\ FlattenSeq(s) = f[Len(s)] BY <1>2, FlattenIs
  <2>2. Len(s) \in Nat /\ Len(s) \in 1..Len(s) BY <1>2
  <2>3. \A i \in 1..Len(s) : f[i] = f[i] /\ f[i] \in Seq(A)
    <3>1. Len(s) <= Len(s) /\ \A i \in 1..Len(s) : s[i] = s[i] BY <2>2
    <3>2. IsFlat(f, s) /\ Len(s) \in Nat BY <2>1
    <3> QED BY <3>1, <3>2, FlatSame
  <2> QED BY <2>1, <2>2, <2>3
<1> QED BY <1>1, <1>2

LEMMA FlattenOne ==
  ASSUME NEW A, NEW x \in Seq(A)
  PROVE  FlattenSeq(<<x>>) = x
<1>1. <<x>> \in Seq(Seq(A)) /\ <<x>> # <<>> /\ Len(<<x>>) = 1 /\ <<x>>[1] = x OBVIOUS
<1>2. PICK f : IsFlat(f, <<x>>) /\ FlattenSeq(<<x>>) = f[1] BY <1>1, FlattenIs
<1> QED BY <1>1, <1>2 DEF IsFlat

\* What FlattenSeq makes of longer sequences.
LEMMA FlattenAppend ==
  ASSUME NEW A, NEW s \in Seq(Seq(A)), NEW x \in Seq(A)
  PROVE  FlattenSeq(Append(s, x)) = FlattenSeq(s) \o x
<1> DEFINE r == Append(s, x)
           n == Len(s)
<1>1. /\ r \in Seq(Seq(A)) /\ r # <<>> /\ Len(r) = n + 1 /\ r[n + 1] = x /\ n \in Nat
      /\ \A i \in 1..n : r[i] = s[i]
  BY AppendProperties
<1>2. CASE s = <<>>
  <2>1. r = <<x>> BY <1>2
  <2> QED BY <2>1, <1>2, FlattenOne, FlattenEmpty
<1>3. CASE s # <<>>
  <2> HIDE DEF r
  <2>1. PICK g : IsFlat(g, r) /\ FlattenSeq(r) = g[n + 1] BY <1>1, FlattenIs
  <2>2. PICK f : IsFlat(f, s) /\ FlattenSeq(s) = f[n] BY <1>3, FlattenIs
  <2>3. n # 0 BY <1>3
  <2>4. g[n + 1] = g[n] \o x
    <3>1. n + 1 \in 1..Len(r) /\ n + 1 # 1 /\ n + 1 - 1 = n BY <2>3, <1>1
    <3>2. g[n + 1] = IF n + 1 = 1 THEN r[n + 1] ELSE g[n + 1 - 1] \o r[n + 1]
      <4>1. IsFlat(g, r) /\ n + 1 \in 1..Len(r) BY <2>1, <3>1
      <4>2. \A i \in 1..Len(r) : g[i] = IF i = 1 THEN r[i] ELSE g[i - 1] \o r[i]
        BY <4>1, FlatAt
      <4> QED BY <4>1, <4>2
    <3> QED BY <3>1, <3>2, <1>1
  <2>5. f[n] = g[n]
    <3>1. n <= Len(s) /\ n <= Len(r) /\ n \in 1..n BY <1>1, <2>3
    <3>2. \A i \in 1..n : s[i] = r[i] BY <1>1
    <3>3. IsFlat(f, s) /\ IsFlat(g, r) /\ n \in Nat BY <2>1, <2>2, <1>1
    <3> HIDE DEF n
    <3>4. \A i \in 1..n : f[i] = g[i] /\ f[i] \in Seq(A)
      BY <1>1, <3>1, <3>2, <3>3, FlatSame
    <3> QED BY <3>1, <3>4
  <2> QED BY <2>1, <2>2, <2>4, <2>5 DEF r
<1> QED BY <1>2, <1>3

LEMMA FlattenConcat ==
  ASSUME NEW A, NEW s \in Seq(Seq(A)), NEW r \in Seq(Seq(A))
  PROVE  FlattenSeq(s \o r) = FlattenSeq(s) \o FlattenSeq(r)
<1> DEFINE S == {n \in Nat : \A u \in Seq(Seq(A)) :
                   Len(u) = n => FlattenSeq(s \o u) = FlattenSeq(s) \o FlattenSeq(u)}
<1>0. FlattenSeq(s) \in Seq(A) BY FlattenType
<1>1. 0 \in S
  <2>1. \A u \in Seq(Seq(A)) : Len(u) = 0 => u = <<>> /\ s \o u = s OBVIOUS
  <2>2. FlattenSeq(s) \o <<>> = FlattenSeq(s) BY <1>0
  <2> QED BY <2>1, <2>2, FlattenEmpty
<1>2. ASSUME NEW n \in Nat, n \in S PROVE n + 1 \in S
  <2> SUFFICES ASSUME NEW u \in Seq(Seq(A)), Len(u) = n + 1
               PROVE  FlattenSeq(s \o u) = FlattenSeq(s) \o FlattenSeq(u)
    OBVIOUS
  <2> DEFINE w == SubSeq(u, 1, n)
             x == u[n + 1]
  <2>1. w \in Seq(Seq(A)) /\ x \in Seq(A) /\ Len(w) = n /\ u = Append(w, x) OBVIOUS
  <2> HIDE DEF w, x
  <2>2. s \o u = Append(s \o w, x) /\ s \o w \in Seq(Seq(A))
    <3>1. s \o w \in Seq(Seq(A)) BY <2>1, ConcatProperties
    <3>2. u = w \o <<x>> /\ <<x>> \in Seq(Seq(A)) BY <2>1, AppendIsConcat
    <3>3. s \o u = (s \o w) \o <<x>> BY <2>1, <3>2, ConcatAssociative
    <3> QED BY <3>1, <3>3, <2>1, AppendIsConcat
  <2>3. FlattenSeq(s \o u) = FlattenSeq(s \o w) \o x BY <2>1, <2>2, FlattenAppend
  <2>4. FlattenSeq(u) = FlattenSeq(w) \o x BY <2>1, FlattenAppend
  <2>5. FlattenSeq(s \o w) = FlattenSeq(s) \o FlattenSeq(w) BY <2>1, <1>2
  <2>6. FlattenSeq(w) \in Seq(A) BY <2>1, FlattenType
  <2> QED BY <2>1, <2>3, <2>4, <2>5, <2>6, <1>0, ConcatAssociative
<1>3. \A n \in Nat : n \in S BY <1>1, <1>2, InductionOn
<1>4. Len(r) \in Nat OBVIOUS
<1> QED BY <1>3, <1>4

LEMMA FlattenCons ==
  ASSUME NEW A, NEW x \in Seq(A), NEW r \in Seq(Seq(A))
  PROVE  FlattenSeq(<<x>> \o r) = x \o FlattenSeq(r)
<1>1. <<x>> \in Seq(Seq(A)) OBVIOUS
<1>2. FlattenSeq(<<x>> \o r) = FlattenSeq(<<x>>) \o FlattenSeq(r) BY <1>1, FlattenConcat
<1> QED BY <1>2, FlattenOne

\* A sequence with F applied to its elements.
Mapped(F, s) == [k \in DOMAIN s |-> F[s[k]]]
Maps(F, C, B) == F \in [C -> B]

LEMMA MappedEmpty == ASSUME NEW F PROVE Mapped(F, <<>>) = <<>>
BY DEF Mapped

LEMMA MappedType ==
  ASSUME NEW C, NEW B, NEW F, Maps(F, C, B), NEW s \in Seq(C)
  PROVE  Mapped(F, s) \in Seq(B) /\ Len(Mapped(F, s)) = Len(s)
<1>1. DOMAIN s = 1..Len(s) /\ Len(s) \in Nat /\ \A k \in 1..Len(s) : s[k] \in C
  BY LenProperties, ElementOfSeq
<1>2. Mapped(F, s) \in [1..Len(s) -> B] BY <1>1 DEF Mapped, Maps
<1> QED BY <1>1, <1>2

MapsFirst(F, x, r) == Mapped(F, <<x>> \o r) = <<F[x]>> \o Mapped(F, r)

LEMMA MappedCons ==
  ASSUME NEW C, NEW B, NEW F, Maps(F, C, B), NEW x \in C, NEW r \in Seq(C)
  PROVE  MapsFirst(F, x, r)
<1> DEFINE s == <<x>> \o r
<1>1. /\ s \in Seq(C) /\ Len(s) = Len(r) + 1 /\ s[1] = x /\ Len(r) \in Nat
      /\ \A k \in 1..Len(r) : s[k + 1] = r[k]
  BY ConsProperties
<1> HIDE DEF s
<1>2. DOMAIN s = 1..(Len(r) + 1) /\ DOMAIN r = 1..Len(r) BY <1>1, LenProperties
<1>3. /\ Mapped(F, s) \in Seq(B) /\ Len(Mapped(F, s)) = Len(r) + 1
      /\ Mapped(F, r) \in Seq(B) /\ Len(Mapped(F, r)) = Len(r)
  BY <1>1, MappedType
<1>4. Mapped(F, s)[1] = F[x]
  <2>1. 1 \in DOMAIN s BY <1>1, <1>2
  <2> QED BY <2>1, <1>1 DEF Mapped
<1>5. \A k \in 1..Len(r) : Mapped(F, s)[k + 1] = Mapped(F, r)[k]
  <2>1. \A k \in 1..Len(r) : k + 1 \in DOMAIN s /\ k \in DOMAIN r BY <1>1, <1>2
  <2> QED BY <2>1, <1>1 DEF Mapped
<1>6. F[x] \in B BY DEF Maps
<1>7. Mapped(F, s) = <<F[x]>> \o Mapped(F, r) BY <1>3, <1>4, <1>5, <1>6, ConsIs, SMTT(30)
<1> QED BY <1>7 DEF s, MapsFirst

\* A text is the texts of its characters.
LEMMA FlattenSingles ==
  ASSUME NEW C, NEW s \in Seq(C)
  PROVE  FlattenSeq([k \in DOMAIN s |-> <<s[k]>>]) = s
<1> DEFINE F == [c \in C |-> <<c>>]
           S == {r \in Seq(C) : FlattenSeq(Mapped(F, r)) = r}
<1>1. Maps(F, C, Seq(C)) BY DEF Maps
<1>2. <<>> \in S
  <2>1. FlattenSeq(Mapped(F, <<>>)) = <<>> BY MappedEmpty, FlattenEmpty
  <2> QED BY <2>1
<1>3. ASSUME NEW x \in C, NEW r \in Seq(C), r \in S PROVE <<x>> \o r \in S
  <2>1. F[x] = <<x>> /\ F[x] \in Seq(C) OBVIOUS
  <2> HIDE DEF F
  <2>2. Mapped(F, <<x>> \o r) = <<F[x]>> \o Mapped(F, r)
    <3>1. MapsFirst(F, x, r) BY <1>1, MappedCons
    <3> QED BY <3>1 DEF MapsFirst
  <2>3. Mapped(F, r) \in Seq(Seq(C)) BY <1>1, MappedType
  <2>4. FlattenSeq(<<F[x]>> \o Mapped(F, r)) = F[x] \o FlattenSeq(Mapped(F, r))
    BY <2>1, <2>3, FlattenCons
  <2>5. <<x>> \o r \in Seq(C) BY ConsProperties
  <2> QED BY <1>3, <2>1, <2>2, <2>4, <2>5
<1>4. Seq(C) \subseteq S
  <2> HIDE DEF S
  <2> QED BY <1>2, <1>3, InductionFromFront
<1>5. FlattenSeq(Mapped(F, s)) = s BY <1>4
<1>6. Mapped(F, s) = [k \in DOMAIN s |-> <<s[k]>>]
  <2>1. \A k \in DOMAIN s : s[k] \in C OBVIOUS
  <2> QED BY <2>1 DEF Mapped
<1> QED BY <1>5, <1>6

-----------------------------------------------------------------------------
(* Templates: rendering goes over the pieces that Walk finds               *)
(* (template.ts).                                                          *)

\* The pieces of a text; WalkFrom is the body of the recursion in Walk.
NameAt(t, i, j) == [name |-> trim(SubSeq(t, i + 2, j - 1))]

Pieces(t) == {NameAt(t, i, j) : i \in DOMAIN t, j \in DOMAIN t}
             \cup {[text |-> t[i]] : i \in DOMAIN t}

EndOf(t, i) == CHOOSE j \in DOMAIN t : MatchesAt(t, i, j)
Opens(t, i) == \E j \in DOMAIN t : MatchesAt(t, i, j)

WalkFrom(t, w, i) ==
  IF i > Len(t) THEN <<>>
  ELSE IF Opens(t, i) THEN <<NameAt(t, i, EndOf(t, i))>> \o w[EndOf(t, i) + 2]
                      ELSE <<[text |-> t[i]]>> \o w[i + 1]

\* A match lies in the text and has one end.
LEMMA MatchPlace ==
  ASSUME NEW C, NEW t \in Seq(C), NEW i, NEW j, MatchesAt(t, i, j)
  PROVE  /\ i \in DOMAIN t /\ j \in DOMAIN t /\ i + 2 <= j /\ j + 2 \in 1..(Len(t) + 1)
         /\ \A k : MatchesAt(t, i, k) => k = j
<1>1. i \in 1..(Len(t) - 1) /\ j \in 1..(Len(t) - 1) /\ i + 2 <= j BY DEF MatchesAt, Pair
<1>2. ASSUME NEW k, MatchesAt(t, i, k) PROVE k = j
  <2>1. k \in 1..(Len(t) - 1) /\ i + 2 <= k BY <1>2 DEF MatchesAt, Pair
  <2>2. ~(k < j)
    <3>1. t[k] = "}" BY <1>2 DEF MatchesAt, Pair
    <3>2. k < j => k \in (i + 2)..(j - 1) BY <2>1, <1>1
    <3> QED BY <3>1, <3>2 DEF MatchesAt
  <2>3. ~(j < k)
    <3>1. t[j] = "}" BY DEF MatchesAt, Pair
    <3>2. j < k => j \in (i + 2)..(k - 1) BY <2>1, <1>1
    <3> QED BY <3>1, <3>2, <1>2 DEF MatchesAt
  <2> QED BY <1>1, <2>1, <2>2, <2>3
<1> QED BY <1>1, <1>2

LEMMA EndPlace ==
  ASSUME NEW C, NEW t \in Seq(C), NEW i, Opens(t, i)
  PROVE  MatchesAt(t, i, EndOf(t, i)) /\ EndOf(t, i) \in DOMAIN t
BY DEF Opens, EndOf

LEMMA PieceType ==
  ASSUME NEW C, NEW t \in Seq(C), NEW i \in DOMAIN t
  PROVE  /\ [text |-> t[i]] \in Pieces(t)
         /\ \A j \in DOMAIN t : NameAt(t, i, j) \in Pieces(t)
BY DEF Pieces

LEMMA WalkFromType ==
  ASSUME NEW C, NEW t \in Seq(C), NEW w, NEW i \in 1..(Len(t) + 1),
         \A k \in 1..(Len(t) + 1) : k > i => w[k] \in Seq(Pieces(t))
  PROVE  WalkFrom(t, w, i) \in Seq(Pieces(t))
<1>0. Len(t) \in Nat OBVIOUS
<1>1. CASE i > Len(t) BY <1>1 DEF WalkFrom
<1>2. CASE i <= Len(t) /\ Opens(t, i)
  <2> DEFINE j == EndOf(t, i)
  <2>1. MatchesAt(t, i, j) BY <1>2, EndPlace
  <2>2. i \in DOMAIN t /\ j \in DOMAIN t /\ i + 2 <= j /\ j + 2 \in 1..(Len(t) + 1)
    BY <2>1, MatchPlace
  <2> HIDE DEF j
  <2>3. w[j + 2] \in Seq(Pieces(t)) BY <2>2
  <2>4. <<NameAt(t, i, j)>> \in Seq(Pieces(t))
    <3>1. NameAt(t, i, j) \in Pieces(t) BY <2>2, PieceType
    <3> QED BY <3>1
  <2>5. <<NameAt(t, i, j)>> \o w[j + 2] \in Seq(Pieces(t)) BY <2>3, <2>4, ConcatProperties
  <2> QED BY <2>5, <1>0, <1>2 DEF WalkFrom, j
<1>3. CASE i <= Len(t) /\ ~Opens(t, i)
  <2>1. i \in DOMAIN t /\ i + 1 \in 1..(Len(t) + 1) BY <1>0, <1>3
  <2>2. <<[text |-> t[i]]>> \in Seq(Pieces(t)) /\ w[i + 1] \in Seq(Pieces(t))
    BY <2>1, PieceType
  <2>3. <<[text |-> t[i]]>> \o w[i + 1] \in Seq(Pieces(t)) BY <2>2, ConcatProperties
  <2> QED BY <2>3, <1>0, <1>3 DEF WalkFrom
<1> QED BY <1>0, <1>1, <1>2, <1>3

LEMMA WalkFromSame ==
  ASSUME NEW C, NEW t \in Seq(C), NEW w, NEW u, NEW i \in 1..(Len(t) + 1),
         \A k \in 1..(Len(t) + 1) : k > i => w[k] = u[k]
  PROVE  WalkFrom(t, w, i) = WalkFrom(t, u, i)
<1>0. Len(t) \in Nat OBVIOUS
<1>1. CASE i > Len(t) BY <1>1 DEF WalkFrom
<1>2. CASE i <= Len(t) /\ Opens(t, i)
  <2> DEFINE j == EndOf(t, i)
  <2>1. MatchesAt(t, i, j) BY <1>2, EndPlace
  <2>2. i + 2 <= j /\ j + 2 \in 1..(Len(t) + 1) /\ j \in DOMAIN t BY <2>1, MatchPlace
  <2> HIDE DEF j
  <2>3. w[j + 2] = u[j + 2] BY <2>2
  <2> QED BY <2>3, <1>0, <1>2 DEF WalkFrom, j
<1>3. CASE i <= Len(t) /\ ~Opens(t, i)
  <2>1. w[i + 1] = u[i + 1] BY <1>0, <1>3
  <2> QED BY <2>1, <1>0, <1>3 DEF WalkFrom
<1> QED BY <1>0, <1>1, <1>2, <1>3

\* Walk is what its recursion says.
LEMMA WalkFacts ==
  ASSUME NEW C, NEW t \in Seq(C)
  PROVE  /\ Walk(t) \in [1..(Len(t) + 1) -> Seq(Pieces(t))]
         /\ \A i \in 1..(Len(t) + 1) : Walk(t)[i] = WalkFrom(t, Walk(t), i)
<1> DEFINE n == Len(t) + 1
           D == 1..n
           V == Seq(Pieces(t))
           rank == [i \in D |-> n - i]
           G == [i \in D |-> [f \in [D -> V] |-> WalkFrom(t, f, i)]]
           IsWalk(w) == w = [i \in D |-> WalkFrom(t, w, i)]
<1>0. n \in Nat /\ rank \in [D -> Nat] /\ V # {}
      /\ \A i, k \in D : rank[k] < rank[i] <=> k > i
  <2>1. <<>> \in V OBVIOUS
  <2> HIDE DEF V
  <2> QED BY <2>1
<1>1. G \in [D -> [[D -> V] -> V]]
  <2>1. \A i \in D, f \in [D -> V] : WalkFrom(t, f, i) \in V
    BY WalkFromType
  <2> HIDE DEF V, D
  <2> QED BY <2>1
<1>2. ASSUME NEW i \in D, NEW f \in [D -> V], NEW h \in [D -> V],
             \A k \in D : rank[k] < rank[i] => f[k] = h[k]
      PROVE  G[i][f] = G[i][h]
  <2>1. \A k \in D : k > i => f[k] = h[k] BY <1>0, <1>2
  <2>2. WalkFrom(t, f, i) = WalkFrom(t, h, i) BY <2>1, WalkFromSame
  <2> HIDE DEF D, V
  <2> QED BY <2>2
<1>3. LooksDown(D, rank, V, G)
  <2> HIDE DEF D, V, G, rank
  <2> QED BY <1>0, <1>1, <1>2 DEF LooksDown
<1>4. PICK f \in [D -> V] : \A i \in D : f[i] = G[i][f]
  <2> HIDE DEF D, V, G, rank
  <2> QED BY <1>3, RecursionByRank
<1>5. IsWalk(f)
  <2> HIDE DEF D, V
  <2>1. \A i \in D : f[i] = WalkFrom(t, f, i) BY <1>4
  <2>2. f = [i \in D |-> f[i]] OBVIOUS
  <2> QED BY <2>1, <2>2
<1>6. Walk(t) = CHOOSE w : IsWalk(w)
  BY DEF Walk, WalkFrom, Opens, EndOf, NameAt
<1>7. IsWalk(Walk(t))
  <2> HIDE DEF IsWalk
  <2> QED BY <1>5, <1>6
<1> DEFINE w == Walk(t)
<1>8. w = [i \in D |-> WalkFrom(t, w, i)] BY <1>7
<1> HIDE DEF w
<1>9. \A i \in D : w[i] = WalkFrom(t, w, i)
  <2> HIDE DEF D
  <2> QED BY <1>8
<1>10. \A i \in D : w[i] \in V
  <2> DEFINE S == {m \in Nat : \A i \in D : n - i < m => w[i] \in V}
  <2>1. 0 \in S BY <1>0
  <2>2. ASSUME NEW m \in Nat, m \in S PROVE m + 1 \in S
    <3> SUFFICES ASSUME NEW i \in D, n - i < m + 1 PROVE w[i] \in V OBVIOUS
    <3>1. \A k \in 1..(Len(t) + 1) : k > i => w[k] \in Seq(Pieces(t)) BY <2>2, <1>0
    <3>2. WalkFrom(t, w, i) \in Seq(Pieces(t)) BY <3>1, WalkFromType
    <3> QED BY <3>2, <1>9
  <2>3. \A m \in Nat : m \in S BY <2>1, <2>2, InductionOn
  <2>4. n \in S /\ \A i \in D : n - i < n BY <2>3, <1>0
  <2> QED BY <2>4
<1>11. w \in [D -> V]
  <2> HIDE DEF D, V
  <2> QED BY <1>8, <1>10
<1> QED BY <1>9, <1>11 DEF w

\* Values for the variables of t, and a name that rendering finds filled in.
Fillings(t, C) == [VariablesOf(t) -> {Unset} \cup {Given(x) : x \in Seq(C)}]

Filled(n, v) == ValidName(n) /\ ~Crashes(v, n) /\ HasValue(v, n)

LEMMA ScanType ==
  ASSUME NEW C, NEW t \in Seq(C)
  PROVE  Scan(t) \in Seq(Pieces(t))
<1>1. 1 \in 1..(Len(t) + 1) OBVIOUS
<1> QED BY <1>1, WalkFacts DEF Scan

LEMMA NamesOfPieces ==
  ASSUME NEW C, NEW t \in Seq(C)
  PROVE  NamesIn(t) = {Scan(t)[k].name : k \in {k \in DOMAIN Scan(t) : IsName(Scan(t)[k])}}
BY DEF NamesIn, ToSet

\* Rendering a name gives a value or an error, as Filled says.
LEMMA NameRendered ==
  ASSUME NEW n, NEW v, ValidName(n) => v[n].set \in BOOLEAN
  PROVE  /\ Filled(n, v) => RenderName(n, v) = [text |-> v[n].value]
         /\ ~Filled(n, v) => \E e : RenderName(n, v) = [error |-> e]
<1>1. CASE ~ValidName(n) BY <1>1 DEF RenderName, Filled
<1>2. CASE ValidName(n) /\ Crashes(v, n) BY <1>2 DEF RenderName, Filled, Crashes
<1>3. CASE ValidName(n) /\ ~Crashes(v, n) /\ HasValue(v, n)
  BY <1>3 DEF RenderName, Filled, HasValue
<1>4. CASE ValidName(n) /\ ~Crashes(v, n) /\ ~HasValue(v, n)
  BY <1>4 DEF RenderName, Filled, HasValue
<1> QED BY <1>1, <1>2, <1>3, <1>4

LEMMA PieceRendered ==
  ASSUME NEW C, NEW t \in Seq(C), NEW v \in Fillings(t, C), NEW k \in DOMAIN Scan(t)
  PROVE  LET p == Scan(t)[k] r == RenderPiece(p, v) IN
         /\ ~IsName(p) => r = [text |-> <<p.text>>]
         /\ IsName(p) /\ Filled(p.name, v) => r = [text |-> v[p.name].value]
         /\ IsName(p) /\ ~Filled(p.name, v) => \E e : r = [error |-> e]
<1> DEFINE p == Scan(t)[k]
<1>1. ~IsName(p) => RenderPiece(p, v) = [text |-> <<p.text>>] BY DEF RenderPiece
<1>2. ASSUME IsName(p)
      PROVE  /\ Filled(p.name, v) => RenderPiece(p, v) = [text |-> v[p.name].value]
             /\ ~Filled(p.name, v) => \E e : RenderPiece(p, v) = [error |-> e]
  <2>1. p.name \in NamesIn(t) BY <1>2, NamesOfPieces
  <2>2. ValidName(p.name) => v[p.name].set \in BOOLEAN
    <3>1. ValidName(p.name) => p.name \in VariablesOf(t) BY <2>1 DEF VariablesOf
    <3>2. \A n \in VariablesOf(t) : v[n] \in {Unset} \cup {Given(x) : x \in Seq(C)}
      BY DEF Fillings
    <3>3. Unset.set \in BOOLEAN /\ \A x : Given(x).set \in BOOLEAN BY DEF Unset, Given
    <3> QED BY <3>1, <3>2, <3>3
  <2>3. RenderPiece(p, v) = RenderName(p.name, v) BY <1>2 DEF RenderPiece
  <2> QED BY <2>2, <2>3, NameRendered
<1> QED BY <1>1, <1>2

\* Rendering gives a text when every name is filled in, or else an error.
LEMMA RenderedWhole ==
  ASSUME NEW C, NEW t \in Seq(C), NEW v \in Fillings(t, C)
  PROVE  IF \A n \in NamesIn(t) : Filled(n, v)
           THEN renderTemplate(t, v) =
                  [text |-> FlattenSeq([k \in DOMAIN Scan(t) |-> RenderPiece(Scan(t)[k], v).text])]
           ELSE \E e : renderTemplate(t, v) = [error |-> e]
<1> DEFINE made == [k \in DOMAIN Scan(t) |-> RenderPiece(Scan(t)[k], v)]
           bad == {k \in DOMAIN made : "error" \in DOMAIN made[k]}
           first == CHOOSE k \in bad : \A i \in bad : k <= i
<1>1. renderTemplate(t, v) =
        IF bad = {} THEN [text |-> FlattenSeq([k \in DOMAIN made |-> made[k].text])]
                    ELSE made[first]
  BY DEF renderTemplate
<1>2. ASSUME NEW k \in DOMAIN Scan(t)
      PROVE  /\ k \in bad <=> IsName(Scan(t)[k]) /\ ~Filled(Scan(t)[k].name, v)
             /\ k \in bad => \E e : made[k] = [error |-> e]
  BY PieceRendered
<1> HIDE DEF made
<1>d. DOMAIN made = DOMAIN Scan(t) BY DEF made
<1>3. bad = {} <=> \A n \in NamesIn(t) : Filled(n, v)
  BY <1>2, <1>d, NamesOfPieces
<1>4. CASE bad = {}
  <2>1. [k \in DOMAIN made |-> made[k].text] =
          [k \in DOMAIN Scan(t) |-> RenderPiece(Scan(t)[k], v).text]
    BY DEF made
  <2> QED BY <1>1, <1>3, <1>4, <2>1
<1>5. CASE bad # {}
  <2>1. bad \subseteq Nat
    <3>1. Scan(t) \in Seq(Pieces(t)) BY ScanType
    <3>2. DOMAIN Scan(t) \subseteq Nat BY <3>1
    <3> QED BY <3>2, <1>d
  <2>2. first \in bad
    <3> HIDE DEF bad
    <3>1. \E k \in bad : \A i \in bad : k <= i BY <1>5, <2>1, LeastNumber
    <3> QED BY <3>1
  <2> HIDE DEF first
  <2>3. \E e : made[first] = [error |-> e] BY <2>2, <1>2, <1>d
  <2> QED BY <1>1, <1>3, <1>5, <2>3
<1> QED BY <1>4, <1>5

\* What the composer checks is that every name is filled in.
LEMMA CompleteIsFilled ==
  ASSUME NEW t, NEW v
  PROVE  Complete(t, v) <=> \A n \in NamesIn(t) : Filled(n, v)
BY DEF Complete, parseTemplate, findMissingVariables, Filled

(* For every template and all values, rendering gives a text exactly when  *)
(* the check of the composer finds nothing missing (findMissingVariables   *)
(* and renderTemplate, each with a loop of its own).                       *)
THEOREM CheckAgreesOnEveryText ==
  ASSUME NEW C, NEW t \in Seq(C), NEW v \in Fillings(t, C)
  PROVE  "text" \in DOMAIN renderTemplate(t, v) <=> Complete(t, v)
<1>1. CASE \A n \in NamesIn(t) : Filled(n, v)
  <2>1. PICK x : renderTemplate(t, v) = [text |-> x] BY <1>1, RenderedWhole
  <2>2. "text" \in DOMAIN renderTemplate(t, v) BY <2>1
  <2> QED BY <2>2, <1>1, CompleteIsFilled
<1>2. CASE ~\A n \in NamesIn(t) : Filled(n, v)
  <2>1. PICK e : renderTemplate(t, v) = [error |-> e] BY <1>2, RenderedWhole
  <2>2. "text" \notin DOMAIN renderTemplate(t, v) BY <2>1
  <2> QED BY <2>2, <1>2, CompleteIsFilled
<1> QED BY <1>1, <1>2

-----------------------------------------------------------------------------
(* Templates: the pieces are the placeholders that one sees at once.       *)

\* What rendering makes of the pieces, and filling in of the positions from i on.
Rendered(ps, v) == [k \in DOMAIN ps |-> RenderPiece(ps[k], v).text]
CellsFrom(t, v, i) == [k \in 1..(Len(t) - i + 1) |-> Cell(t, v, i + k - 1)]

\* No placeholder reaches from before position i beyond it.
Boundary(t, i) == \A a, b : IsPlaceholder(t, a, b) => ~(a < i /\ i <= b + 1)

\* The pieces can be rendered.
Ready(t, v, ps) ==
  \A k \in DOMAIN ps : IsName(ps[k]) =>
    Filled(ps[k].name, v) /\ ps[k].name \in VariablesOf(t)

\* A character outside placeholders is a cell of its own.
LEMMA TextBoundary ==
  ASSUME NEW C, NEW t \in Seq(C), NEW v, NEW i \in DOMAIN t, Boundary(t, i), ~Opens(t, i)
  PROVE  Cell(t, v, i) = <<t[i]>> /\ Boundary(t, i + 1)
<1>1. \A b : ~IsPlaceholder(t, i, b)
  BY MatchPlace DEF IsPlaceholder, Opens
<1>2. ~\E a, b \in DOMAIN t : IsPlaceholder(t, a, b) /\ a < i /\ i <= b + 1
  BY DEF Boundary
<1>3. Cell(t, v, i) = <<t[i]>> BY <1>1, <1>2 DEF Cell
<1>4. ASSUME NEW a, NEW b, IsPlaceholder(t, a, b), a < i + 1, i + 1 <= b + 1 PROVE FALSE
  <2>1. a \in DOMAIN t /\ b \in DOMAIN t BY <1>4, MatchPlace DEF IsPlaceholder
  <2>2. a # i BY <1>1, <1>4
  <2>3. a < i /\ i <= b + 1 BY <2>1, <2>2, <1>4
  <2> QED BY <2>3, <1>4 DEF Boundary
<1> QED BY <1>3, <1>4 DEF Boundary

\* Where a match begins inside another, it ends with it.
LEMMA InsideMatch ==
  ASSUME NEW C, NEW t \in Seq(C), NEW i, NEW j, MatchesAt(t, i, j),
         NEW a, NEW b, MatchesAt(t, a, b), a > i, a <= j + 1
  PROVE  b = j
<1>1. /\ i \in 1..(Len(t) - 1) /\ j \in 1..(Len(t) - 1) /\ i + 2 <= j
      /\ a \in 1..(Len(t) - 1) /\ b \in 1..(Len(t) - 1) /\ a + 2 <= b /\ Len(t) \in Nat
  <2>1. Len(t) \in Nat OBVIOUS
  <2>2. /\ i \in 1..(Len(t) - 1) /\ j \in 1..(Len(t) - 1) /\ i + 2 <= j
        /\ a \in 1..(Len(t) - 1) /\ b \in 1..(Len(t) - 1) /\ a + 2 <= b
    BY ONLY MatchesAt(t, i, j), MatchesAt(t, a, b) DEF MatchesAt, Pair
  <2> QED BY <2>1, <2>2
<1>2. /\ t[j] = "}" /\ t[j + 1] = "}" /\ t[b] = "}" /\ t[a] = "{" /\ t[a + 1] = "{"
      /\ \A k \in (i + 2)..(j - 1) : t[k] # "}"
      /\ \A k \in (a + 2)..(b - 1) : t[k] # "}"
  BY DEF MatchesAt, Pair
<1>3. ~(b < j)
  <2>1. b < j => b \in (i + 2)..(j - 1) BY <1>1
  <2> QED BY <2>1, <1>2
<1>4. ~(j < b)
  <2> SUFFICES ASSUME j < b PROVE FALSE OBVIOUS
  <2>1. a + 2 > j
    <3>1. a + 2 <= j => j \in (a + 2)..(b - 1) BY <1>1
    <3>2. ~(a + 2 <= j) BY <3>1, <1>2
    <3> QED BY <3>2, <1>1
  <2>2. a = j - 1 \/ a = j \/ a = j + 1 BY <2>1, <1>1
  <2>3. a = j - 1 => a + 1 = j BY <1>1
  <2> QED BY <2>2, <2>3, <1>2
<1> QED BY <1>1, <1>3, <1>4

\* The placeholder from i to j is filled in, and no other reaches over its end.
Filling(t, v, i, j) ==
  /\ Cell(t, v, i) = v[NameAt(t, i, j).name].value
  /\ \A k \in (i + 1)..(j + 1) : Cell(t, v, k) = <<>>
  /\ Boundary(t, j + 2)

\* The first match is a placeholder, and the next is looked for behind it.
LEMMA MatchBoundary ==
  ASSUME NEW C, NEW t \in Seq(C), NEW v, NEW i, NEW j, Boundary(t, i), MatchesAt(t, i, j)
  PROVE  Filling(t, v, i, j)
<1>0. i \in DOMAIN t /\ j \in DOMAIN t /\ i + 2 <= j /\ j + 2 \in 1..(Len(t) + 1)
      /\ i \in Nat /\ j \in Nat /\ \A k : MatchesAt(t, i, k) => k = j
  BY MatchPlace
<1>1. IsPlaceholder(t, i, j)
  <2> DEFINE K == {k \in 1..i : MatchesAt(t, k, j)}
  <2>1. K \subseteq Nat /\ i \in K BY <1>0
  <2>2. PICK k \in K : \A a \in K : k <= a BY <2>1, LeastNumber
  <2>3. IsPlaceholder(t, k, j)
    <3>1. \A a \in 1..(k - 1) : a \in 1..i /\ ~(k <= a) BY <2>2, <1>0
    <3> QED BY <2>2, <3>1 DEF IsPlaceholder
  <2>4. k \in 1..i /\ ~(k < i /\ i <= j + 1) BY <2>2, <2>3 DEF Boundary
  <2>5. k = i BY <2>4, <1>0
  <2> QED BY <2>3, <2>5
<1>2. Cell(t, v, i) = v[NameAt(t, i, j).name].value
  <2>1. \A b \in DOMAIN t : IsPlaceholder(t, i, b) <=> b = j BY <1>0, <1>1 DEF IsPlaceholder
  <2>2. (CHOOSE b \in DOMAIN t : IsPlaceholder(t, i, b)) = j BY <2>1, <1>0
  <2> QED BY <2>1, <2>2, <1>0 DEF Cell, NameAt
<1>3. ASSUME NEW k \in (i + 1)..(j + 1) PROVE Cell(t, v, k) = <<>>
  <2>1. \A b : ~IsPlaceholder(t, k, b)
    <3> SUFFICES ASSUME NEW b, IsPlaceholder(t, k, b) PROVE FALSE OBVIOUS
    <3>1. MatchesAt(t, k, b) /\ \A a \in 1..(k - 1) : ~MatchesAt(t, a, b) BY DEF IsPlaceholder
    <3>2. b = j BY <3>1, <1>0, InsideMatch
    <3>3. i \in 1..(k - 1) BY <1>0
    <3> QED BY <3>1, <3>2, <3>3
  <2>2. i < k /\ k <= j + 1 BY <1>0
  <2> QED BY <2>1, <2>2, <1>0, <1>1 DEF Cell
<1>4. Boundary(t, j + 2)
  <2> SUFFICES ASSUME NEW a, NEW b, IsPlaceholder(t, a, b), a < j + 2, j + 2 <= b + 1
               PROVE  FALSE
    BY DEF Boundary
  <2>1. MatchesAt(t, a, b) BY DEF IsPlaceholder
  <2>2. a \in DOMAIN t /\ b \in DOMAIN t /\ a \in Nat /\ b \in Nat BY <2>1, MatchPlace
  <2>3. a < i => i <= b + 1 BY <2>2, <1>0
  <2>4. ~(a < i) BY <2>3 DEF Boundary
  <2>5. a # i BY <1>0, <2>1, <2>2
  <2>6. a > i /\ a <= j + 1 BY <2>2, <2>4, <2>5, <1>0
  <2>7. b = j BY <2>1, <2>6, InsideMatch
  <2> QED BY <2>7, <1>0
<1> QED BY <1>2, <1>3, <1>4 DEF Filling

LEMMA CellsCons ==
  ASSUME NEW C, NEW t \in Seq(C), NEW v, NEW i \in 1..Len(t)
  PROVE  CellsFrom(t, v, i) = <<Cell(t, v, i)>> \o CellsFrom(t, v, i + 1)
<1> DEFINE n == Len(t)
           m == n - i
           rest == CellsFrom(t, v, i + 1)
           all == CellsFrom(t, v, i)
           A == {Cell(t, v, k) : k \in i..n}
<1>1. n \in Nat /\ i \in Nat /\ m \in Nat /\ n - (i + 1) + 1 = m /\ n - i + 1 = m + 1
  OBVIOUS
<1>2. \A k \in 1..(m + 1) : i + k - 1 \in i..n BY <1>1
<1>3. \A k \in 1..m : i + k \in i..n /\ (i + 1) + k - 1 = i + k /\ i + (k + 1) - 1 = i + k
                      /\ k + 1 \in 1..(m + 1)
  BY <1>1
<1>4. /\ rest = [k \in 1..m |-> Cell(t, v, (i + 1) + k - 1)]
      /\ all = [k \in 1..(m + 1) |-> Cell(t, v, i + k - 1)]
  BY <1>1 DEF CellsFrom
<1> HIDE DEF m, n, rest, all
<1>5. rest \in Seq(A) /\ Len(rest) = m
  <2>1. rest \in [1..m -> A] BY <1>3, <1>4
  <2> HIDE DEF A
  <2> QED BY <2>1, <1>1
<1>6. all \in Seq(A) /\ Len(all) = m + 1
  <2>1. all \in [1..(m + 1) -> A] BY <1>2, <1>4
  <2>2. m + 1 \in Nat BY <1>1
  <2> HIDE DEF A
  <2> QED BY <2>1, <2>2
<1>7. all[1] = Cell(t, v, i) /\ Cell(t, v, i) \in A
  <2>1. 1 \in 1..(m + 1) /\ i + 1 - 1 = i BY <1>1
  <2>2. all[1] = Cell(t, v, i + 1 - 1) BY <2>1, <1>4
  <2>3. i \in i..n BY <1>1, <1>2, <2>1
  <2> QED BY <2>1, <2>2, <2>3
<1>8. \A k \in 1..m : all[k + 1] = rest[k] BY <1>3, <1>4
<1> HIDE DEF A
<1> QED BY <1>5, <1>6, <1>7, <1>8, ConsIs DEF all, rest

LEMMA RenderedCons ==
  ASSUME NEW P, NEW p \in P, NEW ps \in Seq(P), NEW v
  PROVE  Rendered(<<p>> \o ps, v) = <<RenderPiece(p, v).text>> \o Rendered(ps, v)
<1> DEFINE qs == <<p>> \o ps
           n == Len(ps)
           all == Rendered(qs, v)
           rest == Rendered(ps, v)
           A == {RenderPiece(q, v).text : q \in P}
<1>1. /\ qs \in Seq(P) /\ Len(qs) = n + 1 /\ n \in Nat /\ qs[1] = p
      /\ \A k \in 1..n : qs[k + 1] = ps[k]
      /\ DOMAIN qs = 1..(n + 1) /\ DOMAIN ps = 1..n
  <2>1. /\ qs \in Seq(P) /\ Len(qs) = n + 1 /\ qs[1] = p
        /\ \A k \in 1..n : qs[k + 1] = ps[k]
    BY ConsProperties
  <2> HIDE DEF qs
  <2> QED BY <2>1, LenProperties
<1> HIDE DEF qs, n
<1>2. \A k \in 1..(n + 1) : qs[k] \in P BY <1>1, ElementOfSeq
<1>3. \A k \in 1..n : ps[k] \in P /\ k + 1 \in 1..(n + 1) BY <1>1 DEF n
<1>4. /\ all = [k \in 1..(n + 1) |-> RenderPiece(qs[k], v).text]
      /\ rest = [k \in 1..n |-> RenderPiece(ps[k], v).text]
  BY <1>1 DEF Rendered
<1> HIDE DEF all, rest
<1>5. rest \in Seq(A) /\ Len(rest) = n
  <2>1. rest \in [1..n -> A] BY <1>3, <1>4
  <2> HIDE DEF A
  <2> QED BY <2>1, <1>1
<1>6. all \in Seq(A) /\ Len(all) = n + 1
  <2>1. all \in [1..(n + 1) -> A] BY <1>2, <1>4
  <2>2. n + 1 \in Nat BY <1>1
  <2> HIDE DEF A
  <2> QED BY <2>1, <2>2
<1>7. all[1] = RenderPiece(p, v).text /\ RenderPiece(p, v).text \in A
  <2>1. 1 \in 1..(n + 1) BY <1>1
  <2> QED BY <2>1, <1>1, <1>4
<1>8. \A k \in 1..n : all[k + 1] = rest[k] BY <1>1, <1>3, <1>4
<1> HIDE DEF A
<1> QED BY <1>5, <1>6, <1>7, <1>8, ConsIs DEF all, rest, qs

\* From position i on, rendering and filling in come to the same.
SameFrom(C, t, v, i) ==
  /\ Rendered(Walk(t)[i], v) \in Seq(Seq(C)) /\ CellsFrom(t, v, i) \in Seq(Seq(C))
  /\ FlattenSeq(Rendered(Walk(t)[i], v)) = FlattenSeq(CellsFrom(t, v, i))

\* A piece that can be rendered, and what is behind it.
LEMMA ReadyPiece ==
  ASSUME NEW C, NEW t \in Seq(C), NEW v \in Fillings(t, C),
         NEW p \in Pieces(t), NEW ps \in Seq(Pieces(t)), Ready(t, v, <<p>> \o ps)
  PROVE  /\ Ready(t, v, ps) /\ RenderPiece(p, v).text \in Seq(C)
         /\ ~IsName(p) => RenderPiece(p, v).text = <<p.text>>
         /\ IsName(p) => RenderPiece(p, v).text = v[p.name].value
<1> DEFINE qs == <<p>> \o ps
<1>1. /\ qs \in Seq(Pieces(t)) /\ Len(qs) = Len(ps) + 1 /\ qs[1] = p
      /\ \A k \in 1..Len(ps) : qs[k + 1] = ps[k]
  BY ConsProperties
<1>2. Ready(t, v, qs) OBVIOUS
<1> HIDE DEF qs
<1>3. Ready(t, v, ps)
  <2>1. \A k \in DOMAIN ps : k + 1 \in DOMAIN qs /\ qs[k + 1] = ps[k] BY <1>1
  <2> QED BY <2>1, <1>2 DEF Ready
<1>4. IsName(p) => Filled(p.name, v) /\ p.name \in VariablesOf(t)
  <2>1. 1 \in DOMAIN qs BY <1>1
  <2> QED BY <2>1, <1>1, <1>2 DEF Ready
<1>5. ASSUME ~IsName(p)
      PROVE  RenderPiece(p, v).text = <<p.text>> /\ RenderPiece(p, v).text \in Seq(C)
  <2>1. RenderPiece(p, v) = [text |-> <<p.text>>] BY <1>5 DEF RenderPiece
  <2>2. p.text \in C
    <3>1. PICK i \in DOMAIN t : p = [text |-> t[i]] BY <1>5 DEF Pieces, NameAt, IsName
    <3> QED BY <3>1
  <2> QED BY <2>1, <2>2
<1>6. ASSUME IsName(p)
      PROVE  RenderPiece(p, v).text = v[p.name].value /\ RenderPiece(p, v).text \in Seq(C)
  <2>1. v[p.name] \in {Unset} \cup {Given(x) : x \in Seq(C)} BY <1>4, <1>6 DEF Fillings
  <2>2. v[p.name].set BY <1>4, <1>6 DEF Filled, HasValue
  <2>3. v[p.name] # Unset
    <3>1. ~Unset.set BY DEF Unset
    <3> QED BY <3>1, <2>2
  <2>4. PICK x \in Seq(C) : v[p.name] = Given(x) BY <2>1, <2>3
  <2>5. v[p.name].value \in Seq(C) BY <2>4 DEF Given
  <2>6. RenderName(p.name, v) = [text |-> v[p.name].value]
    <3>1. v[p.name].set \in BOOLEAN BY <2>4 DEF Given
    <3> QED BY <3>1, <1>4, <1>6, NameRendered
  <2>7. RenderPiece(p, v) = [text |-> v[p.name].value] BY <1>6, <2>6 DEF RenderPiece
  <2> QED BY <2>5, <2>7
<1> QED BY <1>3, <1>5, <1>6

\* Positions inside a placeholder add nothing.
LEMMA EmptyCells ==
  ASSUME NEW C, NEW t \in Seq(C), NEW v, NEW b \in 1..(Len(t) + 1), CellsFrom(t, v, b) \in Seq(Seq(C)),
         NEW a \in 1..b, \A k \in a..(b - 1) : Cell(t, v, k) = <<>>
  PROVE  /\ CellsFrom(t, v, a) \in Seq(Seq(C))
         /\ FlattenSeq(CellsFrom(t, v, a)) = FlattenSeq(CellsFrom(t, v, b))
<1> DEFINE Same(i) == /\ CellsFrom(t, v, i) \in Seq(Seq(C))
                      /\ FlattenSeq(CellsFrom(t, v, i)) = FlattenSeq(CellsFrom(t, v, b))
           S == {m \in Nat : m <= b - a => Same(b - m)}
<1>0. a \in Nat /\ b \in Nat /\ Len(t) \in Nat OBVIOUS
<1>1. 0 \in S
  <2>1. b - 0 = b BY <1>0
  <2> HIDE DEF Same
  <2>2. Same(b) BY DEF Same
  <2> QED BY <2>1, <2>2
<1>2. ASSUME NEW m \in Nat, m \in S PROVE m + 1 \in S
  <2> SUFFICES ASSUME m + 1 <= b - a PROVE Same(b - (m + 1)) OBVIOUS
  <2> DEFINE i == b - (m + 1)
  <2>1. i \in a..(b - 1) /\ i \in 1..Len(t) /\ i + 1 = b - m BY <1>0
  <2>2. Same(i + 1) BY <1>2, <2>1
  <2>3. CellsFrom(t, v, i) = <<<<>>>> \o CellsFrom(t, v, i + 1) BY <2>1, CellsCons
  <2> HIDE DEF i
  <2>4. <<>> \in Seq(C) OBVIOUS
  <2>5. CellsFrom(t, v, i) \in Seq(Seq(C)) BY <2>2, <2>3, <2>4, ConsProperties
  <2>6. FlattenSeq(CellsFrom(t, v, i)) = <<>> \o FlattenSeq(CellsFrom(t, v, i + 1))
    BY <2>2, <2>3, <2>4, FlattenCons
  <2>7. FlattenSeq(CellsFrom(t, v, i + 1)) \in Seq(C) BY <2>2, FlattenType
  <2>8. <<>> \o FlattenSeq(CellsFrom(t, v, i + 1)) = FlattenSeq(CellsFrom(t, v, i + 1))
    BY <2>7, ConcatEmptySeq
  <2> QED BY <2>2, <2>5, <2>6, <2>8 DEF i
<1>3. \A m \in Nat : m \in S BY <1>1, <1>2, InductionOn
<1>4. b - a \in Nat /\ b - (b - a) = a BY <1>0
<1>5. b - a \in S BY <1>3, <1>4
<1> QED BY <1>4, <1>5

\* One step of the walk: a placeholder or a character, behind which rendering
\* and filling in come to the same.
LEMMA SameStep ==
  ASSUME NEW C, NEW t \in Seq(C), NEW v \in Fillings(t, C), NEW i \in 1..(Len(t) + 1),
         Boundary(t, i), Ready(t, v, Walk(t)[i]),
         \A k \in 1..(Len(t) + 1) :
           k > i /\ Boundary(t, k) /\ Ready(t, v, Walk(t)[k]) => SameFrom(C, t, v, k)
  PROVE  SameFrom(C, t, v, i)
<1> DEFINE n == Len(t)
           w == Walk(t)
<1>0. n \in Nat OBVIOUS
<1>w. w \in [1..(n + 1) -> Seq(Pieces(t))] /\ w[i] = WalkFrom(t, w, i) BY WalkFacts
<1>1. CASE i = n + 1
  <2>1. w[i] = <<>> BY <1>0, <1>1, <1>w DEF WalkFrom
  <2>2. Rendered(w[i], v) = <<>> BY <2>1 DEF Rendered
  <2>3. CellsFrom(t, v, i) = <<>>
    <3>1. n - i + 1 = 0 BY <1>0, <1>1
    <3> QED BY <3>1 DEF CellsFrom
  <2> QED BY <2>2, <2>3, FlattenEmpty DEF SameFrom
<1>2. ASSUME i <= n, NEW p \in Pieces(t), NEW j \in (i + 1)..(n + 1),
             w[i] = <<p>> \o w[j], Boundary(t, j),
             /\ ~IsName(p) => Cell(t, v, i) = <<p.text>>
             /\ IsName(p) => Cell(t, v, i) = v[p.name].value,
             \A k \in (i + 1)..(j - 1) : Cell(t, v, k) = <<>>
      PROVE  SameFrom(C, t, v, i)
  <2>0. i \in Nat /\ j \in Nat /\ j \in 1..(n + 1) /\ i \in 1..n /\ i + 1 \in 1..j BY <1>0, <1>2
  <2> HIDE DEF w, n
  <2>1. w[j] \in Seq(Pieces(t)) BY <2>0, <1>w
  <2>2. Ready(t, v, <<p>> \o w[j]) BY <1>2 DEF w
  <2>3. /\ Ready(t, v, w[j]) /\ RenderPiece(p, v).text \in Seq(C)
        /\ RenderPiece(p, v).text = Cell(t, v, i)
    <3> DEFINE ps == w[j]
    <3>1. ps \in Seq(Pieces(t)) /\ Ready(t, v, <<p>> \o ps) BY <2>1, <2>2
    <3> HIDE DEF ps
    <3>2. /\ Ready(t, v, ps) /\ RenderPiece(p, v).text \in Seq(C)
          /\ ~IsName(p) => RenderPiece(p, v).text = <<p.text>>
          /\ IsName(p) => RenderPiece(p, v).text = v[p.name].value
      BY <3>1, ReadyPiece
    <3> QED BY <3>2, <1>2 DEF ps
  <2>4. SameFrom(C, t, v, j) BY <1>2, <2>0, <2>3 DEF w, n
  <2>5. /\ Rendered(w[j], v) \in Seq(Seq(C)) /\ CellsFrom(t, v, j) \in Seq(Seq(C))
        /\ FlattenSeq(Rendered(w[j], v)) = FlattenSeq(CellsFrom(t, v, j))
    BY <2>4 DEF SameFrom, w
  <2>6. /\ CellsFrom(t, v, i + 1) \in Seq(Seq(C))
        /\ FlattenSeq(CellsFrom(t, v, i + 1)) = FlattenSeq(CellsFrom(t, v, j))
    <3>1. j \in 1..(Len(t) + 1) /\ i + 1 \in 1..j BY <2>0 DEF n
    <3>2. CellsFrom(t, v, j) \in Seq(Seq(C)) BY <2>5
    <3>3. \A k \in (i + 1)..(j - 1) : Cell(t, v, k) = <<>> BY <1>2
    <3> QED BY <3>1, <3>2, <3>3, EmptyCells
  <2>7. CellsFrom(t, v, i) = <<Cell(t, v, i)>> \o CellsFrom(t, v, i + 1)
    BY <2>0, CellsCons DEF n
  <2>8. Rendered(w[i], v) = <<Cell(t, v, i)>> \o Rendered(w[j], v)
    <3> DEFINE ps == w[j]
    <3>1. ps \in Seq(Pieces(t)) /\ w[i] = <<p>> \o ps BY <2>1, <1>2
    <3> HIDE DEF ps
    <3>2. Rendered(<<p>> \o ps, v) = <<RenderPiece(p, v).text>> \o Rendered(ps, v)
      BY <3>1, RenderedCons, SMTT(30)
    <3> QED BY <3>1, <3>2, <2>3 DEF ps
  <2>9. CellsFrom(t, v, i) \in Seq(Seq(C)) /\ Rendered(w[i], v) \in Seq(Seq(C))
    BY <2>3, <2>5, <2>6, <2>7, <2>8, ConsProperties
  <2>10. /\ FlattenSeq(CellsFrom(t, v, i)) = Cell(t, v, i) \o FlattenSeq(CellsFrom(t, v, i + 1))
         /\ FlattenSeq(Rendered(w[i], v)) = Cell(t, v, i) \o FlattenSeq(Rendered(w[j], v))
    BY <2>3, <2>5, <2>6, <2>7, <2>8, FlattenCons
  <2> QED BY <2>5, <2>6, <2>9, <2>10 DEF SameFrom, w
<1>3. CASE i <= n /\ Opens(t, i)
  <2> DEFINE j == EndOf(t, i)
             p == NameAt(t, i, j)
  <2>1. MatchesAt(t, i, j) BY <1>3, EndPlace
  <2>2. i \in DOMAIN t /\ j \in DOMAIN t /\ i + 2 <= j /\ j + 2 \in 1..(n + 1)
    BY <2>1, MatchPlace
  <2>3. w[i] = <<p>> \o w[j + 2] BY <1>0, <1>w, <1>3 DEF WalkFrom
  <2> HIDE DEF j, w
  <2>4. /\ Cell(t, v, i) = v[p.name].value /\ \A k \in (i + 1)..(j + 1) : Cell(t, v, k) = <<>>
        /\ Boundary(t, j + 2)
    <3> HIDE DEF p
    <3>1. t \in Seq(C) /\ Boundary(t, i) /\ MatchesAt(t, i, j) BY <2>1
    <3>2. /\ Cell(t, v, i) = v[NameAt(t, i, j).name].value
          /\ \A k \in (i + 1)..(j + 1) : Cell(t, v, k) = <<>>
          /\ Boundary(t, j + 2)
      <4>1. Filling(t, v, i, j) BY <3>1, MatchBoundary
      <4> QED BY <4>1 DEF Filling
    <3> QED BY <3>2 DEF p
  <2>5. p \in Pieces(t) BY <2>2, PieceType
  <2>6. IsName(p) BY DEF IsName, NameAt
  <2> HIDE DEF p
  <2>7. j + 2 \in (i + 1)..(n + 1) /\ (j + 2) - 1 = j + 1 BY <2>2, <1>0
  <2> QED BY <1>2, <1>3, <2>3, <2>4, <2>5, <2>6, <2>7
<1>4. CASE i <= n /\ ~Opens(t, i)
  <2> DEFINE p == [text |-> t[i]]
  <2>0. i \in DOMAIN t BY <1>0, <1>4
  <2>1. w[i] = <<p>> \o w[i + 1] BY <1>0, <1>w, <1>4 DEF WalkFrom
  <2>2. p \in Pieces(t) BY <2>0, PieceType
  <2>3. ~IsName(p) /\ p.text = t[i] BY DEF IsName
  <2>4. Cell(t, v, i) = <<t[i]>> /\ Boundary(t, i + 1) BY <2>0, <1>4, TextBoundary
  <2> HIDE DEF p, w
  <2>5. i + 1 \in (i + 1)..(n + 1) /\ (i + 1) - 1 = i /\ (i + 1)..i = {} BY <1>0, <1>4
  <2> QED BY <1>2, <1>4, <2>1, <2>2, <2>3, <2>4, <2>5
<1> QED BY <1>0, <1>1, <1>3, <1>4

LEMMA SameEverywhere ==
  ASSUME NEW C, NEW t \in Seq(C), NEW v \in Fillings(t, C), NEW i \in 1..(Len(t) + 1),
         Boundary(t, i), Ready(t, v, Walk(t)[i])
  PROVE  SameFrom(C, t, v, i)
<1> DEFINE n == Len(t) + 1
           Claim(k) == Boundary(t, k) /\ Ready(t, v, Walk(t)[k]) => SameFrom(C, t, v, k)
           S == {m \in Nat : \A k \in 1..n : n - k < m => Claim(k)}
<1>0. n \in Nat OBVIOUS
<1>1. 0 \in S BY <1>0
<1>2. ASSUME NEW m \in Nat, m \in S PROVE m + 1 \in S
  <2> SUFFICES ASSUME NEW k \in 1..n, n - k < m + 1, Boundary(t, k), Ready(t, v, Walk(t)[k])
               PROVE  SameFrom(C, t, v, k)
    OBVIOUS
  <2>1. \A l \in 1..n : l > k => n - l < m BY <1>0
  <2>2. \A l \in 1..n : l > k => Claim(l) BY <1>2, <2>1
  <2> QED BY <2>2, SameStep
<1>3. \A m \in Nat : m \in S BY <1>1, <1>2, InductionOn
<1>4. n - i < n BY <1>0
<1> QED BY <1>0, <1>3, <1>4

(* For every template and all values for which rendering gives a text, it  *)
(* is the template with each placeholder replaced by its value and         *)
(* everything else kept (renderTemplate).                                  *)
THEOREM PlaceholdersFilledInEveryText ==
  ASSUME NEW C, NEW t \in Seq(C), NEW v \in Fillings(t, C),
         "text" \in DOMAIN renderTemplate(t, v)
  PROVE  renderTemplate(t, v).text = FilledIn(t, v)
<1>0. t \in Seq(C) /\ 1 \in 1..(Len(t) + 1) OBVIOUS
<1>1. \A n \in NamesIn(t) : Filled(n, v)
  BY CheckAgreesOnEveryText, CompleteIsFilled
<1>2. Ready(t, v, Scan(t))
  <2>1. \A k \in DOMAIN Scan(t) : IsName(Scan(t)[k]) => Scan(t)[k].name \in NamesIn(t)
    BY NamesOfPieces
  <2> QED BY <2>1, <1>1 DEF Ready, VariablesOf, Filled
<1>3. Boundary(t, 1)
  <2>1. \A a, b : IsPlaceholder(t, a, b) => a \in 1..(Len(t) - 1)
    BY DEF IsPlaceholder, MatchesAt, Pair
  <2> QED BY <2>1 DEF Boundary
<1>4. SameFrom(C, t, v, 1) BY <1>0, <1>2, <1>3, SameEverywhere DEF Scan
<1>5. FlattenSeq(Rendered(Scan(t), v)) = FlattenSeq(CellsFrom(t, v, 1))
  BY <1>4 DEF SameFrom, Scan
<1>6. renderTemplate(t, v) = [text |-> FlattenSeq(Rendered(Scan(t), v))]
  BY <1>1, RenderedWhole DEF Rendered
<1>7. CellsFrom(t, v, 1) = [k \in DOMAIN t |-> Cell(t, v, k)]
  <2>1. Len(t) - 1 + 1 = Len(t) /\ DOMAIN t = 1..Len(t) /\ \A k \in 1..Len(t) : 1 + k - 1 = k
    OBVIOUS
  <2> QED BY <2>1 DEF CellsFrom
<1> QED BY <1>5, <1>6, <1>7 DEF FilledIn

-----------------------------------------------------------------------------
(* Camera cues (cameraPresets.ts).                                         *)

IsWord(t, p, q) ==
  /\ p \in 1..Len(t) /\ q \in 1..Len(t)
  /\ p <= q /\ \A k \in p..q : t[k] # Space
  /\ p = 1 \/ t[p - 1] = Space
  /\ q = Len(t) \/ t[q + 1] = Space

LEMMA WordsAreWords ==
  ASSUME NEW t
  PROVE  /\ WordsOf(t) \subseteq (1..Len(t)) \X (1..Len(t))
         /\ \A p, q : <<p, q>> \in WordsOf(t) <=> IsWord(t, p, q)
BY DEF WordsOf, IsWord

\* The text x is b, a cue at position c set off by spaces, and a from d + 1 on.
CueBetween(x, b, a, c, d) ==
  /\ c \in {Len(b) + 1, Len(b) + 2} /\ d \in {c, c + 1} /\ Len(x) = d + Len(a)
  /\ \A i \in 1..Len(b) : x[i] = b[i]
  /\ \A i \in 1..Len(a) : x[d + i] = a[i]
  /\ x[c] # Space
  /\ c = 1 \/ x[c - 1] = Space
  /\ c = Len(x) \/ x[c + 1] = Space

\* The words of a text with a cue in it are those of both sides and the cue.
LEMMA WordsAroundCue ==
  ASSUME NEW A, NEW x \in Seq(A), NEW a \in Seq(A), NEW b \in Seq(A), NEW c, NEW d,
         CueBetween(x, b, a, c, d)
  PROVE  WordsOf(x) = WordsOf(b) \cup {<<c, c>>} \cup MovedBy(d, WordsOf(a))
<1> DEFINE lb == Len(b)
           la == Len(a)
           lx == Len(x)
<1>1. lb \in Nat /\ la \in Nat /\ lx \in Nat OBVIOUS
<1>2. /\ c \in Nat /\ d \in Nat /\ c \in {lb + 1, lb + 2} /\ d \in {c, c + 1} /\ lx = d + la
      /\ \A i \in 1..lb : x[i] = b[i]
      /\ \A i \in 1..la : x[d + i] = a[i]
      /\ x[c] # Space /\ (c = 1 \/ x[c - 1] = Space) /\ (c = lx \/ x[c + 1] = Space)
  BY <1>1 DEF CueBetween
<1> HIDE DEF lb, la, lx
<1> USE DEF IsWord
<1>3. ASSUME NEW p \in Nat, NEW q \in Nat, IsWord(x, p, q)
      PROVE  IsWord(b, p, q) \/ (p = c /\ q = c) \/ IsWord(a, p - d, q - d)
  <2>0. /\ p \in 1..lx /\ q \in 1..lx /\ p <= q /\ \A k \in p..q : x[k] # Space
        /\ p = 1 \/ x[p - 1] = Space
        /\ q = lx \/ x[q + 1] = Space
    BY <1>3 DEF lx
  <2>1. CASE q < c
    <3>1. q <= lb
      <4>1. q \in p..q BY <2>0
      <4>2. x[q] # Space BY <4>1, <2>0
      <4>3. q # c - 1 \/ c = 1 BY <4>2, <1>2
      <4> QED BY <4>3, <1>1, <1>2, <2>0, <2>1
    <3>2. \A k \in p..q : k \in 1..lb /\ b[k] = x[k] BY <3>1, <2>0, <1>1, <1>2
    <3>3. p = 1 \/ b[p - 1] = Space
      <4>1. p # 1 => p - 1 \in 1..lb BY <3>1, <2>0, <1>1
      <4> QED BY <4>1, <2>0, <1>2
    <3>4. q = lb \/ b[q + 1] = Space
      <4>1. q # lb => q + 1 \in 1..lb /\ q # lx BY <3>1, <2>0, <1>1, <1>2
      <4> QED BY <4>1, <2>0, <1>2
    <3>5. p \in 1..lb /\ q \in 1..lb BY <3>1, <2>0, <1>1
    <3> QED BY <2>0, <3>2, <3>3, <3>4, <3>5 DEF lb
  <2>2. CASE p <= c /\ c <= q
    <3>1. p = c
      <4>1. p < c => c # 1 /\ c - 1 \in p..q BY <2>0, <2>2, <1>2
      <4> QED BY <4>1, <2>0, <2>2, <1>2
    <3>2. q = c
      <4>1. c < q => c # lx /\ c + 1 \in p..q BY <2>0, <2>2, <1>1, <1>2
      <4> QED BY <4>1, <2>0, <2>2, <1>2
    <3> QED BY <3>1, <3>2
  <2>3. CASE p > c
    <3>1. p > d
      <4>1. p \in p..q BY <2>0
      <4>2. x[p] # Space BY <4>1, <2>0
      <4>3. d = c + 1 => p # d
        <5>1. d = c + 1 => c # lx BY <1>1, <1>2
        <5> QED BY <5>1, <4>2, <1>2
      <4> QED BY <4>3, <2>3, <1>2
    <3> DEFINE i == p - d
               j == q - d
    <3>2. i \in 1..la /\ j \in 1..la /\ i <= j /\ i + d = p /\ j + d = q
      BY <3>1, <2>0, <1>1, <1>2
    <3>3. \A k \in i..j : a[k] # Space
      <4> SUFFICES ASSUME NEW k \in i..j PROVE a[k] # Space OBVIOUS
      <4>1. k \in 1..la /\ d + k \in p..q BY <3>2, <1>1, <1>2, <2>0
      <4> QED BY <4>1, <1>2, <2>0
    <3>4. i = 1 \/ a[i - 1] = Space
      <4>1. i # 1 => i - 1 \in 1..la /\ d + (i - 1) = p - 1 /\ p # 1
        BY <3>2, <1>1, <1>2, <2>0
      <4> QED BY <4>1, <1>2, <2>0
    <3>5. j = la \/ a[j + 1] = Space
      <4>1. j # la => j + 1 \in 1..la /\ d + (j + 1) = q + 1 /\ q # lx
        BY <3>2, <1>1, <1>2, <2>0
      <4> QED BY <4>1, <1>2, <2>0
    <3> HIDE DEF i, j
    <3>6. IsWord(a, i, j) BY <3>2, <3>3, <3>4, <3>5 DEF la
    <3> QED BY <3>6 DEF i, j
  <2> QED BY <2>1, <2>2, <2>3, <1>2, <2>0
<1>4. ASSUME NEW p \in Nat, NEW q \in Nat, IsWord(b, p, q) PROVE IsWord(x, p, q)
  <2>0. /\ p \in 1..lb /\ q \in 1..lb /\ p <= q /\ \A k \in p..q : b[k] # Space
        /\ p = 1 \/ b[p - 1] = Space
        /\ q = lb \/ b[q + 1] = Space
    BY <1>4 DEF lb
  <2>1. \A k \in p..q : k \in 1..lb /\ x[k] # Space
    <3>1. \A k \in p..q : k \in 1..lb BY <2>0, <1>1
    <3> QED BY <3>1, <2>0, <1>2
  <2>2. p = 1 \/ x[p - 1] = Space
    <3>1. p # 1 => p - 1 \in 1..lb BY <2>0, <1>1
    <3> QED BY <3>1, <2>0, <1>2
  <2>3. x[q + 1] = Space
    <3>1. CASE q # lb
      <4>1. q + 1 \in 1..lb BY <3>1, <2>0, <1>1
      <4> QED BY <4>1, <3>1, <2>0, <1>2
    <3>2. CASE q = lb
      <4>1. q \in p..q /\ q \in 1..lb BY <2>0
      <4>2. x[q] # Space BY <4>1, <2>1
      <4>3. c # 1 BY <1>1, <1>2, <2>0
      <4>4. x[c - 1] = Space BY <4>3, <1>2
      <4>5. c - 1 # q BY <4>2, <4>4
      <4>6. c - 1 = q + 1 BY <4>5, <3>2, <1>1, <1>2
      <4> QED BY <4>4, <4>6
    <3> QED BY <3>1, <3>2
  <2>4. p \in 1..lx /\ q \in 1..lx BY <2>0, <1>1, <1>2
  <2> QED BY <2>0, <2>1, <2>2, <2>3, <2>4 DEF lx
<1>5. IsWord(x, c, c)
  <2>1. c \in 1..lx /\ \A k \in c..c : x[k] # Space
    <3>1. c \in 1..lx /\ \A k \in c..c : k = c BY <1>1, <1>2
    <3> QED BY <3>1, <1>2
  <2> QED BY <2>1, <1>2 DEF lx
<1>6. ASSUME NEW i \in Nat, NEW j \in Nat, IsWord(a, i, j) PROVE IsWord(x, i + d, j + d)
  <2> DEFINE p == i + d
             q == j + d
  <2>0. /\ i \in 1..la /\ j \in 1..la /\ i <= j /\ \A k \in i..j : a[k] # Space
        /\ i = 1 \/ a[i - 1] = Space
        /\ j = la \/ a[j + 1] = Space
    BY <1>6 DEF la
  <2>1. p \in 1..lx /\ q \in 1..lx /\ p <= q BY <2>0, <1>1, <1>2
  <2>2. \A k \in p..q : x[k] # Space
    <3> SUFFICES ASSUME NEW k \in p..q PROVE x[k] # Space OBVIOUS
    <3>1. k - d \in i..j /\ k - d \in 1..la /\ d + (k - d) = k BY <2>0, <2>1, <1>1, <1>2
    <3> QED BY <3>1, <2>0, <1>2
  <2>3. x[p - 1] = Space
    <3>1. CASE i # 1
      <4>1. i - 1 \in 1..la /\ d + (i - 1) = p - 1 BY <3>1, <2>0, <1>1, <1>2
      <4> QED BY <4>1, <3>1, <2>0, <1>2
    <3>2. CASE i = 1
      <4>1. i \in i..j BY <2>0
      <4>2. x[d + 1] # Space
        <5>1. a[1] # Space /\ 1 \in 1..la BY <4>1, <3>2, <2>0
        <5> QED BY <5>1, <1>2
      <4>3. c # lx BY <1>1, <1>2, <2>0
      <4>4. x[c + 1] = Space BY <4>3, <1>2
      <4>5. d # c BY <4>2, <4>4
      <4>6. p - 1 = c + 1 BY <4>5, <3>2, <1>1, <1>2
      <4> QED BY <4>4, <4>6
    <3> QED BY <3>1, <3>2
  <2>4. q = lx \/ x[q + 1] = Space
    <3>0. j \in 1..la /\ d \in Nat BY <2>0, <1>2
    <3>1. j # la => j + 1 \in 1..la /\ d + (j + 1) = q + 1 BY <3>0, <1>1
    <3>2. j = la => q = lx BY <1>1, <1>2
    <3> QED BY <3>1, <3>2, <2>0, <1>2
  <2> HIDE DEF p, q
  <2>5. IsWord(x, p, q) BY <2>1, <2>2, <2>3, <2>4 DEF lx
  <2> QED BY <2>5 DEF p, q
<1> HIDE DEF IsWord
<1>7. ASSUME NEW w \in WordsOf(x)
      PROVE  w \in WordsOf(b) \cup {<<c, c>>} \cup MovedBy(d, WordsOf(a))
  <2>1. PICK p, q \in 1..lx : w = <<p, q>> BY WordsAreWords DEF lx
  <2>2. p \in Nat /\ q \in Nat /\ IsWord(x, p, q) BY <2>1, WordsAreWords
  <2>3. CASE IsWord(b, p, q) BY <2>3, <2>1, WordsAreWords
  <2>4. CASE p = c /\ q = c BY <2>4, <2>1
  <2>5. CASE IsWord(a, p - d, q - d)
    <3> DEFINE u == <<p - d, q - d>>
    <3>1. u \in WordsOf(a) BY <2>5, WordsAreWords
    <3>2. <<u[1] + d, u[2] + d>> = w BY <2>1, <2>2, <1>2
    <3> HIDE DEF u
    <3> QED BY <3>1, <3>2 DEF MovedBy
  <2> QED BY <2>2, <2>3, <2>4, <2>5, <1>3
<1>8. ASSUME NEW w \in WordsOf(b) \cup {<<c, c>>} \cup MovedBy(d, WordsOf(a))
      PROVE  w \in WordsOf(x)
  <2>1. CASE w \in WordsOf(b)
    <3>1. PICK p, q \in 1..lb : w = <<p, q>> BY <2>1, WordsAreWords DEF lb
    <3>2. p \in Nat /\ q \in Nat /\ IsWord(b, p, q) BY <2>1, <3>1, WordsAreWords
    <3> QED BY <3>1, <3>2, <1>4, WordsAreWords
  <2>2. CASE w = <<c, c>> BY <2>2, <1>5, WordsAreWords
  <2>3. CASE w \in MovedBy(d, WordsOf(a))
    <3>1. PICK u \in WordsOf(a) : w = <<u[1] + d, u[2] + d>> BY <2>3 DEF MovedBy
    <3>2. PICK p, q \in 1..la : u = <<p, q>> BY <3>1, WordsAreWords DEF la
    <3>3. p \in Nat /\ q \in Nat /\ IsWord(a, p, q) BY <3>1, <3>2, WordsAreWords
    <3>4. w = <<p + d, q + d>> BY <3>1, <3>2
    <3> QED BY <3>3, <3>4, <1>6, WordsAreWords
  <2> QED BY <1>8, <2>1, <2>2, <2>3
<1> QED BY <1>7, <1>8

Chars == {"w", Space, "cue"}

TypingInv ==
  /\ template \in Seq(Chunks) /\ scratch \in Seq(Letters) /\ prompt \in Seq(Chars)
  /\ selectionStart \in Int \cup {NotFinite} /\ selectionEnd \in Int \cup {NotFinite}

\* The selection, cut to the text.
LEMMA EndsInText ==
  ASSUME TypingInv
  PROVE  /\ Ends[1] \in 0..Len(prompt) /\ Ends[2] \in 0..Len(prompt)
         /\ Before \in Seq(Chars) /\ After \in Seq(Chars)
<1>1. Len(prompt) \in Nat /\ selectionStart \in Int \cup {NotFinite}
      /\ selectionEnd \in Int \cup {NotFinite}
  BY DEF TypingInv
<1>c. ASSUME NEW i \in Int \cup {NotFinite} PROVE clampIndex(i, Len(prompt)) \in 0..Len(prompt)
  BY <1>1 DEF clampIndex
<1>2. Ends[1] \in 0..Len(prompt) /\ Ends[2] \in 0..Len(prompt) BY <1>1, <1>c DEF Ends
<1> HIDE DEF Ends
<1>3. \A i \in 1..Len(prompt) : prompt[i] \in Chars BY DEF TypingInv
<1>4. Before \in Seq(Chars)
  <2>1. \A i \in 1..Ends[1] : prompt[i] \in Chars BY <1>1, <1>2, <1>3
  <2>2. 1 \in Int /\ Ends[1] \in Int BY <1>2
  <2> QED BY <2>1, <2>2, SubSeqProperties DEF Before
<1>5. After \in Seq(Chars)
  <2>1. \A i \in (Ends[2] + 1)..Len(prompt) : prompt[i] \in Chars BY <1>1, <1>2, <1>3
  <2>2. Ends[2] + 1 \in Int /\ Len(prompt) \in Int BY <1>1, <1>2
  <2> QED BY <2>1, <2>2, SubSeqProperties DEF After
<1> QED BY <1>2, <1>4, <1>5

Joined(x, s, r) ==
  /\ Len(x) = Len(s) + Len(r)
  /\ \A i \in 1..(Len(s) + Len(r)) : x[i] = IF i <= Len(s) THEN s[i] ELSE r[i - Len(s)]

LEMMA ConcatJoins ==
  ASSUME NEW S, NEW s \in Seq(S), NEW r \in Seq(S)
  PROVE  s \o r \in Seq(S) /\ Joined(s \o r, s, r)
BY ConcatProperties DEF Joined

\* insertTokenAtSelection sets the cue off by spaces where there are none.
LEMMA CueInserted ==
  ASSUME TypingInv
  PROVE  LET r == insertTokenAtSelection(<<"cue">>)
             d == Len(r.text) - Len(After)
         IN /\ r.text \in Seq(Chars) /\ r.caret \in Nat
            /\ CueBetween(r.text, Before, After, r.caret, d) /\ r.text[r.caret] = "cue"
<1> DEFINE r == insertTokenAtSelection(<<"cue">>)
           b == Before
           a == After
           lead == IF needsLeadingSpace(b) THEN <<Space>> ELSE <<>>
           trail == IF needsTrailingSpace(a) THEN <<Space>> ELSE <<>>
           cue == <<"cue">>
           u == b \o lead
           w == u \o cue
           z == w \o trail
           x == z \o a
           c == Len(b) + Len(lead) + 1
           d == c + Len(trail)
<1>1. b \in Seq(Chars) /\ a \in Seq(Chars) BY EndsInText
<1>2. r = [text |-> x, caret |-> c]
  <2>1. Len(cue) = 1 OBVIOUS
  <2> QED BY <2>1 DEF insertTokenAtSelection
<1>3. /\ lead \in Seq(Chars) /\ Len(lead) \in {0, 1} /\ (Len(lead) = 1 => lead[1] = Space)
      /\ trail \in Seq(Chars) /\ Len(trail) \in {0, 1} /\ (Len(trail) = 1 => trail[1] = Space)
      /\ cue \in Seq(Chars) /\ Len(cue) = 1 /\ cue[1] = "cue"
  <2> DEFINE gap == <<Space>>
  <2>1. Space \in Chars /\ "cue" \in Chars BY DEF Chars
  <2>2. gap \in Seq(Chars) /\ Len(gap) = 1 /\ gap[1] = Space BY <2>1
  <2>3. <<>> \in Seq(Chars) /\ Len(<<>>) = 0 OBVIOUS
  <2>4. cue \in Seq(Chars) /\ Len(cue) = 1 /\ cue[1] = "cue" BY <2>1
  <2>5. (lead = gap \/ lead = <<>>) /\ (trail = gap \/ trail = <<>>) OBVIOUS
  <2> HIDE DEF gap, lead, trail, cue
  <2>6. lead \in Seq(Chars) /\ Len(lead) \in {0, 1} /\ (Len(lead) = 1 => lead[1] = Space)
    <3>1. CASE lead = gap BY <3>1, <2>2
    <3>2. CASE lead = <<>> BY <3>2
    <3> QED BY <3>1, <3>2, <2>5
  <2>7. trail \in Seq(Chars) /\ Len(trail) \in {0, 1} /\ (Len(trail) = 1 => trail[1] = Space)
    <3>1. CASE trail = gap BY <3>1, <2>2
    <3>2. CASE trail = <<>> BY <3>2
    <3> QED BY <3>1, <3>2, <2>5
  <2> QED BY <2>4, <2>6, <2>7
<1>4. (Len(lead) = 0 => Len(b) = 0 \/ b[Len(b)] = Space)
      /\ (Len(trail) = 0 => Len(a) = 0 \/ a[1] = Space)
  <2>1. Len(lead) = 0 => ~needsLeadingSpace(b) OBVIOUS
  <2>2. Len(trail) = 0 => ~needsTrailingSpace(a) OBVIOUS
  <2> HIDE DEF lead, trail, b, a
  <2>3. b # <<>> => Last(b) = b[Len(b)] BY DEF Last
  <2>4. a # <<>> => Head(a) = a[1] BY <1>1
  <2>5. (b = <<>> => Len(b) = 0) /\ (a = <<>> => Len(a) = 0) OBVIOUS
  <2> QED BY <2>1, <2>2, <2>3, <2>4, <2>5 DEF needsLeadingSpace, needsTrailingSpace
<1> HIDE DEF lead, trail, cue, a, b
<1>5. u \in Seq(Chars) /\ Joined(u, b, lead) BY <1>1, <1>3, ConcatJoins
<1> HIDE DEF u
<1>6. w \in Seq(Chars) /\ Joined(w, u, cue) BY <1>3, <1>5, ConcatJoins
<1> HIDE DEF w
<1>7. z \in Seq(Chars) /\ Joined(z, w, trail) BY <1>3, <1>6, ConcatJoins
<1> HIDE DEF z
<1>8. x \in Seq(Chars) /\ Joined(x, z, a) BY <1>1, <1>7, ConcatJoins
<1> HIDE DEF x
<1>9. Len(a) \in Nat /\ Len(b) \in Nat BY <1>1
<1>10. /\ Len(u) = c - 1 /\ Len(w) = c /\ Len(z) = d /\ Len(x) = d + Len(a)
       /\ c \in Nat /\ d \in Nat /\ c \in {Len(b) + 1, Len(b) + 2} /\ d \in {c, c + 1}
  <2>1. /\ Len(u) = Len(b) + Len(lead) /\ Len(w) = Len(u) + Len(cue)
        /\ Len(z) = Len(w) + Len(trail) /\ Len(x) = Len(z) + Len(a)
    BY <1>5, <1>6, <1>7, <1>8 DEF Joined
  <2>2. Len(lead) \in {0, 1} /\ Len(trail) \in {0, 1} /\ Len(cue) = 1 BY <1>3
  <2>3. Len(u) = c - 1 /\ Len(w) = c BY <2>1, <2>2, <1>9
  <2>4. Len(z) = d /\ Len(x) = d + Len(a) BY <2>1, <2>3
  <2>5. c \in Nat /\ c \in {Len(b) + 1, Len(b) + 2}
    <3>1. CASE Len(lead) = 0 BY <3>1, <1>9
    <3>2. CASE Len(lead) = 1 BY <3>2, <1>9
    <3> QED BY <3>1, <3>2, <2>2
  <2>6. d \in Nat /\ d \in {c, c + 1}
    <3> HIDE DEF c
    <3>1. CASE Len(trail) = 0 BY <3>1, <2>5
    <3>2. CASE Len(trail) = 1 BY <3>2, <2>5
    <3> QED BY <3>1, <3>2, <2>2
  <2> HIDE DEF c, d
  <2> QED BY <2>3, <2>4, <2>5, <2>6
<1>11. \A i \in 1..c : x[i] = w[i]
  <2>1. \A i \in 1..c : i \in 1..(Len(z) + Len(a)) /\ i <= Len(z) /\ i <= Len(w)
                        /\ i \in 1..(Len(w) + Len(trail))
    BY <1>3, <1>9, <1>10
  <2> QED BY <2>1, <1>7, <1>8 DEF Joined
<1>12. x[c] = "cue"
  <2>1. c \in 1..(Len(u) + Len(cue)) /\ ~(c <= Len(u)) /\ c - Len(u) = 1 /\ c \in 1..c
    BY <1>3, <1>9, <1>10
  <2> QED BY <2>1, <1>3, <1>6, <1>11 DEF Joined
<1>13. \A i \in 1..(c - 1) : x[i] = u[i]
  <2>1. \A i \in 1..(c - 1) : i \in 1..c /\ i \in 1..(Len(u) + Len(cue)) /\ i <= Len(u)
    BY <1>3, <1>10
  <2> QED BY <2>1, <1>6, <1>11 DEF Joined
<1>14. \A i \in 1..Len(b) : x[i] = b[i]
  <2>1. \A i \in 1..Len(b) : i \in 1..(c - 1) /\ i \in 1..(Len(b) + Len(lead)) /\ i <= Len(b)
    BY <1>3, <1>9, <1>10
  <2> QED BY <2>1, <1>5, <1>13 DEF Joined
<1>15. \A i \in 1..Len(a) : x[d + i] = a[i]
  <2>1. \A i \in 1..Len(a) : d + i \in 1..(Len(z) + Len(a)) /\ ~(d + i <= Len(z))
                             /\ d + i - Len(z) = i
    BY <1>9, <1>10
  <2> QED BY <2>1, <1>8 DEF Joined
<1>16. c = 1 \/ x[c - 1] = Space
  <2>1. CASE Len(lead) = 0
    <3>1. c = Len(b) + 1 BY <2>1, <1>9
    <3>2. Len(b) # 0 => c - 1 = Len(b) /\ Len(b) \in 1..Len(b) BY <3>1, <1>9
    <3> QED BY <3>1, <3>2, <2>1, <1>4, <1>9, <1>14
  <2>2. CASE Len(lead) = 1
    <3>1. c - 1 = Len(b) + 1 /\ c - 1 \in 1..(c - 1) /\ c - 1 \in 1..(Len(b) + Len(lead))
          /\ ~(c - 1 <= Len(b)) /\ c - 1 - Len(b) = 1
      BY <2>2, <1>9
    <3> QED BY <3>1, <2>2, <1>3, <1>5, <1>13 DEF Joined
  <2> QED BY <2>1, <2>2, <1>3
<1>17. c = Len(x) \/ x[c + 1] = Space
  <2>1. CASE Len(trail) = 0
    <3>1. d = c BY <2>1, <1>10
    <3>2. Len(a) # 0 => 1 \in 1..Len(a) BY <1>9
    <3> QED BY <3>1, <3>2, <2>1, <1>4, <1>10, <1>15
  <2>2. CASE Len(trail) = 1
    <3>1. /\ c + 1 = d /\ c + 1 \in 1..(Len(z) + Len(a)) /\ c + 1 <= Len(z)
          /\ c + 1 \in 1..(Len(w) + Len(trail)) /\ ~(c + 1 <= Len(w)) /\ c + 1 - Len(w) = 1
      BY <2>2, <1>9, <1>10
    <3>2. x[c + 1] = z[c + 1] BY <3>1, <1>8 DEF Joined
    <3>3. z[c + 1] = trail[1] BY <3>1, <1>7 DEF Joined
    <3> QED BY <3>2, <3>3, <2>2, <1>3
  <2> QED BY <2>1, <2>2, <1>3
<1> HIDE DEF c, d
<1>18. CueBetween(x, b, a, c, d)
  <2>1. x[c] # Space BY <1>12 DEF Space
  <2> QED BY <2>1, <1>10, <1>14, <1>15, <1>16, <1>17 DEF CueBetween
<1>19. r.text = x /\ r.caret = c BY <1>2 DEF x, z, w, u, c
<1>20. d = Len(x) - Len(a) BY <1>9, <1>10
<1> HIDE DEF r
<1> QED BY <1>8, <1>10, <1>12, <1>18, <1>19, <1>20 DEF r, a, b, Joined

-----------------------------------------------------------------------------
(* What the user types.                                                    *)

\* Typing keeps the types.
LEMMA TypingStarts == TypingInit => TypingInv
BY DEF TypingInit, TypingInv

LEMMA TypingStep ==
  TypingInv /\ [TypingNext]_typingVars => TypingInv'
<1> SUFFICES ASSUME TypingInv, [TypingNext]_typingVars PROVE TypingInv' OBVIOUS
<1>1. Len(prompt) \in Nat BY DEF TypingInv
<1>2. CASE UNCHANGED typingVars BY <1>2 DEF TypingInv, typingVars, selection
<1>3. ASSUME NEW c \in Chunks, TypeTemplate(c) PROVE TypingInv'
  BY <1>3, AppendProperties DEF TypingInv, TypeTemplate, selection
<1>4. ASSUME NEW c \in Letters, TypeScratch(c) PROVE TypingInv'
  BY <1>4, AppendProperties DEF TypingInv, TypeScratch, selection
<1>5. ASSUME NEW c \in {"w", Space}, TypePrompt(c) PROVE TypingInv'
  <2>1. c \in Chars BY DEF Chars
  <2> QED BY <1>1, <1>5, <2>1, AppendProperties DEF TypingInv, TypePrompt
<1>6. ASSUME NEW i \in {NotFinite} \cup -1..(Len(prompt) + 1),
             NEW j \in {NotFinite} \cup -1..(Len(prompt) + 1), Select(i, j)
      PROVE  TypingInv'
  BY <1>1, <1>6 DEF TypingInv, Select
<1>7. ASSUME Chip PROVE TypingInv'
  <2> DEFINE r == insertTokenAtSelection(<<"cue">>)
  <2>1. r.text \in Seq(Chars) /\ r.caret \in Nat BY CueInserted
  <2> HIDE DEF r
  <2>2. prompt' = r.text /\ selectionStart' = r.caret /\ selectionEnd' = r.caret
        /\ UNCHANGED <<template, scratch>>
    BY <1>7 DEF Chip, r
  <2> QED BY <2>1, <2>2 DEF TypingInv
<1> QED BY <1>2, <1>3, <1>4, <1>5, <1>6, <1>7 DEF TypingNext

(* What the user types and selects has the types of the fields             *)
(* (Composer.tsx, cameraPresets.ts).                                       *)
THEOREM TypingCorrect == TypingSpec => []TypingInv
<1>1. TypingInit => TypingInv BY TypingStarts
<1> QED BY <1>1, TypingStep, PTL DEF TypingSpec

\* The characters of texts and values.
Alphabet == STRING \cup {Space, "x", "a", "{", "}"}

\* The texts and values of the run are among those of the theorems above.
LEMMA TypedText ==
  ASSUME TypingInv
  PROVE  Text \in Seq(Alphabet) /\ Assignments \subseteq Fillings(Text, Alphabet)
<1>1. template \in Seq(Seq(Alphabet))
  <2>1. Chunks \subseteq Seq(Alphabet)
    <3>1. STRING \subseteq Alphabet BY DEF Alphabet
    <3> QED BY <3>1, TextsAssumption, SeqMonotonic
  <2> QED BY <2>1, SeqMonotonic DEF TypingInv
<1>2. Text \in Seq(Alphabet) BY <1>1, FlattenType DEF Text
<1> DEFINE values == {<<>>, <<Space>>, <<"x">>, <<"{", "{", "a", "}", "}">>}
           some == {Unset} \cup {Given(x) : x \in values}
           all == {Unset} \cup {Given(x) : x \in Seq(Alphabet)}
<1>3. values \subseteq Seq(Alphabet)
  <2>1. \A S : \A a, b, c, d, e \in S : /\ <<>> \in Seq(S) /\ <<a>> \in Seq(S)
                                        /\ <<a, b, c, d, e>> \in Seq(S)
    OBVIOUS
  <2>2. /\ Space \in Alphabet /\ "x" \in Alphabet /\ "a" \in Alphabet
        /\ "{" \in Alphabet /\ "}" \in Alphabet
    BY DEF Alphabet
  <2> QED BY <2>1, <2>2, ZenonT(60)
<1>4. some \subseteq all BY <1>3
<1>5. /\ Assignments = [VariablesOf(Text) -> some]
      /\ Fillings(Text, Alphabet) = [VariablesOf(Text) -> all]
  BY DEF Assignments, Fillings
<1> HIDE DEF some, all
<1>6. [VariablesOf(Text) -> some] \subseteq [VariablesOf(Text) -> all] BY <1>4
<1> QED BY <1>2, <1>5, <1>6

(* Whatever the user has typed, the check before submitting and the        *)
(* rendering afterwards agree on every template (findMissingVariables,     *)
(* renderTemplate).                                                        *)
THEOREM CheckAndRenderingAgree == TypingSpec => []RenderAgreesWithCheck
<1>1. TypingInv => RenderAgreesWithCheck
  BY TypedText, CheckAgreesOnEveryText DEF RenderAgreesWithCheck
<1> QED BY <1>1, TypingCorrect, PTL

(* Whatever the user has typed, rendering fills in the placeholders and    *)
(* changes nothing else (renderTemplate).                                  *)
THEOREM RenderingFillsIn == TypingSpec => []RenderFillsPlaceholders
<1>1. TypingInv => RenderFillsPlaceholders
  <2> SUFFICES ASSUME TypingInv, NEW v \in Assignments, "text" \in DOMAIN renderTemplate(Text, v)
               PROVE  renderTemplate(Text, v).text = FilledIn(Text, v)
    BY DEF RenderFillsPlaceholders
  <2> QED BY TypedText, PlaceholdersFilledInEveryText
<1> QED BY <1>1, TypingCorrect, PTL

\* Around the cue the text stays as it was.
LEMMA CueParts ==
  ASSUME NEW x \in Seq(Chars), NEW b \in Seq(Chars), NEW a \in Seq(Chars), NEW c, NEW d,
         CueBetween(x, b, a, c, d)
  PROVE  SubSeq(x, 1, Len(b)) = b /\ SubSeq(x, d + 1, Len(x)) = a
<1>1. Len(a) \in Nat /\ Len(b) \in Nat /\ Len(x) \in Nat /\ c \in Nat /\ d \in Nat
      /\ d >= Len(b) + 1 /\ Len(x) = d + Len(a)
  BY DEF CueBetween
<1>2. \A i \in 1..Len(x) : x[i] \in Chars OBVIOUS
<1>3. SubSeq(x, 1, Len(b)) = b
  <2> DEFINE s == SubSeq(x, 1, Len(b))
  <2>1. \A i \in 1..Len(b) : x[i] \in Chars BY <1>1, <1>2
  <2>2. /\ s \in Seq(Chars) /\ Len(s) = IF 1 <= Len(b) THEN Len(b) - 1 + 1 ELSE 0
        /\ \A i \in 1..(Len(b) - 1 + 1) : s[i] = x[1 + i - 1]
    BY <1>1, <2>1, SubSeqProperties
  <2> HIDE DEF s
  <2>3. Len(s) = Len(b) /\ \A i \in 1..Len(b) : i \in 1..(Len(b) - 1 + 1) /\ 1 + i - 1 = i
    BY <1>1, <2>2
  <2>4. \A i \in 1..Len(b) : s[i] = b[i] BY <2>2, <2>3 DEF CueBetween
  <2>5. s = b BY <2>2, <2>3, <2>4, SeqEqual
  <2> QED BY <2>5 DEF s
<1>4. SubSeq(x, d + 1, Len(x)) = a
  <2> DEFINE s == SubSeq(x, d + 1, Len(x))
  <2>1. \A i \in (d + 1)..Len(x) : x[i] \in Chars BY <1>1, <1>2
  <2>2. /\ s \in Seq(Chars) /\ Len(s) = IF d + 1 <= Len(x) THEN Len(x) - (d + 1) + 1 ELSE 0
        /\ \A i \in 1..(Len(x) - (d + 1) + 1) : s[i] = x[d + 1 + i - 1]
    BY <1>1, <2>1, SubSeqProperties
  <2> HIDE DEF s
  <2>3. Len(s) = Len(a)
        /\ \A i \in 1..Len(a) : i \in 1..(Len(x) - (d + 1) + 1) /\ d + 1 + i - 1 = d + i
    BY <1>1, <2>2
  <2>4. \A i \in 1..Len(a) : s[i] = a[i] BY <2>2, <2>3 DEF CueBetween
  <2>5. s = a BY <2>2, <2>3, <2>4, SeqEqual
  <2> QED BY <2>5 DEF s
<1> QED BY <1>3, <1>4

(* A camera cue becomes a word of its own wherever the selection is, and   *)
(* what is before and behind it stays (insertTokenAtSelection).            *)
THEOREM CuesAreWords == TypingSpec => ChipInsertsAWord
<1> DEFINE d == Len(prompt') - Len(After)
           Goal == /\ SubSeq(prompt', 1, Len(Before)) = Before
                   /\ SubSeq(prompt', d + 1, Len(prompt')) = After
                   /\ prompt'[selectionStart'] = "cue" /\ selectionEnd' = selectionStart'
                   /\ WordsOf(prompt') = WordsOf(Before) \cup {<<selectionStart', selectionStart'>>}
                                           \cup MovedBy(d, WordsOf(After))
<1>1. TypingInv /\ Chip => Goal
  <2> SUFFICES ASSUME TypingInv, Chip PROVE Goal OBVIOUS
  <2> DEFINE r == insertTokenAtSelection(<<"cue">>)
             e == Len(r.text) - Len(After)
  <2>1. /\ r.text \in Seq(Chars) /\ r.caret \in Nat
        /\ CueBetween(r.text, Before, After, r.caret, e) /\ r.text[r.caret] = "cue"
    BY CueInserted
  <2>2. Before \in Seq(Chars) /\ After \in Seq(Chars) BY EndsInText
  <2>3. prompt' = r.text /\ selectionStart' = r.caret /\ selectionEnd' = r.caret BY DEF Chip
  <2>4. d = e BY <2>3
  <2> HIDE DEF r, e, d
  <2>5. SubSeq(r.text, 1, Len(Before)) = Before /\ SubSeq(r.text, e + 1, Len(r.text)) = After
    BY <2>1, <2>2, CueParts
  <2>6. WordsOf(r.text) = WordsOf(Before) \cup {<<r.caret, r.caret>>} \cup MovedBy(e, WordsOf(After))
    BY <2>1, <2>2, WordsAroundCue
  <2> QED BY <2>1, <2>3, <2>4, <2>5, <2>6
<1>2. TypingInv => [Chip => Goal]_typingVars BY <1>1
<1>3. TypingSpec => [][Chip => Goal]_typingVars BY <1>2, TypingCorrect, PTL
<1> QED BY <1>3 DEF ChipInsertsAWord

-----------------------------------------------------------------------------
(* Searching: what LIKE matches (promptRepo.ts).                           *)

\* What Matched is at i, given what it is behind i.
Matching(t, p, m, i) ==
  IF i > Len(p) THEN {Len(t) + 1}
  ELSE CASE p[i] = "%" -> {j \in 1..(Len(t) + 1) : \E k \in m[i + 1] : j <= k}
         [] p[i] = "_" -> {j \in DOMAIN t : j + 1 \in m[i + 1]}
         [] p[i] = "\\" -> {j \in DOMAIN t : /\ i < Len(p) /\ Fold(p[i + 1]) = Fold(t[j])
                                           /\ j + 1 \in m[i + 2]}
         [] OTHER -> {j \in DOMAIN t : Fold(p[i]) = Fold(t[j]) /\ j + 1 \in m[i + 1]}

\* "%", "_" and a character, before what the pattern matches from s on.
AnyFrom(t, s) == {j \in 1..(Len(t) + 1) : \E k \in s : j <= k}
OneFrom(t, s) == {j \in DOMAIN t : j + 1 \in s}
CharFrom(t, c, s) == {j \in DOMAIN t : Fold(c) = Fold(t[j]) /\ j + 1 \in s}

Ordinary(c) == c \notin {"%", "_", "\\"}

\* Matching by the first character of the rest of the pattern.
LEMMA MatchingEnd ==
  ASSUME NEW t, NEW p, NEW m, NEW i, i > Len(p)
  PROVE  Matching(t, p, m, i) = {Len(t) + 1}
BY DEF Matching

LEMMA MatchingAny ==
  ASSUME NEW t, NEW p, NEW m, NEW i, ~(i > Len(p)), p[i] = "%"
  PROVE  Matching(t, p, m, i) = AnyFrom(t, m[i + 1])
BY DEF Matching, AnyFrom

LEMMA MatchingOne ==
  ASSUME NEW t, NEW p, NEW m, NEW i, ~(i > Len(p)), p[i] = "_"
  PROVE  Matching(t, p, m, i) = OneFrom(t, m[i + 1])
BY DEF Matching, OneFrom

LEMMA MatchingEscape ==
  ASSUME NEW t, NEW p, NEW m, NEW i, ~(i > Len(p)), p[i] = "\\"
  PROVE  /\ i < Len(p) => Matching(t, p, m, i) = CharFrom(t, p[i + 1], m[i + 2])
         /\ ~(i < Len(p)) => Matching(t, p, m, i) = {}
BY DEF Matching, CharFrom

LEMMA MatchingChar ==
  ASSUME NEW t, NEW p, NEW m, NEW i, ~(i > Len(p)), Ordinary(p[i])
  PROVE  Matching(t, p, m, i) = CharFrom(t, p[i], m[i + 1])
BY DEF Matching, CharFrom, Ordinary

LEMMA MatchingType ==
  ASSUME NEW C, NEW t \in Seq(C), NEW p, NEW m, NEW i
  PROVE  Matching(t, p, m, i) \in SUBSET (1..(Len(t) + 1))
<1>0. Len(t) \in Nat /\ DOMAIN t \subseteq 1..(Len(t) + 1) OBVIOUS
<1>s. /\ \A s : AnyFrom(t, s) \subseteq 1..(Len(t) + 1)
      /\ \A s : OneFrom(t, s) \subseteq 1..(Len(t) + 1)
      /\ \A c, s : CharFrom(t, c, s) \subseteq 1..(Len(t) + 1)
  BY <1>0 DEF AnyFrom, OneFrom, CharFrom
<1>1. CASE i > Len(p) BY <1>0, <1>1, MatchingEnd
<1>2. CASE ~(i > Len(p))
  <2>1. CASE p[i] = "%" BY <1>s, <1>2, <2>1, MatchingAny
  <2>2. CASE p[i] = "_"
    <3>1. Matching(t, p, m, i) = OneFrom(t, m[i + 1]) BY <1>2, <2>2, MatchingOne
    <3> QED BY <1>s, <3>1
  <2>3. CASE p[i] = "\\" BY <1>s, <1>2, <2>3, MatchingEscape
  <2>4. CASE Ordinary(p[i]) BY <1>s, <1>2, <2>4, MatchingChar
  <2> QED BY <2>1, <2>2, <2>3, <2>4 DEF Ordinary
<1> QED BY <1>1, <1>2

\* From i and from k on, p and q go on alike, and so do m and u behind.
Alike(p, q, i, k, m, u) ==
  /\ i \in Nat \ {0} /\ k \in Nat \ {0} /\ i - Len(p) = k - Len(q)
  /\ \A l \in 0..(Len(p) - i) : p[i + l] = q[k + l]
  /\ \A l \in 1..(Len(p) + 1 - i) : m[i + l] = u[k + l]

\* Matching looks only at the rest of the pattern.
LEMMA MatchingSame ==
  ASSUME NEW C, NEW t, NEW p \in Seq(C), NEW q \in Seq(C), NEW i, NEW k, NEW m, NEW u,
         Alike(p, q, i, k, m, u)
  PROVE  Matching(t, p, m, i) = Matching(t, q, u, k)
<1>0. /\ Len(p) \in Nat /\ Len(q) \in Nat /\ i \in Nat \ {0} /\ k \in Nat \ {0}
      /\ i - Len(p) = k - Len(q)
      /\ \A l \in 0..(Len(p) - i) : p[i + l] = q[k + l]
      /\ \A l \in 1..(Len(p) + 1 - i) : m[i + l] = u[k + l]
  BY DEF Alike
<1>1. CASE i > Len(p)
  <2>1. k > Len(q) BY <1>0, <1>1
  <2> QED BY <1>1, <2>1, MatchingEnd
<1>2. CASE ~(i > Len(p))
  <2>1. ~(k > Len(q)) BY <1>0, <1>2
  <2>2. p[i] = q[k] /\ m[i + 1] = u[k + 1]
    <3>1. 0 \in 0..(Len(p) - i) /\ 1 \in 1..(Len(p) + 1 - i) /\ i + 0 = i /\ k + 0 = k
      BY <1>0, <1>2
    <3>2. p[i + 0] = q[k + 0] BY <1>0, <3>1
    <3> QED BY <1>0, <3>1, <3>2
  <2>3. (i < Len(p) <=> k < Len(q)) /\ (i < Len(p) => p[i + 1] = q[k + 1] /\ m[i + 2] = u[k + 2])
    <3>1. i < Len(p) <=> k < Len(q) BY <1>0
    <3>2. i < Len(p) => 1 \in 0..(Len(p) - i) /\ 2 \in 1..(Len(p) + 1 - i) BY <1>0
    <3> QED BY <1>0, <3>1, <3>2
  <2>4. CASE p[i] = "%"
    <3>1. Matching(t, p, m, i) = AnyFrom(t, m[i + 1]) BY <1>2, <2>4, MatchingAny
    <3>2. q[k] = "%" BY <2>2, <2>4
    <3>3. Matching(t, q, u, k) = AnyFrom(t, u[k + 1]) BY <2>1, <3>2, MatchingAny
    <3> QED BY <2>2, <3>1, <3>3
  <2>5. CASE p[i] = "_"
    <3>1. Matching(t, p, m, i) = OneFrom(t, m[i + 1]) BY <1>2, <2>5, MatchingOne
    <3>2. q[k] = "_" BY <2>2, <2>5
    <3>3. Matching(t, q, u, k) = OneFrom(t, u[k + 1]) BY <2>1, <3>2, MatchingOne
    <3> QED BY <2>2, <3>1, <3>3
  <2>6. CASE p[i] = "\\"
    <3>1. CASE i < Len(p)
      <4>1. Matching(t, p, m, i) = CharFrom(t, p[i + 1], m[i + 2])
        BY <1>2, <2>6, <3>1, MatchingEscape
      <4>2. Matching(t, q, u, k) = CharFrom(t, q[k + 1], u[k + 2])
        <5>1. q[k] = "\\" /\ k < Len(q) BY <2>2, <2>3, <2>6, <3>1
        <5> QED BY <2>1, <5>1, MatchingEscape
      <4> QED BY <4>1, <4>2, <2>3, <3>1
    <3>2. CASE ~(i < Len(p))
      <4>1. Matching(t, p, m, i) = {} BY <1>2, <2>6, <3>2, MatchingEscape
      <4>2. Matching(t, q, u, k) = {} BY <2>1, <2>2, <2>3, <2>6, <3>2, MatchingEscape
      <4> QED BY <4>1, <4>2
    <3> QED BY <3>1, <3>2
  <2>7. CASE Ordinary(p[i]) BY <1>2, <2>1, <2>2, <2>7, MatchingChar
  <2> QED BY <2>4, <2>5, <2>6, <2>7 DEF Ordinary
<1> QED BY <1>1, <1>2

\* Matched is what its recursion says.
LEMMA MatchedFacts ==
  ASSUME NEW C, NEW t \in Seq(C), NEW p \in Seq(C)
  PROVE  \A i \in 1..(Len(p) + 1) :
           /\ Matched(t, p)[i] = Matching(t, p, Matched(t, p), i)
           /\ Matched(t, p)[i] \in SUBSET (1..(Len(t) + 1))
<1> DEFINE n == Len(p) + 1
           D == 1..n
           V == SUBSET (1..(Len(t) + 1))
           rank == [i \in D |-> n - i]
           G == [i \in D |-> [f \in [D -> V] |-> Matching(t, p, f, i)]]
           IsMatched(m) == m = [i \in D |-> Matching(t, p, m, i)]
<1>0. n \in Nat /\ rank \in [D -> Nat] /\ V # {}
      /\ \A i, k \in D : rank[k] < rank[i] <=> k > i
  <2>1. n \in Nat OBVIOUS
  <2>2. \A i \in D : n - i \in Nat BY <2>1
  <2>3. rank \in [D -> Nat] BY <2>2
  <2>4. \A i, k \in D : rank[k] < rank[i] <=> k > i BY <2>1
  <2>5. V # {} OBVIOUS
  <2> HIDE DEF V, rank, D, n
  <2> QED BY <2>1, <2>3, <2>4, <2>5
<1>1. G \in [D -> [[D -> V] -> V]]
  <2>1. \A i \in D, f \in [D -> V] : Matching(t, p, f, i) \in V BY MatchingType
  <2> HIDE DEF V, D
  <2> QED BY <2>1
<1>2. ASSUME NEW i \in D, NEW f \in [D -> V], NEW h \in [D -> V],
             \A k \in D : rank[k] < rank[i] => f[k] = h[k]
      PROVE  G[i][f] = G[i][h]
  <2>1. \A k \in D : k > i => f[k] = h[k] BY <1>0, <1>2
  <2>2. \A l \in 1..(Len(p) + 1 - i) : f[i + l] = h[i + l]
    <3>1. \A l \in 1..(Len(p) + 1 - i) : i + l \in D /\ i + l > i BY <1>0
    <3> QED BY <3>1, <2>1
  <2>3. i \in Nat \ {0} /\ i - Len(p) = i - Len(p)
        /\ \A l \in 0..(Len(p) - i) : p[i + l] = p[i + l]
    OBVIOUS
  <2>4. Alike(p, p, i, i, f, h) BY <2>2, <2>3 DEF Alike
  <2>5. Matching(t, p, f, i) = Matching(t, p, h, i) BY <2>4, MatchingSame
  <2> HIDE DEF D, V
  <2> QED BY <2>5
<1>3. LooksDown(D, rank, V, G)
  <2> HIDE DEF D, V, G, rank
  <2> QED BY <1>0, <1>1, <1>2 DEF LooksDown
<1>4. PICK f \in [D -> V] : \A i \in D : f[i] = G[i][f]
  <2> HIDE DEF D, V, G, rank
  <2> QED BY <1>3, RecursionByRank
<1>5. IsMatched(f)
  <2> HIDE DEF D, V
  <2>1. \A i \in D : f[i] = Matching(t, p, f, i) BY <1>4
  <2>2. f = [i \in D |-> f[i]] OBVIOUS
  <2> QED BY <2>1, <2>2
<1>6. Matched(t, p) = CHOOSE m : IsMatched(m)
  BY DEF Matched, Matching
<1>7. IsMatched(Matched(t, p))
  <2> HIDE DEF IsMatched
  <2> QED BY <1>5, <1>6
<1> DEFINE m == Matched(t, p)
<1>8. m = [i \in D |-> Matching(t, p, m, i)] BY <1>7
<1> HIDE DEF m
<1>9. \A i \in D : m[i] = Matching(t, p, m, i)
  <2> HIDE DEF D
  <2> QED BY <1>8
<1> QED BY <1>9, MatchingType DEF m

\* Where the rest of t, from a position, matches the whole pattern.
Starts(t, p) == Matched(t, p)[1]

\* One more character in front of the pattern shifts what is matched behind it.
LEMMA MatchedBehind ==
  ASSUME NEW C, NEW t \in Seq(C), NEW x \in C, NEW p \in Seq(C)
  PROVE  \A i \in 1..(Len(p) + 1) : Matched(t, <<x>> \o p)[i + 1] = Matched(t, p)[i]
<1> DEFINE q == <<x>> \o p
           n == Len(p) + 1
           Same(i) == Matched(t, q)[i + 1] = Matched(t, p)[i]
           S == {m \in Nat : \A i \in 1..n : n - i < m => Same(i)}
<1>0. q \in Seq(C) /\ Len(q) = n /\ n \in Nat /\ Len(p) \in Nat
      /\ \A k \in 1..Len(p) : q[k + 1] = p[k]
  BY ConsProperties
<1> HIDE DEF q
<1>1. 0 \in S BY <1>0
<1>2. ASSUME NEW m \in Nat, m \in S PROVE m + 1 \in S
  <2> SUFFICES ASSUME NEW i \in 1..n, n - i < m + 1 PROVE Same(i) OBVIOUS
  <2>1. \A k \in 1..n : k > i => Same(k) BY <1>2, <1>0
  <2>2. Matched(t, p)[i] = Matching(t, p, Matched(t, p), i) BY MatchedFacts
  <2>3. Matched(t, q)[i + 1] = Matching(t, q, Matched(t, q), i + 1)
    <3>1. i + 1 \in 1..(Len(q) + 1) BY <1>0
    <3> QED BY <3>1, <1>0, MatchedFacts
  <2>4. \A l \in 0..(Len(p) - i) : p[i + l] = q[(i + 1) + l]
    <3>1. \A l \in 0..(Len(p) - i) : i + l \in 1..Len(p) /\ (i + 1) + l = (i + l) + 1 BY <1>0
    <3> QED BY <3>1, <1>0
  <2>5. \A l \in 1..(Len(p) + 1 - i) : Matched(t, p)[i + l] = Matched(t, q)[(i + 1) + l]
    <3>1. \A l \in 1..(Len(p) + 1 - i) : i + l \in 1..n /\ i + l > i /\ (i + 1) + l = (i + l) + 1
      BY <1>0
    <3> QED BY <3>1, <2>1
  <2>6. i - Len(p) = (i + 1) - Len(q) /\ i \in Nat \ {0} /\ i + 1 \in Nat \ {0} BY <1>0
  <2>7. Matching(t, p, Matched(t, p), i) = Matching(t, q, Matched(t, q), i + 1)
    <3>1. Alike(p, q, i, i + 1, Matched(t, p), Matched(t, q)) BY <2>4, <2>5, <2>6 DEF Alike
    <3> QED BY <1>0, <3>1, MatchingSame
  <2> QED BY <2>2, <2>3, <2>7
<1>3. \A m \in Nat : m \in S BY <1>1, <1>2, InductionOn
<1>4. \A i \in 1..n : n - i < n BY <1>0
<1>5. n \in S BY <1>0, <1>3
<1>6. \A i \in 1..n : Same(i) BY <1>4, <1>5
<1> QED BY <1>6 DEF q

\* How Starts follows the pattern from character to character.
LEMMA StartsMatching ==
  ASSUME NEW C, NEW t \in Seq(C), NEW p \in Seq(C)
  PROVE  /\ Starts(t, p) = Matching(t, p, Matched(t, p), 1)
         /\ Starts(t, p) \in SUBSET (1..(Len(t) + 1))
<1>1. 1 \in 1..(Len(p) + 1) OBVIOUS
<1> QED BY <1>1, MatchedFacts DEF Starts

LEMMA StartsNothing ==
  ASSUME NEW C, NEW t \in Seq(C), NEW p \in Seq(C), p = <<>>
  PROVE  Starts(t, p) = {Len(t) + 1}
<1>1. 1 > Len(p) OBVIOUS
<1>2. Matching(t, p, Matched(t, p), 1) = {Len(t) + 1} BY <1>1, MatchingEnd
<1> QED BY <1>2, StartsMatching

LEMMA StartsFirst ==
  ASSUME NEW C, NEW t \in Seq(C), NEW x \in C, NEW p \in Seq(C)
  PROVE  /\ x = "%" => Starts(t, <<x>> \o p) = AnyFrom(t, Starts(t, p))
         /\ Ordinary(x) => Starts(t, <<x>> \o p) = CharFrom(t, x, Starts(t, p))
<1> DEFINE q == <<x>> \o p
           m == Matched(t, q)
<1>0. q \in Seq(C) /\ Len(q) = Len(p) + 1 /\ Len(p) \in Nat /\ q[1] = x
  BY ConsProperties
<1>1. m[1 + 1] = Starts(t, p)
  <2>1. 1 \in 1..(Len(p) + 1) BY <1>0
  <2> QED BY <2>1, MatchedBehind DEF Starts
<1> HIDE DEF q
<1>2. Starts(t, q) = Matching(t, q, m, 1) BY <1>0, StartsMatching
<1>3. ~(1 > Len(q)) BY <1>0
<1> HIDE DEF m
<1>4. x = "%" => Starts(t, q) = AnyFrom(t, Starts(t, p))
  BY <1>0, <1>1, <1>2, <1>3, MatchingAny
<1>5. Ordinary(x) => Starts(t, q) = CharFrom(t, x, Starts(t, p))
  BY <1>0, <1>1, <1>2, <1>3, MatchingChar
<1> QED BY <1>4, <1>5 DEF q

LEMMA StartsEscaped ==
  ASSUME NEW C, NEW t \in Seq(C), NEW y \in C, NEW r \in Seq(C), "\\" \in C
  PROVE  Starts(t, <<"\\">> \o (<<y>> \o r)) = CharFrom(t, y, Starts(t, r))
<1> DEFINE p == <<y>> \o r
           q == <<"\\">> \o p
           m == Matched(t, q)
<1>1. p \in Seq(C) /\ Len(p) = Len(r) + 1 /\ p[1] = y /\ Len(r) \in Nat BY ConsProperties
<1> HIDE DEF p
<1>2. /\ q \in Seq(C) /\ Len(q) = Len(p) + 1 /\ q[1] = "\\"
      /\ \A k \in 1..Len(p) : q[k + 1] = p[k]
  BY <1>1, ConsProperties
<1>3. q[1 + 1] = y /\ 1 < Len(q) /\ ~(1 > Len(q))
  <2>1. 1 \in 1..Len(p) BY <1>1
  <2> QED BY <2>1, <1>1, <1>2
<1>4. m[1 + 2] = Starts(t, r)
  <2>1. 2 \in 1..(Len(p) + 1) /\ 2 + 1 = 1 + 2 BY <1>1
  <2>2. m[2 + 1] = Matched(t, p)[2] BY <1>1, <2>1, MatchedBehind
  <2>3. 1 \in 1..(Len(r) + 1) /\ 1 + 1 = 2 BY <1>1
  <2>4. Matched(t, <<y>> \o r)[1 + 1] = Matched(t, r)[1] BY <2>3, MatchedBehind
  <2> QED BY <2>1, <2>2, <2>3, <2>4 DEF Starts, p
<1> HIDE DEF q
<1>5. Starts(t, q) = Matching(t, q, m, 1) BY <1>2, StartsMatching
<1> HIDE DEF m
<1>6. Matching(t, q, m, 1) = CharFrom(t, q[1 + 1], m[1 + 2]) BY <1>2, <1>3, MatchingEscape
<1> QED BY <1>3, <1>4, <1>5, <1>6 DEF q, p

EscapedChar(c) == IF c \in {"\\", "%", "_"} THEN <<"\\", c>> ELSE <<c>>

LEMMA EscapedCharType ==
  ASSUME NEW C, "\\" \in C
  PROVE  \A c \in C : EscapedChar(c) \in Seq(C)
<1>1. \A a, b \in C : <<a>> \in Seq(C) /\ <<a, b>> \in Seq(C) OBVIOUS
<1>2. ASSUME NEW c \in C PROVE EscapedChar(c) \in Seq(C)
  <2> DEFINE special == c \in {"\\", "%", "_"}
  <2>1. EscapedChar(c) = IF special THEN <<"\\", c>> ELSE <<c>> BY DEF EscapedChar
  <2>2. <<"\\", c>> \in Seq(C) /\ <<c>> \in Seq(C) BY <1>1
  <2> HIDE DEF special
  <2> QED BY <2>1, <2>2
<1> QED BY <1>2

\* escapeLikeLiteral goes character by character.
LEMMA EscapeCons ==
  ASSUME NEW C, "\\" \in C, NEW x \in C, NEW q \in Seq(C)
  PROVE  /\ escapeLikeLiteral(q) \in Seq(C) /\ escapeLikeLiteral(<<>>) = <<>>
         /\ escapeLikeLiteral(<<x>> \o q) = EscapedChar(x) \o escapeLikeLiteral(q)
<1> DEFINE F == [c \in C |-> EscapedChar(c)]
<1>1. Maps(F, C, Seq(C)) BY EscapedCharType DEF Maps
<1>2. ASSUME NEW s \in Seq(C)
      PROVE  escapeLikeLiteral(s) = FlattenSeq(Mapped(F, s))
  <2>1. \A k \in DOMAIN s : s[k] \in C OBVIOUS
  <2>2. Mapped(F, s) = [k \in DOMAIN s |->
                         IF s[k] \in {"\\", "%", "_"} THEN <<"\\", s[k]>> ELSE <<s[k]>>]
    BY <2>1 DEF Mapped, EscapedChar
  <2> QED BY <2>2 DEF escapeLikeLiteral
<1>3. F[x] = EscapedChar(x) OBVIOUS
<1> HIDE DEF F
<1>4. <<x>> \o q \in Seq(C) /\ <<>> \in Seq(C) BY ConsProperties
<1>5. Mapped(F, q) \in Seq(Seq(C)) /\ Mapped(F, <<x>> \o q) = <<F[x]>> \o Mapped(F, q)
  <2>1. Mapped(F, q) \in Seq(Seq(C)) BY <1>1, MappedType
  <2>2. Mapped(F, <<x>> \o q) = <<F[x]>> \o Mapped(F, q)
    <3>1. MapsFirst(F, x, q) BY <1>1, MappedCons
    <3> QED BY <3>1 DEF MapsFirst
  <2> QED BY <2>1, <2>2
<1>6. FlattenSeq(<<F[x]>> \o Mapped(F, q)) = F[x] \o FlattenSeq(Mapped(F, q))
  <2>1. F[x] \in Seq(C) BY <1>1 DEF Maps
  <2> QED BY <2>1, <1>5, FlattenCons
<1>7. escapeLikeLiteral(q) \in Seq(C) BY <1>2, <1>5, FlattenType
<1>8. escapeLikeLiteral(<<>>) = <<>>
  <2>1. escapeLikeLiteral(<<>>) = FlattenSeq(Mapped(F, <<>>)) BY <1>2, <1>4
  <2> QED BY <2>1, MappedEmpty, FlattenEmpty
<1>9. escapeLikeLiteral(<<x>> \o q) = F[x] \o escapeLikeLiteral(q)
  BY <1>2, <1>4, <1>5, <1>6
<1> QED BY <1>3, <1>7, <1>8, <1>9

\* From position j on, t reads q, the case of its letters aside.
Spells(t, q, j) ==
  j + Len(q) <= Len(t) + 1 /\ \A k \in 1..Len(q) : Fold(t[j + k - 1]) = Fold(q[k])

\* An escaped character matches itself, whatever it is, and nothing but its case.
LEMMA EscapedCharStarts ==
  ASSUME NEW C, "\\" \in C, NEW t \in Seq(C), NEW x \in C, NEW r \in Seq(C)
  PROVE  Starts(t, EscapedChar(x) \o r) = CharFrom(t, x, Starts(t, r))
<1>1. CASE x \in {"\\", "%", "_"}
  <2>1. EscapedChar(x) \o r = <<"\\">> \o (<<x>> \o r)
    <3>1. EscapedChar(x) = <<"\\">> \o <<x>>
      <4>1. EscapedChar(x) = <<"\\", x>> BY <1>1 DEF EscapedChar
      <4>3. <<"\\", x>> = <<"\\">> \o <<x>> BY PairIsConcat
      <4> QED BY <4>1, <4>3
    <3>2. <<"\\">> \in Seq(C) /\ <<x>> \in Seq(C) OBVIOUS
    <3> QED BY <3>1, <3>2, ConcatAssociative
  <2> QED BY <2>1, StartsEscaped
<1>2. CASE x \notin {"\\", "%", "_"}
  <2>1. EscapedChar(x) = <<x>> /\ Ordinary(x) BY <1>2 DEF EscapedChar, Ordinary
  <2> QED BY <2>1, StartsFirst
<1> QED BY <1>1, <1>2

LEMMA SpellsCons ==
  ASSUME NEW C, NEW t \in Seq(C), NEW x \in C, NEW q \in Seq(C), NEW j \in Nat \ {0}
  PROVE  Spells(t, <<x>> \o q, j) <=> j \in DOMAIN t /\ Fold(t[j]) = Fold(x) /\ Spells(t, q, j + 1)
<1> DEFINE s == <<x>> \o q
<1>1. /\ Len(s) = Len(q) + 1 /\ s[1] = x /\ Len(q) \in Nat /\ Len(t) \in Nat
      /\ DOMAIN t = 1..Len(t)
      /\ \A k \in 1..Len(q) : s[k + 1] = q[k]
  BY ConsProperties
<1> HIDE DEF s
<1>2. ASSUME Spells(t, s, j) PROVE j \in DOMAIN t /\ Fold(t[j]) = Fold(x) /\ Spells(t, q, j + 1)
  <2>1. j + Len(s) <= Len(t) + 1 /\ \A k \in 1..Len(s) : Fold(t[j + k - 1]) = Fold(s[k])
    BY <1>2 DEF Spells
  <2>2. j \in DOMAIN t /\ (j + 1) + Len(q) <= Len(t) + 1 BY <1>1, <2>1
  <2>3. Fold(t[j]) = Fold(x)
    <3>1. 1 \in 1..Len(s) /\ j + 1 - 1 = j BY <1>1
    <3>2. Fold(t[j + 1 - 1]) = Fold(s[1]) BY <2>1, <3>1
    <3> QED BY <3>1, <3>2, <1>1
  <2>4. \A k \in 1..Len(q) : Fold(t[(j + 1) + k - 1]) = Fold(q[k])
    <3>1. \A k \in 1..Len(q) : k + 1 \in 1..Len(s) /\ j + (k + 1) - 1 = (j + 1) + k - 1
      BY <1>1
    <3> QED BY <3>1, <2>1, <1>1
  <2> QED BY <2>2, <2>3, <2>4 DEF Spells
<1>3. ASSUME j \in DOMAIN t, Fold(t[j]) = Fold(x), Spells(t, q, j + 1) PROVE Spells(t, s, j)
  <2>1. (j + 1) + Len(q) <= Len(t) + 1 /\ \A k \in 1..Len(q) : Fold(t[(j + 1) + k - 1]) = Fold(q[k])
    BY <1>3 DEF Spells
  <2>2. j + Len(s) <= Len(t) + 1 BY <1>1, <2>1
  <2>3. ASSUME NEW k \in 1..Len(s) PROVE Fold(t[j + k - 1]) = Fold(s[k])
    <3>1. CASE k = 1
      <4>1. j + k - 1 = j BY <3>1
      <4> QED BY <4>1, <3>1, <1>1, <1>3
    <3>2. CASE k # 1
      <4>1. k - 1 \in 1..Len(q) /\ (k - 1) + 1 = k /\ (j + 1) + (k - 1) - 1 = j + k - 1
        BY <1>1, <3>2
      <4> QED BY <4>1, <2>1, <1>1
    <3> QED BY <3>1, <3>2
  <2> QED BY <2>2, <2>3 DEF Spells
<1> QED BY <1>2, <1>3 DEF s

\* The escaped query matches where the text reads the query, and nowhere else.
LEMMA EscapedStarts ==
  ASSUME NEW C, "\\" \in C, NEW t \in Seq(C), NEW q \in Seq(C), NEW p \in Seq(C)
  PROVE  \A j \in 1..(Len(t) + 1) :
           j \in Starts(t, escapeLikeLiteral(q) \o p) <=>
             Spells(t, q, j) /\ j + Len(q) \in Starts(t, p)
<1> DEFINE Right(s) == \A j \in 1..(Len(t) + 1) :
                         j \in Starts(t, escapeLikeLiteral(s) \o p) <=>
                           Spells(t, s, j) /\ j + Len(s) \in Starts(t, p)
           S == {s \in Seq(C) : Right(s)}
<1>0. Len(t) \in Nat /\ DOMAIN t = 1..Len(t) OBVIOUS
<1>1. <<>> \in S
  <2>1. escapeLikeLiteral(<<>>) \o p = p
    <3>1. escapeLikeLiteral(<<>>) = <<>>
      <4>1. <<>> \in Seq(C) OBVIOUS
      <4> QED BY <4>1, EscapeCons
    <3> QED BY <3>1, ConcatEmptySeq
  <2>2. \A j \in 1..(Len(t) + 1) : Spells(t, <<>>, j) /\ j + Len(<<>>) = j BY <1>0 DEF Spells
  <2> HIDE DEF Right
  <2>3. Right(<<>>) BY <2>1, <2>2 DEF Right
  <2> QED BY <2>3
<1>2. ASSUME NEW x \in C, NEW s \in Seq(C), s \in S PROVE <<x>> \o s \in S
  <2> DEFINE u == <<x>> \o s
             r == escapeLikeLiteral(s) \o p
  <2>1. escapeLikeLiteral(s) \in Seq(C) /\ EscapedChar(x) \in Seq(C)
        /\ escapeLikeLiteral(u) = EscapedChar(x) \o escapeLikeLiteral(s)
    BY EscapeCons, EscapedCharType
  <2>2. escapeLikeLiteral(u) \o p = EscapedChar(x) \o r
    <3> HIDE DEF u
    <3>1. (EscapedChar(x) \o escapeLikeLiteral(s)) \o p = EscapedChar(x) \o r
      BY <2>1, ConcatAssociative
    <3> QED BY <2>1, <3>1
  <2>3. r \in Seq(C) BY <2>1, ConcatProperties
  <2>4. u \in Seq(C) /\ Len(u) = Len(s) + 1 /\ Len(s) \in Nat BY ConsProperties
  <2>5. Right(s) BY <1>2
  <2> HIDE DEF r
  <2>6. Starts(t, EscapedChar(x) \o r) = CharFrom(t, x, Starts(t, r))
    BY <2>3, EscapedCharStarts
  <2>7. ASSUME NEW j \in 1..(Len(t) + 1)
        PROVE  j \in Starts(t, escapeLikeLiteral(u) \o p) <=>
                 Spells(t, u, j) /\ j + Len(u) \in Starts(t, p)
    <3>1. j \in Starts(t, escapeLikeLiteral(u) \o p) <=>
            j \in DOMAIN t /\ Fold(t[j]) = Fold(x) /\ j + 1 \in Starts(t, r)
      BY <2>2, <2>6 DEF CharFrom
    <3>2. j \in DOMAIN t => (j + 1 \in Starts(t, r) <=>
                               Spells(t, s, j + 1) /\ (j + 1) + Len(s) \in Starts(t, p))
      <4>1. j \in DOMAIN t => j + 1 \in 1..(Len(t) + 1) BY <1>0
      <4> QED BY <4>1, <2>5 DEF r
    <3>3. Spells(t, u, j) <=> j \in DOMAIN t /\ Fold(t[j]) = Fold(x) /\ Spells(t, s, j + 1)
      <4>1. j \in Nat \ {0} OBVIOUS
      <4> QED BY <4>1, SpellsCons
    <3>4. j + Len(u) = (j + 1) + Len(s) BY <2>4
    <3> HIDE DEF u
    <3> QED BY <3>1, <3>2, <3>3, <3>4
  <2> QED BY <2>4, <2>7
<1>3. Seq(C) \subseteq S
  <2> HIDE DEF S
  <2> QED BY <1>1, <1>2, InductionFromFront
<1> QED BY <1>3

LEMMA StartsAny ==
  ASSUME NEW C, "%" \in C, NEW t \in Seq(C)
  PROVE  Starts(t, <<"%">>) = 1..(Len(t) + 1)
<1> DEFINE any == <<"%">>
<1>0. Len(t) \in Nat /\ <<>> \in Seq(C) /\ any \in Seq(C) OBVIOUS
<1>1. any \o <<>> = any BY <1>0, ConcatEmptySeq
<1>2. Starts(t, any \o <<>>) = AnyFrom(t, Starts(t, <<>>)) BY <1>0, StartsFirst
<1>3. Starts(t, <<>>) = {Len(t) + 1} BY <1>0, StartsNothing
<1>4. Starts(t, any) = AnyFrom(t, {Len(t) + 1}) BY <1>1, <1>2, <1>3
<1>5. \A j \in 1..(Len(t) + 1) : j <= Len(t) + 1 BY <1>0
<1>6. AnyFrom(t, {Len(t) + 1}) = 1..(Len(t) + 1) BY <1>5 DEF AnyFrom
<1> QED BY <1>4, <1>6

(* For all texts, a search finds those that contain the query, in upper or *)
(* lower case, with the wild cards of LIKE taken literally                 *)
(* (escapeLikeLiteral, promptRepo.list).                                   *)
THEOREM SearchIsLiteralInEveryText ==
  ASSUME NEW C, {"\\", "%"} \subseteq C, NEW q \in Seq(C), NEW t \in Seq(C)
  PROVE  FoundIffContained(q, t)
<1> DEFINE e == escapeLikeLiteral(q)
           any == <<"%">>
           r == e \o any
<1>0. Len(t) \in Nat /\ Len(q) \in Nat OBVIOUS
<1>1. e \in Seq(C)
  <2>1. "\\" \in C OBVIOUS
  <2> QED BY <2>1, EscapeCons
<1>2. any \in Seq(C) /\ "%" \in C /\ <<>> \in Seq(C) OBVIOUS
<1>3. (any \o e) \o any = any \o r BY <1>1, <1>2, ConcatAssociative
<1>4. r \in Seq(C) BY <1>1, <1>2, ConcatProperties
<1>5. Starts(t, any) = 1..(Len(t) + 1) BY <1>2, StartsAny
<1>6. Finds(q, t) <=> 1 \in Starts(t, any \o r)
  BY <1>3 DEF Finds, Like, Starts
<1> HIDE DEF e, r
<1>7. Starts(t, any \o r) = AnyFrom(t, Starts(t, r)) BY <1>2, <1>4, StartsFirst
<1>8. Finds(q, t) <=> \E j \in Starts(t, r) : 1 <= j BY <1>0, <1>6, <1>7 DEF AnyFrom
<1>9. Starts(t, r) \in SUBSET (1..(Len(t) + 1)) BY <1>4, StartsMatching
<1>10. \A j \in 1..(Len(t) + 1) : j \in Starts(t, r) <=> Spells(t, q, j)
  <2>1. \A j \in 1..(Len(t) + 1) :
          j \in Starts(t, r) <=> Spells(t, q, j) /\ j + Len(q) \in Starts(t, any)
    <3> HIDE DEF any
    <3> QED BY <1>2, EscapedStarts DEF r, e
  <2>2. \A j \in 1..(Len(t) + 1) : Spells(t, q, j) => j + Len(q) \in 1..(Len(t) + 1)
    BY <1>0 DEF Spells
  <2> QED BY <1>5, <2>1, <2>2
<1>11. Finds(q, t) <=> \E j \in 1..(Len(t) + 1) : Spells(t, q, j)
  BY <1>8, <1>9, <1>10
<1>12. ASSUME NEW i \in 0..(Len(t) - Len(q))
       PROVE  SameText(SubSeq(t, i + 1, i + Len(q)), q) <=> Spells(t, q, i + 1)
  <2> DEFINE s == SubSeq(t, i + 1, i + Len(q))
  <2>1. \A k \in (i + 1)..(i + Len(q)) : t[k] \in C
    <3>1. \A k \in (i + 1)..(i + Len(q)) : k \in 1..Len(t) BY <1>0
    <3> QED BY <3>1
  <2>2. i + 1 \in Int /\ i + Len(q) \in Int BY <1>0
  <2>3. /\ s \in Seq(C)
        /\ Len(s) = IF i + 1 <= i + Len(q) THEN i + Len(q) - (i + 1) + 1 ELSE 0
        /\ \A k \in 1..(i + Len(q) - (i + 1) + 1) : s[k] = t[i + 1 + k - 1]
    BY <2>1, <2>2, SubSeqProperties
  <2> HIDE DEF s
  <2>4. Len(s) = Len(q) /\ i + Len(q) - (i + 1) + 1 = Len(q) BY <2>3, <1>0
  <2>5. \A k \in 1..Len(q) : s[k] = t[i + 1 + k - 1] BY <2>3, <2>4
  <2>6. (i + 1) + Len(q) <= Len(t) + 1 BY <1>0
  <2>7. DOMAIN s = 1..Len(q) BY <2>3, <2>4, LenProperties
  <2>8. SameText(s, q) <=> \A k \in 1..Len(q) : Fold(t[i + 1 + k - 1]) = Fold(q[k])
    BY <2>4, <2>5, <2>7 DEF SameText
  <2>9. SameText(s, q) <=> Spells(t, q, i + 1) BY <2>6, <2>8 DEF Spells
  <2> QED BY <2>9 DEF s
<1>13. (\E j \in 1..(Len(t) + 1) : Spells(t, q, j)) <=>
       \E i \in 0..(Len(t) - Len(q)) : Spells(t, q, i + 1)
  <2>1. ASSUME NEW j \in 1..(Len(t) + 1), Spells(t, q, j)
        PROVE  \E i \in 0..(Len(t) - Len(q)) : Spells(t, q, i + 1)
    <3>1. j - 1 \in 0..(Len(t) - Len(q)) /\ (j - 1) + 1 = j BY <2>1, <1>0 DEF Spells
    <3> QED BY <3>1, <2>1
  <2>2. ASSUME NEW i \in 0..(Len(t) - Len(q)), Spells(t, q, i + 1)
        PROVE  \E j \in 1..(Len(t) + 1) : Spells(t, q, j)
    <3>1. i + 1 \in 1..(Len(t) + 1) BY <1>0
    <3> QED BY <3>1, <2>2
  <2> QED BY <2>1, <2>2
<1> QED BY <1>11, <1>12, <1>13 DEF FoundIffContained

-----------------------------------------------------------------------------
(* Searching: tags inside JSON.                                            *)

Quote == "\""
Comma == ","

LEMMA CommaIsNoQuote == Comma # Quote
BY Zenon DEF Comma, Quote

\* No letter folds to a quote or to a comma.
LEMMA FoldKeeps ==
  /\ \A c : Fold(c) = Fold(Quote) <=> c = Quote
  /\ \A c : Fold(c) = Fold(Comma) <=> c = Comma
<1> DEFINE upper == {"A", "B", "C", "D", "E", "F", "G", "H", "I", "J", "K", "L", "M",
                    "N", "O", "P", "Q", "R", "S", "T", "U", "V", "W", "X", "Y", "Z"}
           small == {"a", "b", "c", "d", "e", "f", "g", "h", "i", "j", "k", "l", "m",
                    "n", "o", "p", "q", "r", "s", "t", "u", "v", "w", "x", "y", "z"}
<1>1. DOMAIN lower = upper /\ \A c \in upper : lower[c] \in small BY DEF lower
<1>2. Quote \notin upper /\ Comma \notin upper BY Zenon DEF Quote, Comma
<1>3. Quote \notin small /\ Comma \notin small BY Zenon DEF Quote, Comma
<1> HIDE DEF upper, small
<1>4. Fold(Quote) = Quote /\ Fold(Comma) = Comma BY <1>1, <1>2 DEF Fold
<1>5. \A c : Fold(c) = c \/ Fold(c) \in small BY <1>1 DEF Fold
<1> QED BY <1>3, <1>4, <1>5

\* q between quotes, somewhere in t
QuotedAt(t, q, j) ==
  /\ j \in DOMAIN t /\ t[j] = Quote /\ Spells(t, q, j + 1)
  /\ j + Len(q) + 1 \in DOMAIN t /\ t[j + Len(q) + 1] = Quote
QuotedIn(t, q) == \E j \in DOMAIN t : QuotedAt(t, q, j)

\* The pattern of the filter, from the front.
LEMMA TagPattern ==
  ASSUME NEW C, {"\\", "%", Quote} \subseteq C, NEW e \in Seq(C)
  PROVE  <<"%", Quote>> \o e \o <<Quote, "%">> =
           <<"%">> \o (<<Quote>> \o (e \o (<<Quote>> \o <<"%">>)))
<1>1. \A a, b \in C : <<a>> \in Seq(C) /\ <<a, b>> = <<a>> \o <<b>> BY PairIsConcat
<1> DEFINE u == <<"%">>
           w == <<Quote>>
<1>2. u \in Seq(C) /\ w \in Seq(C) /\ <<"%", Quote>> = u \o w /\ <<Quote, "%">> = w \o u
  BY <1>1
<1> HIDE DEF u, w
<1>3. w \o u \in Seq(C) /\ e \o (w \o u) \in Seq(C) BY <1>2, ConcatProperties
<1>4. ((u \o w) \o e) \o (w \o u) = (u \o w) \o (e \o (w \o u))
  <2>1. u \o w \in Seq(C) BY <1>2, ConcatProperties
  <2> QED BY <2>1, <1>3, ConcatAssociative
<1>5. (u \o w) \o (e \o (w \o u)) = u \o (w \o (e \o (w \o u)))
  BY <1>2, <1>3, ConcatAssociative, SMTT(30)
<1>6. ((u \o w) \o e) \o (w \o u) = u \o (w \o (e \o (w \o u))) BY <1>4, <1>5
<1> QED BY <1>2, <1>6 DEF u, w

\* The filter looks for the query between quotes.
LEMMA TagIsQuoted ==
  ASSUME NEW C, {"\\", "%", Quote} \subseteq C, NEW q \in Seq(C), NEW t \in Seq(C)
  PROVE  Like(t, <<"%", "\"">> \o escapeLikeLiteral(q) \o <<"\"", "%">>) <=> QuotedIn(t, q)
<1> DEFINE e == escapeLikeLiteral(q)
           any == <<"%">>
           z == <<Quote>> \o any
           r == e \o z
           p == <<Quote>> \o r
<1>0. Len(t) \in Nat /\ Len(q) \in Nat /\ DOMAIN t = 1..Len(t) OBVIOUS
<1>1. e \in Seq(C)
  <2>1. "\\" \in C OBVIOUS
  <2> QED BY <2>1, EscapeCons
<1>2. any \in Seq(C) /\ "%" \in C /\ Quote \in C /\ "\\" \in C /\ Ordinary(Quote)
  <2>1. "%" \in C /\ Quote \in C /\ "\\" \in C OBVIOUS
  <2>2. Ordinary(Quote) BY DEF Ordinary, Quote
  <2> QED BY <2>1, <2>2
<1>3. z \in Seq(C) BY <1>2, ConsProperties
<1>4. Starts(t, z) = CharFrom(t, Quote, 1..(Len(t) + 1))
  <2>1. Starts(t, any) = 1..(Len(t) + 1) BY <1>2, StartsAny
  <2>2. Starts(t, z) = CharFrom(t, Quote, Starts(t, any)) BY <1>2, StartsFirst
  <2> QED BY <2>1, <2>2
<1>5. \A f : f \in Starts(t, z) <=> f \in DOMAIN t /\ t[f] = Quote
  <2>1. \A f \in DOMAIN t : f + 1 \in 1..(Len(t) + 1) BY <1>0
  <2>2. \A f : f \in Starts(t, z) <=> f \in DOMAIN t /\ Fold(Quote) = Fold(t[f])
    BY <2>1, <1>4 DEF CharFrom
  <2> QED BY <2>2, FoldKeeps
<1>6. r \in Seq(C) BY <1>1, <1>3, ConcatProperties
<1>7. p \in Seq(C) BY <1>2, <1>6, ConsProperties
<1>8. \A j \in 1..(Len(t) + 1) :
        j \in Starts(t, r) <=> Spells(t, q, j) /\ j + Len(q) \in Starts(t, z)
  <2> HIDE DEF z
  <2> QED BY <1>2, <1>3, EscapedStarts
<1> HIDE DEF e, z
<1>9. Starts(t, p) = CharFrom(t, Quote, Starts(t, r))
  <2> HIDE DEF r
  <2> QED BY <1>2, <1>6, StartsFirst
<1> HIDE DEF r
<1>10. \A j : j \in Starts(t, p) <=> QuotedAt(t, q, j)
  <2>1. \A j : j \in Starts(t, p) <=> j \in DOMAIN t /\ t[j] = Quote /\ j + 1 \in Starts(t, r)
    <3>1. \A j : j \in Starts(t, p) <=>
            j \in DOMAIN t /\ Fold(Quote) = Fold(t[j]) /\ j + 1 \in Starts(t, r)
      BY <1>9 DEF CharFrom
    <3> QED BY <3>1, FoldKeeps
  <2>2. \A j \in DOMAIN t : /\ j + 1 \in 1..(Len(t) + 1)
                            /\ j + 1 + Len(q) = j + Len(q) + 1
    BY <1>0
  <2>3. \A j \in DOMAIN t :
          j + 1 \in Starts(t, r) <=>
            Spells(t, q, j + 1) /\ j + Len(q) + 1 \in Starts(t, z)
    <3>1. ASSUME NEW j \in DOMAIN t
          PROVE  j + 1 \in Starts(t, r) <=>
                   Spells(t, q, j + 1) /\ j + 1 + Len(q) \in Starts(t, z)
      BY <2>2, <1>8
    <3> QED BY <3>1, <2>2
  <2> QED BY <2>1, <2>3, <1>5 DEF QuotedAt
<1>11. Starts(t, <<"%">> \o p) = AnyFrom(t, Starts(t, p))
  <2> HIDE DEF p
  <2> QED BY <1>2, <1>7, StartsFirst
<1>12. <<"%", "\"">> \o escapeLikeLiteral(q) \o <<"\"", "%">> = <<"%">> \o p
  BY <1>1, TagPattern DEF e, r, z, Quote
<1> HIDE DEF p
<1>13. Like(t, <<"%">> \o p) <=> 1 \in AnyFrom(t, Starts(t, p)) BY <1>11 DEF Like, Starts
<1>14. 1 \in AnyFrom(t, Starts(t, p)) <=> \E j \in Starts(t, p) : 1 <= j BY <1>0 DEF AnyFrom
<1>15. \A j \in DOMAIN t : 1 <= j BY <1>0
<1> QED BY <1>10, <1>12, <1>13, <1>14, <1>15 DEF QuotedIn, QuotedAt

\* What one more tag x makes of the list b: quotes around it, and a comma before
\* it unless it is the first.
Grown(b, x, t) ==
  LET s == IF Len(b) = 1 THEN 2 ELSE Len(b) + 2 IN
  /\ Len(t) = s + Len(x) + 1
  /\ \A i \in 1..Len(b) : t[i] = b[i]
  /\ Len(b) = 1 => b[1] # Quote
  /\ Len(b) # 1 => Len(b) # 0 /\ b[Len(b)] = Quote /\ t[Len(b) + 1] = Comma
  /\ t[s] = Quote /\ t[s + Len(x) + 1] = Quote
  /\ \A k \in 1..Len(x) : t[s + k] = x[k]

\* A plain text has characters, none of them a quote.
LEMMA PlainFacts ==
  ASSUME NEW C, NEW t \in Seq(C), Plain(t)
  PROVE  t # <<>> /\ Len(t) # 0 /\ \A k \in 1..Len(t) : t[k] # Quote
<1>1. t # <<>> /\ ~Has(t, Quote) BY Zenon DEF Plain, Quote
<1>2. DOMAIN t = 1..Len(t) OBVIOUS
<1> QED BY <1>1, <1>2 DEF Has

LEMMA QuotedStays ==
  ASSUME NEW C, NEW b \in Seq(C), NEW t \in Seq(C), NEW q \in Seq(C),
         Len(b) <= Len(t), \A i \in 1..Len(b) : t[i] = b[i],
         NEW j \in 1..Len(b), j + Len(q) + 1 <= Len(b)
  PROVE  QuotedAt(b, q, j) <=> QuotedAt(t, q, j)
<1>0. /\ Len(b) \in Nat /\ Len(t) \in Nat /\ Len(q) \in Nat
      /\ DOMAIN b = 1..Len(b) /\ DOMAIN t = 1..Len(t)
  OBVIOUS
<1>1. j \in DOMAIN t /\ t[j] = b[j] BY <1>0
<1>2. /\ j + Len(q) + 1 \in DOMAIN t /\ j + Len(q) + 1 \in DOMAIN b
      /\ t[j + Len(q) + 1] = b[j + Len(q) + 1]
  BY <1>0
<1>3. Spells(b, q, j + 1) <=> Spells(t, q, j + 1)
  <2>1. \A k \in 1..Len(q) : (j + 1) + k - 1 \in 1..Len(b) BY <1>0
  <2>2. \A k \in 1..Len(q) : t[(j + 1) + k - 1] = b[(j + 1) + k - 1] BY <2>1
  <2>3. (j + 1) + Len(q) <= Len(b) + 1 /\ (j + 1) + Len(q) <= Len(t) + 1 BY <1>0
  <2> QED BY <2>2, <2>3 DEF Spells
<1> QED BY <1>0, <1>1, <1>2, <1>3 DEF QuotedAt

\* With one more tag in the list the quoted texts are those before and the tag:
\* what is between the quotes of two tags is the comma, which is excluded.
LEMMA QuotedGrows ==
  ASSUME NEW C, NEW b \in Seq(C), NEW t \in Seq(C), NEW x \in Seq(C), NEW q \in Seq(C),
         Grown(b, x, t), Plain(x), Plain(q), q # <<Comma>>
  PROVE  QuotedIn(t, q) <=> QuotedIn(b, q) \/ SameText(x, q)
<1> DEFINE first == Len(b) = 1
           s == IF first THEN 2 ELSE Len(b) + 2
           e == s + Len(x) + 1
<1>0. /\ Len(b) \in Nat /\ Len(t) \in Nat /\ Len(q) \in Nat /\ Len(x) \in Nat
      /\ DOMAIN b = 1..Len(b) /\ DOMAIN t = 1..Len(t)
      /\ DOMAIN q = 1..Len(q) /\ DOMAIN x = 1..Len(x)
  OBVIOUS
<1>1. /\ Len(t) = e /\ \A i \in 1..Len(b) : t[i] = b[i]
      /\ first => b[1] # Quote
      /\ ~first => Len(b) # 0 /\ b[Len(b)] = Quote /\ t[Len(b) + 1] = Comma
      /\ t[s] = Quote /\ t[e] = Quote
      /\ \A k \in 1..Len(x) : t[s + k] = x[k]
  BY DEF Grown
<1>2. /\ s \in Nat /\ e \in Nat /\ e = s + Len(x) + 1
      /\ first => s = Len(b) + 1 /\ s = 2
      /\ ~first => s = Len(b) + 2
  <2>1. CASE first
    <3>1. s = 2 BY <2>1
    <3> HIDE DEF s
    <3> QED BY <1>0, <2>1, <3>1
  <2>2. CASE ~first
    <3>1. s = Len(b) + 2 BY <2>2
    <3> HIDE DEF s
    <3> QED BY <1>0, <2>2, <3>1
  <2> QED BY <2>1, <2>2
<1> HIDE DEF first
<1>3. /\ q # <<>> /\ Len(q) # 0 /\ \A k \in 1..Len(q) : q[k] # Quote
      /\ \A k \in 1..Len(x) : x[k] # Quote
  BY <1>0, PlainFacts
<1> HIDE DEF s, e
<1>4. ASSUME SameText(x, q) PROVE QuotedIn(t, q)
  <2>0. Len(x) = Len(q) /\ \A k \in 1..Len(x) : Fold(x[k]) = Fold(q[k])
    BY <1>0, <1>4 DEF SameText
  <2>1. s \in DOMAIN t /\ s + Len(q) + 1 = e /\ e \in DOMAIN t BY <1>0, <1>1, <1>2, <2>0
  <2>2. Spells(t, q, s + 1)
    <3>1. (s + 1) + Len(q) <= Len(t) + 1 BY <1>0, <1>1, <1>2, <2>0
    <3>2. ASSUME NEW k \in 1..Len(q) PROVE Fold(t[(s + 1) + k - 1]) = Fold(q[k])
      <4>1. (s + 1) + k - 1 = s + k BY <1>0, <1>2
      <4> QED BY <4>1, <1>1, <2>0
    <3> QED BY <3>1, <3>2 DEF Spells
  <2>3. QuotedAt(t, q, s) BY <1>1, <2>1, <2>2 DEF QuotedAt
  <2> QED BY <2>1, <2>3 DEF QuotedIn
<1>5. ASSUME QuotedIn(b, q) PROVE QuotedIn(t, q)
  <2>1. PICK j \in DOMAIN b : QuotedAt(b, q, j) BY <1>5 DEF QuotedIn
  <2>2. j \in 1..Len(b) /\ j + Len(q) + 1 <= Len(b) BY <1>0, <2>1 DEF QuotedAt
  <2>3. Len(b) <= Len(t) BY <1>0, <1>1, <1>2
  <2>4. QuotedAt(t, q, j) BY <1>1, <2>1, <2>2, <2>3, QuotedStays
  <2>5. j \in DOMAIN t BY <1>0, <2>2, <2>3
  <2> QED BY <2>4, <2>5 DEF QuotedIn
<1>6. ASSUME QuotedIn(t, q) PROVE QuotedIn(b, q) \/ SameText(x, q)
  <2>1. PICK j \in DOMAIN t : QuotedAt(t, q, j) BY <1>6 DEF QuotedIn
  <2> DEFINE f == j + Len(q) + 1
  <2>2. /\ j \in 1..Len(t) /\ t[j] = Quote /\ f \in 1..Len(t) /\ t[f] = Quote
        /\ \A k \in 1..Len(q) : Fold(t[(j + 1) + k - 1]) = Fold(q[k])
    BY <1>0, <2>1 DEF QuotedAt, Spells
  <2>3. ASSUME NEW i \in 1..Len(t), j < i, i < f PROVE t[i] # Quote
    <3>1. i - j \in 1..Len(q) /\ (j + 1) + (i - j) - 1 = i BY <1>0, <2>3
    <3>2. Fold(t[(j + 1) + (i - j) - 1]) = Fold(q[i - j]) BY <2>2, <3>1
    <3> QED BY <1>3, <3>1, <3>2, FoldKeeps
  <2>4. f = j + Len(q) + 1 /\ j < f /\ f \in Int OBVIOUS
  <2> HIDE DEF f
  <2>5. CASE f <= Len(b)
    <3>1. j \in 1..Len(b) /\ j + Len(q) + 1 <= Len(b) /\ Len(b) <= Len(t)
      BY <1>0, <1>1, <1>2, <2>2, <2>4, <2>5
    <3>2. QuotedAt(b, q, j) BY <1>1, <2>1, <3>1, QuotedStays
    <3> QED BY <1>0, <3>1, <3>2 DEF QuotedIn
  <2>6. CASE f > Len(b) /\ f < s
    <3>1. ~first /\ f = Len(b) + 1 BY <1>0, <1>2, <2>4, <2>6
    <3> QED BY <1>1, <2>2, <3>1, CommaIsNoQuote
  <2>7. CASE f = s
    <3>1. CASE first
      <4>1. j = 1 /\ 1 \in 1..Len(b) BY <1>0, <1>1, <1>2, <1>3, <2>2, <2>4, <2>7, <3>1
      <4>2. t[1] = b[1] BY <1>1, <4>1
      <4> QED BY <1>1, <2>2, <3>1, <4>1, <4>2
    <3>2. CASE ~first
      <4>1. Len(b) \in 1..Len(b) /\ Len(b) \in 1..Len(t) /\ Len(b) < f
        BY <1>0, <1>1, <1>2, <2>7, <3>2
      <4>2. t[Len(b)] = Quote BY <1>1, <3>2, <4>1
      <4>3. ~(j < Len(b)) BY <2>3, <4>1, <4>2
      <4>4. j # Len(b) + 1 BY <1>1, <2>2, <3>2, CommaIsNoQuote
      <4>5. j = Len(b) /\ Len(q) = 1 BY <1>0, <1>2, <1>3, <2>2, <2>4, <2>7, <3>2, <4>3, <4>4
      <4>6. q[1] = Comma
        <5>1. 1 \in 1..Len(q) /\ (j + 1) + 1 - 1 = Len(b) + 1 BY <4>5
        <5>2. Fold(t[(j + 1) + 1 - 1]) = Fold(q[1]) BY <2>2, <5>1
        <5> QED BY <1>1, <3>2, <5>1, <5>2, FoldKeeps
      <4>7. q = <<Comma>> BY <4>5, <4>6
      <4> QED BY <4>7
    <3> QED BY <3>1, <3>2
  <2>8. CASE f > s
    <3>1. ~(j < s)
      <4>1. s \in 1..Len(t) BY <1>0, <1>1, <1>2
      <4> QED BY <1>1, <2>3, <2>8, <4>1
    <3>2. f = e
      <4>1. ASSUME f # e PROVE FALSE
        <5>1. f - s \in 1..Len(x) /\ s + (f - s) = f
          <6>1. f \in Nat /\ s < f /\ f < e BY <1>0, <1>1, <1>2, <2>2, <2>4, <2>8, <4>1
          <6>2. s \in Nat /\ Len(x) \in Nat /\ e = s + Len(x) + 1 BY <1>0, <1>2
          <6> QED BY <6>1, <6>2
        <5>2. t[s + (f - s)] = x[f - s] BY <1>1, <5>1
        <5> QED BY <1>3, <2>2, <5>1, <5>2
      <4> QED BY <4>1
    <3>3. j = s
      <4>1. ASSUME j # s PROVE FALSE
        <5>1. j - s \in 1..Len(x) /\ s + (j - s) = j
          <6>1. j \in Nat /\ s < j /\ j < e BY <1>0, <1>2, <2>2, <2>4, <3>1, <3>2, <4>1
          <6>2. s \in Nat /\ Len(x) \in Nat /\ e = s + Len(x) + 1 BY <1>0, <1>2
          <6> QED BY <6>1, <6>2
        <5>2. t[s + (j - s)] = x[j - s] BY <1>1, <5>1
        <5> QED BY <1>3, <2>2, <5>1, <5>2
      <4> QED BY <4>1
    <3>4. Len(q) = Len(x)
      <4>1. s + Len(x) + 1 = s + Len(q) + 1 BY <1>2, <2>4, <3>2, <3>3
      <4>2. s \in Nat /\ Len(x) \in Nat /\ Len(q) \in Nat BY <1>0, <1>2
      <4> QED BY <4>1, <4>2
    <3>5. ASSUME NEW k \in 1..Len(q) PROVE Fold(q[k]) = Fold(x[k])
      <4>1. (j + 1) + k - 1 = s + k BY <1>2, <3>3
      <4>2. Fold(t[(j + 1) + k - 1]) = Fold(q[k]) BY <2>2
      <4> QED BY <1>1, <3>4, <4>1, <4>2
    <3>6. SameText(x, q) BY <1>0, <3>4, <3>5 DEF SameText
    <3> QED BY <3>6
  <2>9. f <= Len(b) \/ (f > Len(b) /\ f < s) \/ f = s \/ f > s BY <1>0, <1>2, <2>4
  <2> QED BY <2>5, <2>6, <2>7, <2>8, <2>9
<1> QED BY <1>4, <1>5, <1>6

Opening == "["
Closing == "]"

LEMMA BracketsAreNoQuotes == Opening # Quote /\ Closing # Quote
BY Zenon DEF Opening, Closing, Quote

PlainTexts(C) == {t \in Seq(C) : Plain(t)}
Quoted(t) == <<Quote>> \o t \o <<Quote>>

\* JSON quotes a plain text and changes nothing in it.
LEMMA PlainJson ==
  ASSUME NEW C, NEW t \in PlainTexts(C)
  PROVE  JsonString(t) = Quoted(t)
<1> DEFINE J(i) == CASE t[i] \in {"\\", "\""} -> <<"\\", t[i]>>
                     [] t[i] = "\n" -> <<"\\", "n">>
                     [] OTHER -> <<t[i]>>
<1>1. t \in Seq(C) /\ ~Has(t, "\"") /\ ~Has(t, "\\") /\ ~Has(t, "\n")
  BY Zenon DEF PlainTexts, Plain
<1>2. ASSUME NEW i \in DOMAIN t PROVE J(i) = <<t[i]>>
  <2>1. t[i] # "\"" /\ t[i] # "\\" /\ t[i] # "\n" BY <1>1, Zenon DEF Has
  <2>2. t[i] \notin {"\\", "\""} BY <2>1, Zenon
  <2> QED BY <2>1, <2>2, Zenon
<1>3. [i \in DOMAIN t |-> J(i)] = [i \in DOMAIN t |-> <<t[i]>>]
  <2> HIDE DEF J
  <2> QED BY <1>2
<1>4. FlattenSeq([i \in DOMAIN t |-> J(i)]) = t
  <2> HIDE DEF J
  <2> QED BY <1>1, <1>3, FlattenSingles
<1> QED BY <1>4, Zenon DEF JsonString, Quoted, Quote

LEMMA QuotedFacts ==
  ASSUME NEW C, Quote \in C, NEW x \in Seq(C)
  PROVE  /\ Quoted(x) \in Seq(C) /\ Len(Quoted(x)) = Len(x) + 2
         /\ Quoted(x)[1] = Quote /\ Quoted(x)[Len(x) + 2] = Quote
         /\ \A k \in 1..Len(x) : Quoted(x)[k + 1] = x[k]
<1> DEFINE u == <<Quote>> \o x
           w == <<Quote>>
<1>1. /\ u \in Seq(C) /\ Len(u) = Len(x) + 1 /\ u[1] = Quote
      /\ \A k \in 1..Len(x) : u[k + 1] = x[k]
  BY ConsProperties
<1>2. w \in Seq(C) /\ Len(w) = 1 /\ w[1] = Quote /\ Len(x) \in Nat OBVIOUS
<1> HIDE DEF u, w
<1> DEFINE t == u \o w
<1>3. /\ t \in Seq(C) /\ Len(t) = Len(x) + 2
      /\ \A i \in 1..(Len(x) + 2) : t[i] = IF i <= Len(x) + 1 THEN u[i] ELSE w[i - (Len(x) + 1)]
  <2>1. /\ t \in Seq(C) /\ Len(t) = Len(u) + Len(w)
        /\ \A i \in 1..(Len(u) + Len(w)) : t[i] = IF i <= Len(u) THEN u[i] ELSE w[i - Len(u)]
    BY <1>1, <1>2, ConcatProperties
  <2>2. Len(u) + Len(w) = Len(x) + 2 BY <1>1, <1>2
  <2> HIDE DEF t
  <2> QED BY <2>1, <2>2, <1>1
<1> HIDE DEF t
<1>4. t[1] = Quote
  <2>1. 1 \in 1..(Len(x) + 2) /\ 1 <= Len(x) + 1 BY <1>2
  <2> QED BY <2>1, <1>1, <1>3
<1>5. t[Len(x) + 2] = Quote
  <2>1. /\ Len(x) + 2 \in 1..(Len(x) + 2) /\ ~(Len(x) + 2 <= Len(x) + 1)
        /\ (Len(x) + 2) - (Len(x) + 1) = 1
    BY <1>2
  <2> QED BY <2>1, <1>2, <1>3
<1>6. ASSUME NEW k \in 1..Len(x) PROVE t[k + 1] = x[k]
  <2>1. k + 1 \in 1..(Len(x) + 2) /\ k + 1 <= Len(x) + 1 BY <1>2
  <2> QED BY <2>1, <1>1, <1>3
<1> QED BY <1>3, <1>4, <1>5, <1>6 DEF t, u, w, Quoted

\* The brackets of the list and what is before the next tag.
Tagged(b, x, t) ==
  t = b \o (IF Len(b) = 1 THEN Quoted(x) ELSE <<Comma>> \o Quoted(x))
EndsInQuote(b) ==
  /\ Len(b) = 1 => b[1] # Quote
  /\ Len(b) # 1 => Len(b) # 0 /\ b[Len(b)] = Quote

LEMMA TaggedIsGrown ==
  ASSUME NEW C, {Quote, Comma} \subseteq C, NEW b \in Seq(C), NEW x \in Seq(C), NEW t,
         Tagged(b, x, t), EndsInQuote(b)
  PROVE  /\ t \in Seq(C) /\ Grown(b, x, t)
         /\ Len(t) > 1 /\ t[Len(t)] = Quote
<1> DEFINE y == Quoted(x)
           z == <<Comma>> \o y
<1>1. /\ y \in Seq(C) /\ Len(y) = Len(x) + 2 /\ y[1] = Quote /\ y[Len(x) + 2] = Quote
      /\ \A k \in 1..Len(x) : y[k + 1] = x[k]
  <2>1. Quote \in C OBVIOUS
  <2> QED BY <2>1, QuotedFacts
<1> HIDE DEF y
<1>2. /\ z \in Seq(C) /\ Len(z) = Len(y) + 1 /\ z[1] = Comma
      /\ \A k \in 1..Len(y) : z[k + 1] = y[k]
  <2>1. Comma \in C OBVIOUS
  <2> QED BY <1>1, <2>1, ConsProperties
<1> HIDE DEF z
<1>3. Len(b) \in Nat /\ Len(x) \in Nat OBVIOUS
<1>4. CASE Len(b) = 1
  <2>1. t = b \o y BY <1>4 DEF Tagged, y
  <2>2. /\ t \in Seq(C) /\ Len(t) = Len(b) + Len(y)
        /\ \A i \in 1..(Len(b) + Len(y)) : t[i] = IF i <= Len(b) THEN b[i] ELSE y[i - Len(b)]
    BY <1>1, <2>1, ConcatProperties
  <2>3. Len(t) = 2 + Len(x) + 1 /\ Len(t) > 1 BY <1>1, <1>3, <1>4, <2>2
  <2>4. \A i \in 1..Len(b) : t[i] = b[i] BY <1>1, <1>3, <2>2
  <2>5. \A k \in 1..Len(y) : t[1 + k] = y[k]
    <3>1. \A k \in 1..Len(y) : 1 + k \in 1..(Len(b) + Len(y)) /\ ~(1 + k <= Len(b))
                               /\ (1 + k) - Len(b) = k
      BY <1>1, <1>3, <1>4
    <3> QED BY <3>1, <2>2
  <2>6. t[2] = Quote
    <3>1. 1 \in 1..Len(y) /\ 1 + 1 = 2 BY <1>1, <1>3
    <3> QED BY <3>1, <2>5, <1>1
  <2>7. t[2 + Len(x) + 1] = Quote
    <3>1. Len(x) + 2 \in 1..Len(y) /\ 1 + (Len(x) + 2) = 2 + Len(x) + 1 BY <1>1, <1>3
    <3> QED BY <3>1, <2>5, <1>1
  <2>8. ASSUME NEW k \in 1..Len(x) PROVE t[2 + k] = x[k]
    <3>1. k + 1 \in 1..Len(y) /\ 1 + (k + 1) = 2 + k BY <1>1, <1>3
    <3> QED BY <3>1, <2>5, <1>1
  <2>9. Grown(b, x, t) BY <1>4, <2>3, <2>4, <2>6, <2>7, <2>8 DEF Grown, EndsInQuote
  <2> QED BY <2>2, <2>3, <2>7, <2>9
<1>5. CASE Len(b) # 1
  <2>1. t = b \o z BY <1>5 DEF Tagged, y, z
  <2>2. /\ t \in Seq(C) /\ Len(t) = Len(b) + Len(z)
        /\ \A i \in 1..(Len(b) + Len(z)) : t[i] = IF i <= Len(b) THEN b[i] ELSE z[i - Len(b)]
    BY <1>2, <2>1, ConcatProperties
  <2>3. Len(t) = (Len(b) + 2) + Len(x) + 1 /\ Len(t) > 1 BY <1>1, <1>2, <1>3, <2>2
  <2>4. \A i \in 1..Len(b) : t[i] = b[i] BY <1>1, <1>2, <1>3, <2>2
  <2>5. \A k \in 1..Len(z) : t[Len(b) + k] = z[k]
    <3>1. \A k \in 1..Len(z) : Len(b) + k \in 1..(Len(b) + Len(z)) /\ ~(Len(b) + k <= Len(b))
                               /\ (Len(b) + k) - Len(b) = k
      BY <1>1, <1>2, <1>3
    <3> QED BY <3>1, <2>2
  <2>6. t[Len(b) + 1] = Comma
    <3>1. 1 \in 1..Len(z) BY <1>1, <1>2, <1>3
    <3> QED BY <3>1, <2>5, <1>2
  <2>7. ASSUME NEW k \in 1..Len(y) PROVE t[(Len(b) + 1) + k] = y[k]
    <3>1. k + 1 \in 1..Len(z) /\ Len(b) + (k + 1) = (Len(b) + 1) + k BY <1>1, <1>2, <1>3
    <3> QED BY <3>1, <2>5, <1>2
  <2>8. t[Len(b) + 2] = Quote
    <3>1. 1 \in 1..Len(y) /\ (Len(b) + 1) + 1 = Len(b) + 2 BY <1>1, <1>3
    <3> QED BY <3>1, <2>7, <1>1
  <2>9. t[(Len(b) + 2) + Len(x) + 1] = Quote
    <3>1. Len(x) + 2 \in 1..Len(y) /\ (Len(b) + 1) + (Len(x) + 2) = (Len(b) + 2) + Len(x) + 1
      BY <1>1, <1>3
    <3> QED BY <3>1, <2>7, <1>1
  <2>10. ASSUME NEW k \in 1..Len(x) PROVE t[(Len(b) + 2) + k] = x[k]
    <3>1. k + 1 \in 1..Len(y) /\ (Len(b) + 1) + (k + 1) = (Len(b) + 2) + k BY <1>1, <1>3
    <3> QED BY <3>1, <2>7, <1>1
  <2>11. Grown(b, x, t)
    BY <1>5, <2>3, <2>4, <2>6, <2>8, <2>9, <2>10 DEF Grown, EndsInQuote
  <2> QED BY <2>2, <2>3, <2>9, <2>11
<1> QED BY <1>4, <1>5

\* Each tag, with the comma before it.
TagCells(T) ==
  [i \in DOMAIN T |-> IF i = 1 THEN Quoted(T[i]) ELSE <<Comma>> \o Quoted(T[i])]
\* The JSON text of the tags, up to its closing bracket.
Tags(T) == <<Opening>> \o FlattenSeq(TagCells(T))

LEMMA TagCellsType ==
  ASSUME NEW C, {Quote, Comma} \subseteq C, NEW T \in Seq(Seq(C))
  PROVE  TagCells(T) \in Seq(Seq(C)) /\ Len(TagCells(T)) = Len(T)
<1>1. DOMAIN T = 1..Len(T) /\ Len(T) \in Nat /\ \A i \in 1..Len(T) : T[i] \in Seq(C)
  BY LenProperties, ElementOfSeq
<1>2. ASSUME NEW x \in Seq(C) PROVE Quoted(x) \in Seq(C) /\ <<Comma>> \o Quoted(x) \in Seq(C)
  <2>1. Quoted(x) \in Seq(C)
    <3>1. Quote \in C OBVIOUS
    <3> QED BY <3>1, QuotedFacts
  <2>2. Comma \in C OBVIOUS
  <2> QED BY <2>1, <2>2, ConsProperties
<1>3. TagCells(T) \in [1..Len(T) -> Seq(C)] BY <1>1, <1>2 DEF TagCells
<1> QED BY <1>1, <1>3

LEMMA NoTags == Tags(<<>>) = <<Opening>>
<1>1. TagCells(<<>>) = <<>> BY DEF TagCells
<1>2. FlattenSeq(TagCells(<<>>)) = <<>> BY <1>1, FlattenEmpty
<1>3. <<Opening>> \in Seq({Opening}) OBVIOUS
<1>4. <<Opening>> \o <<>> = <<Opening>> BY <1>3, ConcatEmptySeq
<1> QED BY <1>2, <1>4 DEF Tags

\* The JSON text grows at its end.
LEMMA OneMoreTag ==
  ASSUME NEW C, {Quote, Comma, Opening} \subseteq C, NEW T \in Seq(Seq(C)), NEW x \in Seq(C)
  PROVE  Tags(Append(T, x)) =
           Tags(T) \o (IF T = <<>> THEN Quoted(x) ELSE <<Comma>> \o Quoted(x))
<1> DEFINE A == Append(T, x)
           n == Len(T)
           cell == IF T = <<>> THEN Quoted(x) ELSE <<Comma>> \o Quoted(x)
           w == TagCells(T)
           bracket == <<Opening>>
<1>1. /\ A \in Seq(Seq(C)) /\ Len(A) = n + 1 /\ A[n + 1] = x /\ n \in Nat
      /\ \A i \in 1..n : A[i] = T[i]
  BY AppendProperties
<1>2. (n = 0 <=> T = <<>>) /\ DOMAIN T = 1..n OBVIOUS
<1>3. cell \in Seq(C)
  <2>1. Quote \in C /\ Comma \in C OBVIOUS
  <2>2. Quoted(x) \in Seq(C) BY <2>1, QuotedFacts
  <2>3. <<Comma>> \o Quoted(x) \in Seq(C) BY <2>1, <2>2, ConsProperties
  <2> QED BY <2>2, <2>3
<1>4. /\ w \in Seq(Seq(C)) /\ Len(w) = n
      /\ TagCells(A) \in Seq(Seq(C)) /\ Len(TagCells(A)) = n + 1
  <2>1. {Quote, Comma} \subseteq C OBVIOUS
  <2> HIDE DEF A
  <2> QED BY <1>1, <2>1, TagCellsType
<1>5. DOMAIN A = 1..(n + 1) BY <1>1, LenProperties
<1> HIDE DEF A, n, cell
<1>6. TagCells(A)[n + 1] = cell
  <2>1. n + 1 \in DOMAIN A /\ (n + 1 = 1 <=> n = 0) BY <1>1, <1>5
  <2>2. TagCells(A)[n + 1] = IF n + 1 = 1 THEN Quoted(A[n + 1]) ELSE <<Comma>> \o Quoted(A[n + 1])
    BY <2>1 DEF TagCells
  <2> QED BY <2>1, <2>2, <1>1, <1>2 DEF cell
<1>7. ASSUME NEW i \in 1..n PROVE TagCells(A)[i] = w[i]
  <2>1. i \in DOMAIN A /\ i \in DOMAIN T /\ A[i] = T[i] BY <1>1, <1>2, <1>5
  <2> QED BY <2>1 DEF TagCells
<1>8. TagCells(A) = Append(w, cell)
  <2> DEFINE u == TagCells(A)
             v == Append(w, cell)
  <2>1. /\ v \in Seq(Seq(C)) /\ Len(v) = n + 1 /\ v[n + 1] = cell
        /\ \A i \in 1..n : v[i] = w[i]
    <3> HIDE DEF w
    <3> QED BY <1>3, <1>4, AppendProperties
  <2>2. u \in Seq(Seq(C)) /\ Len(u) = n + 1 /\ u[n + 1] = cell /\ \A i \in 1..n : u[i] = w[i]
    BY <1>4, <1>6, <1>7
  <2> HIDE DEF u, v, w
  <2>3. \A i \in 1..Len(u) : u[i] = v[i]
    <3>1. \A i \in 1..(n + 1) : i = n + 1 \/ i \in 1..n BY <1>1
    <3> QED BY <3>1, <2>1, <2>2
  <2>4. u = v BY <2>1, <2>2, <2>3, SeqEqual
  <2> QED BY <2>4 DEF u, v
<1>9. FlattenSeq(TagCells(A)) = FlattenSeq(w) \o cell
  <2> HIDE DEF w
  <2>1. FlattenSeq(Append(w, cell)) = FlattenSeq(w) \o cell BY <1>3, <1>4, FlattenAppend
  <2> QED BY <1>8, <2>1
<1>10. bracket \in Seq(C) /\ FlattenSeq(w) \in Seq(C)
  <2>1. FlattenSeq(w) \in Seq(C)
    <3> HIDE DEF w
    <3> QED BY <1>4, FlattenType
  <2>2. Opening \in C OBVIOUS
  <2> QED BY <2>1, <2>2
<1>11. bracket \o (FlattenSeq(w) \o cell) = (bracket \o FlattenSeq(w)) \o cell
  <2> HIDE DEF bracket, w
  <2> QED BY <1>3, <1>10, ConcatAssociative, SMTT(30)
<1>12. Tags(A) = Tags(T) \o cell BY <1>9, <1>11 DEF Tags
<1> QED BY <1>12 DEF A, cell

Listed(q, T) == \E tag \in ToSet(T) : SameText(tag, q)

\* What is true of each list of tags.
ListsOnly(C, q, T) ==
  /\ Tags(T) \in Seq(C) /\ EndsInQuote(Tags(T)) /\ Len(Tags(T)) # 0
  /\ Len(Tags(T)) = 1 <=> T = <<>>
  /\ QuotedIn(Tags(T), q) <=> Listed(q, T)

LEMMA OneMoreListed ==
  ASSUME NEW C, {Quote, Comma, Opening} \subseteq C, NEW q \in PlainTexts(C), q # <<Comma>>,
         NEW x \in PlainTexts(C), NEW T \in Seq(PlainTexts(C)), ListsOnly(C, q, T)
  PROVE  ListsOnly(C, q, Append(T, x))
<1> DEFINE b == Tags(T)
           t == Tags(Append(T, x))
<1>1. /\ q \in Seq(C) /\ Plain(q) /\ x \in Seq(C) /\ Plain(x) /\ T \in Seq(Seq(C))
  <2>1. PlainTexts(C) \subseteq Seq(C) BY DEF PlainTexts
  <2>2. T \in Seq(Seq(C)) BY <2>1
  <2> QED BY <2>1, <2>2 DEF PlainTexts
<1>2. /\ b \in Seq(C) /\ EndsInQuote(b) /\ Len(b) # 0 /\ (Len(b) = 1 <=> T = <<>>)
      /\ QuotedIn(b, q) <=> Listed(q, T)
  BY DEF ListsOnly
<1>3. Tagged(b, x, t) BY <1>1, <1>2, OneMoreTag DEF Tagged
<1> HIDE DEF b, t
<1>4. t \in Seq(C) /\ Grown(b, x, t) /\ Len(t) > 1 /\ t[Len(t)] = Quote
  <2>1. {Quote, Comma} \subseteq C OBVIOUS
  <2> QED BY <1>1, <1>2, <1>3, <2>1, TaggedIsGrown
<1>5. QuotedIn(t, q) <=> QuotedIn(b, q) \/ SameText(x, q) BY <1>1, <1>2, <1>4, QuotedGrows
<1>6. EndsInQuote(t) /\ Len(t) # 0 /\ Len(t) # 1
  <2>1. Len(t) \in Nat BY <1>4
  <2>2. Len(t) # 0 /\ Len(t) # 1 BY <1>4, <2>1
  <2> QED BY <1>4, <2>2 DEF EndsInQuote
<1>7. Append(T, x) # <<>> BY <1>1, AppendProperties
<1>8. Listed(q, Append(T, x)) <=> Listed(q, T) \/ SameText(x, q)
  <2> DEFINE A == Append(T, x)
             n == Len(T)
  <2>1. /\ A \in Seq(Seq(C)) /\ Len(A) = n + 1 /\ A[n + 1] = x /\ n \in Nat
        /\ \A i \in 1..n : A[i] = T[i]
    BY <1>1, AppendProperties
  <2>2. DOMAIN A = 1..(n + 1) /\ DOMAIN T = 1..n BY <1>1, <2>1, LenProperties
  <2> HIDE DEF A, n
  <2>3. \A i \in 1..(n + 1) : i = n + 1 \/ i \in 1..n BY <2>1
  <2>4. n + 1 \in 1..(n + 1) /\ 1..n \subseteq 1..(n + 1) BY <2>1
  <2>5. Listed(q, A) <=> \E i \in 1..(n + 1) : SameText(A[i], q) BY <2>2 DEF Listed, ToSet
  <2>6. Listed(q, T) <=> \E i \in 1..n : SameText(T[i], q) BY <2>2 DEF Listed, ToSet
  <2>7. Listed(q, A) <=> Listed(q, T) \/ SameText(x, q) BY <2>1, <2>3, <2>4, <2>5, <2>6
  <2> QED BY <2>7 DEF A
<1> QED BY <1>2, <1>4, <1>5, <1>6, <1>7, <1>8 DEF ListsOnly, t

\* By induction over the list.
LEMMA TagsAreListed ==
  ASSUME NEW C, {Quote, Comma, Opening} \subseteq C, NEW q \in PlainTexts(C), q # <<Comma>>,
         NEW T \in Seq(PlainTexts(C))
  PROVE  ListsOnly(C, q, T)
<1> DEFINE S == {U \in Seq(PlainTexts(C)) : ListsOnly(C, q, U)}
<1>1. ListsOnly(C, q, <<>>)
  <2> DEFINE b == <<Opening>>
  <2>1. Tags(<<>>) = b BY NoTags
  <2>2. b \in Seq(C) /\ Len(b) = 1 /\ b[1] = Opening
    <3>1. Opening \in C OBVIOUS
    <3> QED BY <3>1
  <2> HIDE DEF b
  <2>3. EndsInQuote(b) BY <2>2, BracketsAreNoQuotes DEF EndsInQuote
  <2>4. ~QuotedIn(b, q)
    <3>1. DOMAIN b = 1..1 BY <2>2, LenProperties
    <3>2. \A j \in DOMAIN b : b[j] # Quote BY <2>2, <3>1, BracketsAreNoQuotes
    <3> QED BY <3>2 DEF QuotedIn, QuotedAt
  <2>5. ~Listed(q, <<>>) BY DEF Listed, ToSet
  <2>6. QuotedIn(b, q) <=> Listed(q, <<>>) BY <2>4, <2>5
  <2>7. Len(b) # 0 /\ (Len(b) = 1 <=> <<>> = <<>>) BY <2>2
  <2>8. b \in Seq(C) BY <2>2
  <2> QED BY <2>1, <2>3, <2>6, <2>7, <2>8, Zenon DEF ListsOnly
<1>2. <<>> \in S
  <2>1. <<>> \in Seq(PlainTexts(C)) OBVIOUS
  <2> QED BY <1>1, <2>1
<1>3. ASSUME NEW x \in PlainTexts(C), NEW U \in Seq(PlainTexts(C)), U \in S
      PROVE  Append(U, x) \in S
  <2>1. ListsOnly(C, q, U) BY <1>3
  <2>2. ListsOnly(C, q, Append(U, x)) BY <2>1, OneMoreListed
  <2>3. Append(U, x) \in Seq(PlainTexts(C)) BY AppendProperties
  <2> QED BY <2>2, <2>3
<1>4. Seq(PlainTexts(C)) \subseteq S
  <2> HIDE DEF S
  <2> QED BY <1>2, <1>3, InductionFromBack
<1> QED BY <1>4

\* The closing bracket adds nothing.
LEMMA ClosedLists ==
  ASSUME NEW C, Closing \in C, NEW b \in Seq(C), NEW q \in Seq(C)
  PROVE  QuotedIn(b \o <<Closing>>, q) <=> QuotedIn(b, q)
<1> DEFINE t == Append(b, Closing)
<1>1. t = b \o <<Closing>> BY AppendIsConcat
<1>2. /\ t \in Seq(C) /\ Len(t) = Len(b) + 1 /\ t[Len(b) + 1] = Closing
      /\ \A i \in 1..Len(b) : t[i] = b[i]
  BY AppendProperties
<1> HIDE DEF t
<1>3. /\ Len(b) \in Nat /\ Len(q) \in Nat /\ DOMAIN b = 1..Len(b)
      /\ DOMAIN t = 1..(Len(b) + 1)
  BY <1>2, LenProperties
<1>4. ASSUME QuotedIn(t, q) PROVE QuotedIn(b, q)
  <2>1. PICK j \in DOMAIN t : QuotedAt(t, q, j) BY <1>4 DEF QuotedIn
  <2>2. j + Len(q) + 1 \in 1..(Len(b) + 1) /\ t[j + Len(q) + 1] = Quote
    BY <1>3, <2>1 DEF QuotedAt
  <2>3. j + Len(q) + 1 # Len(b) + 1 BY <1>2, <2>2, BracketsAreNoQuotes
  <2>4. j \in 1..Len(b) /\ j + Len(q) + 1 <= Len(b) /\ Len(b) <= Len(t)
    BY <1>2, <1>3, <2>1, <2>2, <2>3
  <2>5. QuotedAt(b, q, j) BY <1>2, <2>1, <2>4, QuotedStays
  <2> QED BY <1>3, <2>4, <2>5 DEF QuotedIn
<1>5. ASSUME QuotedIn(b, q) PROVE QuotedIn(t, q)
  <2>1. PICK j \in DOMAIN b : QuotedAt(b, q, j) BY <1>5 DEF QuotedIn
  <2>2. j \in 1..Len(b) /\ j + Len(q) + 1 <= Len(b) /\ Len(b) <= Len(t)
    BY <1>2, <1>3, <2>1 DEF QuotedAt
  <2>3. QuotedAt(t, q, j) BY <1>2, <2>1, <2>2, QuotedStays
  <2>4. j \in DOMAIN t BY <1>3, <2>2
  <2> QED BY <2>3, <2>4 DEF QuotedIn
<1> QED BY <1>1, <1>4, <1>5

\* JSON.stringify of the list, with its closing bracket.
LEMMA TagsInJson ==
  ASSUME NEW C, NEW T \in Seq(PlainTexts(C))
  PROVE  JsonTags(T) = Tags(T) \o <<Closing>>
<1> DEFINE J == [i \in DOMAIN T |-> JsonString(T[i])]
<1>1. \A i \in DOMAIN T : T[i] \in PlainTexts(C) OBVIOUS
<1>2. \A i \in DOMAIN T : JsonString(T[i]) = Quoted(T[i])
  <2>1. \A t \in PlainTexts(C) : JsonString(t) = Quoted(t) BY PlainJson
  <2> QED BY <1>1, <2>1
<1>3. DOMAIN J = DOMAIN T /\ \A i \in DOMAIN T : J[i] = Quoted(T[i]) BY <1>2
<1> HIDE DEF J
<1>4. [i \in DOMAIN J |-> IF i = 1 THEN J[i] ELSE <<",">> \o J[i]] = TagCells(T)
  <2>1. [i \in DOMAIN T |-> IF i = 1 THEN J[i] ELSE <<Comma>> \o J[i]] = TagCells(T)
    BY <1>3 DEF TagCells
  <2> QED BY <1>3, <2>1, Zenon DEF Comma
<1>5. Join(J, <<",">>) = FlattenSeq(TagCells(T)) BY <1>4, Zenon DEF Join
<1> QED BY <1>5, Zenon DEF JsonTags, Tags, Opening, Closing, J

(* For every query and every list of tags, however long, without quotes,   *)
(* backslashes and newlines, the filter finds a list in JSON exactly when  *)
(* the query, in upper or lower case, is one of its tags, unless it is a   *)
(* comma (promptRepo.list).                                                *)
THEOREM TagFilterIsExactOnEveryText ==
  ASSUME NEW C, {"\\", "%", "\"", "[", "]", ","} \subseteq C,
         NEW q \in Seq(C), Plain(q), NEW tags \in Seq(PlainTexts(C))
  PROVE  FoundIffListed(q, tags)
<1>1. /\ {"\\", "%", Quote} \subseteq C /\ {Quote, Comma, Opening} \subseteq C /\ Closing \in C
  BY Zenon DEF Quote, Comma, Opening, Closing
<1>2. SUFFICES ASSUME q # <<",">> PROVE HasTag(q, tags) <=> Listed(q, tags)
  BY Zenon DEF FoundIffListed, Listed
<1>3. q \in PlainTexts(C) /\ q # <<Comma>> BY <1>2, Zenon DEF PlainTexts, Comma
<1>4. ListsOnly(C, q, tags)
  <2>1. {Quote, Comma, Opening} \subseteq C BY <1>1
  <2> QED BY <1>3, <2>1, TagsAreListed
<1>5. Tags(tags) \in Seq(C) /\ (QuotedIn(Tags(tags), q) <=> Listed(q, tags))
  BY <1>4 DEF ListsOnly
<1>6. QuotedIn(Tags(tags) \o <<Closing>>, q) <=> Listed(q, tags)
  <2>1. Closing \in C BY <1>1
  <2> QED BY <1>5, <2>1, ClosedLists
<1>7. JsonTags(tags) \in Seq(C) /\ (QuotedIn(JsonTags(tags), q) <=> Listed(q, tags))
  <2>1. JsonTags(tags) = Tags(tags) \o <<Closing>> BY TagsInJson
  <2>2. Tags(tags) \o <<Closing>> \in Seq(C)
    <3>1. <<Closing>> \in Seq(C) BY <1>1, OneIsSeq, Zenon
    <3> QED BY <1>5, <3>1, ConcatProperties
  <2> QED BY <1>6, <2>1, <2>2
<1>8. HasTag(q, tags) <=> QuotedIn(JsonTags(tags), q)
  <2>1. {"\\", "%", Quote} \subseteq C BY <1>1
  <2>2. Like(JsonTags(tags), <<"%", "\"">> \o escapeLikeLiteral(q) \o <<"\"", "%">>)
          <=> QuotedIn(JsonTags(tags), q)
    BY <1>7, <2>1, TagIsQuoted
  <2> QED BY <2>2, Zenon DEF HasTag
<1> QED BY <1>7, <1>8

\* The characters of what is searched and of JSON.
SearchedLetters == STRING \cup {"\\", "%", "\"", "[", "]", ","}

\* What the searches of the run are cut from.
LEMMA CutsType ==
  ASSUME TypingInv
  PROVE  Cuts \subseteq Seq(SearchedLetters)
<1> DEFINE L == SearchedLetters
           n == Len(scratch)
<1>1. n \in Nat /\ \A k \in 1..n : scratch[k] \in L
  <2>1. scratch \in Seq(Letters) BY DEF TypingInv
  <2>2. \A k \in 1..n : scratch[k] \in Letters BY <2>1
  <2>3. Letters \subseteq L BY TextsAssumption, Zenon DEF SearchedLetters
  <2>4. n \in Nat BY <2>1
  <2> QED BY <2>2, <2>3, <2>4
<1> HIDE DEF L, n
<1>2. ASSUME NEW i \in 1..(n + 1), NEW j \in 0..n PROVE SubSeq(scratch, i, j) \in Seq(L)
  <2>1. i \in Int /\ j \in Int OBVIOUS
  <2>2. \A k \in i..j : k \in 1..n BY <1>1
  <2>3. \A k \in i..j : scratch[k] \in L BY <1>1, <2>2
  <2> QED BY <2>1, <2>3, SubSeqProperties
<1> DEFINE cut(i, j) == SubSeq(scratch, i, j)
<1>3. Cuts = {cut(i, j) : i \in 1..(n + 1), j \in 0..n} BY DEF Cuts, n
<1> HIDE DEF cut
<1>4. \A i \in 1..(n + 1), j \in 0..n : cut(i, j) \in Seq(L) BY <1>2 DEF cut
<1>5. Cuts \subseteq Seq(L) BY <1>3, <1>4
<1> QED BY <1>5 DEF L

(* Searching and filtering in the library find what is asked for and       *)
(* nothing else but other cases of its letters, whatever was typed         *)
(* (promptRepo.list, escapeLikeLiteral).                                   *)
THEOREM FiltersFindOnlyWhatIsAsked == TypingSpec => []FiltersAreExact
<1> DEFINE L == SearchedLetters
<1>1. /\ {"\\", "%"} \subseteq L
      /\ {"\\", "%", "\"", "[", "]", ","} \subseteq L
  BY Zenon DEF SearchedLetters
<1>2. TypingInv => SearchIsLiteral
  <2> SUFFICES ASSUME TypingInv, NEW q \in Cuts, NEW t \in Cuts PROVE FoundIffContained(q, t)
    BY DEF SearchIsLiteral
  <2>1. q \in Seq(L) /\ t \in Seq(L) BY CutsType, Zenon
  <2> HIDE DEF L
  <2> QED BY <1>1, <2>1, SearchIsLiteralInEveryText, Zenon
<1>3. TypingInv => TagFilterIsExact
  <2> SUFFICES ASSUME TypingInv, NEW q \in {u \in Cuts : Plain(u)},
                      NEW a \in {u \in Cuts : Plain(u)}, NEW b \in {u \in Cuts : Plain(u)}
               PROVE  FoundIffListed(q, <<a, b>>)
    BY DEF TagFilterIsExact
  <2>1. q \in Seq(L) /\ a \in Seq(L) /\ b \in Seq(L) BY CutsType, Zenon
  <2> HIDE DEF L
  <2>2. a \in PlainTexts(L) /\ b \in PlainTexts(L) BY <2>1, Zenon DEF PlainTexts
  <2>3. <<a, b>> \in Seq(PlainTexts(L)) BY <2>2, TwoAreSeq, Zenon
  <2> QED BY <1>1, <2>1, <2>3, TagFilterIsExactOnEveryText, Zenon
<1>4. TypingInv => FiltersAreExact BY <1>2, <1>3 DEF FiltersAreExact
<1> QED BY <1>4, TypingCorrect, PTL
=============================================================================
