-------------------------- MODULE PromptEditorProofs --------------------------
(***************************************************************************)
(* The prompt editor, for any prompts and contents and any number of       *)
(* navigations and clicks.  That a quiet page is current says nothing of a *)
(* page with answers under way; the invariant says of them, while they are *)
(* taken in order, that the last one to set the page's status has the      *)
(* server's, and the last one to set its versions has the server's, unless *)
(* a load is still to be served or an answer to be taken will send one.    *)
(***************************************************************************)
EXTENDS PromptEditorView, SequenceTheorems, FiniteSetTheorems, TLAPS

USE NoneAssumption, SomeAssumption, BoundAssumption

\* Every prompt somebody is after exists, with a version.
ExistInv ==
  /\ \A p \in Prompts : Exists(p) <=> history[p] # <<>>
  /\ page # None => Exists(page)
  /\ \A r \in sent : Exists(r.prompt)
  /\ \A i \in DOMAIN answers :
       /\ Exists(answers[i].req.prompt)
       /\ answers[i].req.kind = "load" => answers[i].versions # <<>>
       /\ \A p \in answers[i].copies : Exists(p)

\* What is shown was loaded.  Only a page that was left has no instance.
ShownInv ==
  /\ detail # NoDetail =>
       form.content \in Contents /\ detail.of \in Prompts /\ detail.versions # <<>>
  /\ page = None => ~arrived /\ ~inOrder
  /\ mounts <= 1 + acts
  /\ page = None => mounts <= acts
  /\ FormIsOfPage

Mounted == (\A r \in sent : r.mount <= mounts)
           /\ \A i \in DOMAIN answers : answers[i].req.mount <= mounts

\* This instance is saving a version, or loading after it.
Saving(r) ==
  /\ r.mount = mounts
  /\ r.kind = "version" \/ (r.kind = "load" /\ r.arg = "version")

SavingInv ==
  /\ Mounted
  /\ \A r, s \in sent : Saving(r) /\ Saving(s) => r = s
  /\ \A r \in sent, i \in DOMAIN answers : ~(Saving(r) /\ Saving(answers[i].req))
  /\ \A i, k \in DOMAIN answers :
       Saving(answers[i].req) /\ Saving(answers[k].req) => i = k
  /\ page # None /\ ~savingVersion =>
       /\ \A r \in sent : ~Saving(r)
       /\ \A i \in DOMAIN answers : ~Saving(answers[i].req)

\* The answers that will set the page's status; its versions; or send a load.
Sets(a) == a.ok /\ a.req.prompt = page /\ a.req.kind \in {"load", "save", "archive"}
Lists(a) == a.ok /\ a.req.prompt = page /\ a.req.kind = "load"
Reloads(a) == a.ok /\ a.req.prompt = page /\ a.req.kind \in {"version", "restore"}

LoadIsSent == \E r \in sent : r.kind = "load" /\ r.prompt = page

StatusIsComing ==
  /\ \A i \in DOMAIN answers :
       Sets(answers[i]) /\ (\A k \in DOMAIN answers : i < k => ~Sets(answers[k])) =>
         answers[i].status = meta[page].status
  /\ arrived /\ (\A i \in DOMAIN answers : ~Sets(answers[i])) =>
       detail.status = meta[page].status

VersionsAreComing ==
  /\ \A i \in DOMAIN answers :
       Lists(answers[i]) /\ (\A k \in DOMAIN answers : i < k => ~Lists(answers[k])) =>
         answers[i].versions = history[page]
  /\ arrived /\ (\A i \in DOMAIN answers : ~Lists(answers[i])) =>
       detail.versions = history[page]

OrderInv ==
  inOrder =>
    /\ \A r \in sent : r.prompt = page => r.mount = mounts
    /\ \A i \in DOMAIN answers :
         answers[i].req.prompt = page => answers[i].req.mount = mounts
    /\ ~LoadIsSent => StatusIsComing
    /\ ~LoadIsSent /\ (\A i \in DOMAIN answers : ~Reloads(answers[i])) =>
         VersionsAreComing

IInv == TypeOK /\ ExistInv /\ ShownInv /\ SavingInv /\ OrderInv

-----------------------------------------------------------------------------
(* Sequences of answers.                                                   *)

\* The answers left are answers there were, each at most once.
Part(f) ==
  /\ answers' \in Seq(Answers)
  /\ \A k \in DOMAIN answers' :
       f[k] \in DOMAIN answers /\ answers'[k] = answers[f[k]]
  /\ \A k, l \in DOMAIN answers' : f[k] = f[l] => k = l

LEMMA WireFacts ==
  ASSUME TypeOK
  PROVE  /\ answers \in Seq(Answers) /\ Len(answers) \in Nat
         /\ DOMAIN answers = 1..Len(answers)
         /\ \A i \in DOMAIN answers :
              /\ answers[i] \in Answers /\ answers[i].req \in Requests
              /\ answers[i].ok \in BOOLEAN /\ answers[i].status \in Statuses
              /\ answers[i].versions \in Seq(Contents)
              /\ answers[i].copies \subseteq Prompts
         /\ \A r \in sent : r \in Requests
         /\ \A r \in Requests :
              /\ r.prompt \in Prompts /\ r.mount \in 1..(1 + MaxActs)
              /\ r.by \in 0..MaxActs
              /\ r.kind \in {"load", "save", "archive", "version", "restore", "duplicate"}
<1>1. answers \in Seq(Answers) /\ sent \subseteq Requests
  BY DEF TypeOK, WireOK
<1>2. /\ Len(answers) \in Nat /\ DOMAIN answers = 1..Len(answers)
      /\ \A i \in DOMAIN answers : answers[i] \in Answers
  BY <1>1, LenProperties, ElementOfSeq
<1>3. \A a \in Answers : /\ a.req \in Requests /\ a.ok \in BOOLEAN
                         /\ a.status \in Statuses /\ a.versions \in Seq(Contents)
                         /\ a.copies \subseteq Prompts
  BY DEF Answers
<1>4. \A r \in Requests :
        /\ r.prompt \in Prompts /\ r.mount \in 1..(1 + MaxActs) /\ r.by \in 0..MaxActs
        /\ r.kind \in {"load", "save", "archive", "version", "restore", "duplicate"}
  BY DEF Requests
<1> QED
  BY <1>1, <1>2, <1>3, <1>4

LEMMA RemovedFacts ==
  ASSUME TypeOK, NEW i \in DOMAIN answers, answers' = RemoveAt(answers, i)
  PROVE  /\ answers' \in Seq(Answers) /\ DOMAIN answers' = 1..(Len(answers) - 1)
         /\ \A k \in DOMAIN answers' :
              answers'[k] = answers[IF k < i THEN k ELSE k + 1]
<1>1. /\ answers \in Seq(Answers) /\ Len(answers) \in Nat /\ i \in 1..Len(answers)
      /\ \A k \in 1..Len(answers) : answers[k] \in Answers
  BY WireFacts
<1> DEFINE n == Len(answers)
           s == SubSeq(answers, 1, i - 1)
           t == SubSeq(answers, i + 1, n)
<1>2. answers' = s \o t
  BY DEF RemoveAt
<1>3. /\ s \in Seq(Answers) /\ Len(s) = i - 1
      /\ \A k \in 1..(i - 1) : s[k] = answers[k]
  <2>1. 1 \in Int /\ i - 1 \in Int /\ \A k \in 1..(i - 1) : answers[k] \in Answers
    BY <1>1
  <2>2. /\ SubSeq(answers, 1, i - 1) \in Seq(Answers)
        /\ Len(SubSeq(answers, 1, i - 1)) = IF 1 <= i - 1 THEN (i - 1) - 1 + 1 ELSE 0
        /\ \A k \in 1..((i - 1) - 1 + 1) :
             SubSeq(answers, 1, i - 1)[k] = answers[1 + k - 1]
    BY <2>1, SubSeqProperties
  <2>3. QED
    BY <1>1, <2>2
<1>4. /\ t \in Seq(Answers) /\ Len(t) = n - i
      /\ \A k \in 1..(n - i) : t[k] = answers[i + k]
  <2>1. i + 1 \in Int /\ n \in Int /\ \A k \in (i + 1)..n : answers[k] \in Answers
    BY <1>1
  <2>2. /\ SubSeq(answers, i + 1, n) \in Seq(Answers)
        /\ Len(SubSeq(answers, i + 1, n)) = IF i + 1 <= n THEN n - (i + 1) + 1 ELSE 0
        /\ \A k \in 1..(n - (i + 1) + 1) :
             SubSeq(answers, i + 1, n)[k] = answers[(i + 1) + k - 1]
    BY <2>1, SubSeqProperties
  <2>3. QED
    BY <1>1, <2>2
<1> HIDE DEF s, t
<1>5. /\ s \o t \in Seq(Answers) /\ Len(s \o t) = Len(s) + Len(t)
      /\ \A k \in 1..(Len(s) + Len(t)) :
           (s \o t)[k] = IF k <= Len(s) THEN s[k] ELSE t[k - Len(s)]
  BY <1>3, <1>4, ConcatProperties
<1>6. Len(s) + Len(t) = n - 1
  BY <1>1, <1>3, <1>4
<1>7. answers' \in Seq(Answers) /\ DOMAIN answers' = 1..(n - 1)
  BY <1>2, <1>5, <1>6, LenProperties
<1>8. ASSUME NEW k \in 1..(n - 1)
      PROVE  answers'[k] = answers[IF k < i THEN k ELSE k + 1]
  <2>1. CASE k < i
    <3>1. k <= Len(s) /\ k \in 1..(i - 1)
      BY <1>1, <1>3, <2>1
    <3>2. QED
      BY <1>2, <1>3, <1>5, <1>6, <2>1, <3>1
  <2>2. CASE ~(k < i)
    <3>1. /\ ~(k <= Len(s)) /\ k - Len(s) \in 1..(n - i)
          /\ i + (k - Len(s)) = k + 1
      BY <1>1, <1>3, <2>2
    <3>2. (s \o t)[k] = t[k - Len(s)]
      BY <1>5, <1>6, <3>1
    <3>3. t[k - Len(s)] = answers[k + 1]
      BY <1>4, <3>1
    <3>4. QED
      BY <1>2, <2>2, <3>2, <3>3
  <2>3. QED
    BY <2>1, <2>2
<1> QED
  BY <1>7, <1>8

LEMMA RemovedIsPart ==
  ASSUME TypeOK, NEW i \in DOMAIN answers, answers' = RemoveAt(answers, i)
  PROVE  /\ Part([k \in DOMAIN answers' |-> IF k < i THEN k ELSE k + 1])
         /\ \A k \in DOMAIN answers' : (IF k < i THEN k ELSE k + 1) # i
<1>1. Len(answers) \in Nat /\ i \in 1..Len(answers) /\ DOMAIN answers = 1..Len(answers)
  BY WireFacts
<1>2. /\ answers' \in Seq(Answers) /\ DOMAIN answers' = 1..(Len(answers) - 1)
      /\ \A k \in DOMAIN answers' : answers'[k] = answers[IF k < i THEN k ELSE k + 1]
  BY RemovedFacts
<1>3. \A k \in DOMAIN answers' :
        /\ (IF k < i THEN k ELSE k + 1) \in DOMAIN answers
        /\ (IF k < i THEN k ELSE k + 1) # i
  BY <1>1, <1>2
<1>4. \A k, l \in DOMAIN answers' :
        (IF k < i THEN k ELSE k + 1) = (IF l < i THEN l ELSE l + 1) => k = l
  BY <1>1, <1>2
<1> QED
  BY <1>2, <1>3, <1>4 DEF Part

LEMMA SameIsPart ==
  ASSUME TypeOK, answers' = answers
  PROVE  Part([k \in DOMAIN answers' |-> k])
BY WireFacts DEF Part

\* What holds of a request that was sent holds of it until it is forgotten.
LEMMA PartKeeps ==
  ASSUME IInv, NEW f, Part(f), NEW more \in SUBSET Requests,
         sent' \subseteq sent \cup more, UNCHANGED historyVars,
         \A r \in more : ArgFits(r) /\ Exists(r.prompt),
         page' # None => Exists(page')
  PROVE  ServerOK' /\ WireOK' /\ ExistInv'
<1>1. history' = history /\ meta' = meta
  BY DEF historyVars
<1>2. \A p : Exists(p)' <=> Exists(p)
  BY <1>1 DEF Exists
<1>3. /\ answers' \in Seq(Answers)
      /\ \A k \in DOMAIN answers' : f[k] \in DOMAIN answers /\ answers'[k] = answers[f[k]]
  BY DEF Part
<1>4. ServerOK'
  BY <1>1 DEF IInv, TypeOK, ServerOK
<1>5. WireOK'
  <2>1. sent' \subseteq Requests
    BY DEF IInv, TypeOK, WireOK
  <2>2. \A r \in sent' : ArgFits(r)
    BY DEF IInv, TypeOK, WireOK, InFlight
  <2>3. \A i \in DOMAIN answers : ArgFits(answers[i].req)
    BY DEF IInv, TypeOK, WireOK, InFlight
  <2>4. \A k \in DOMAIN answers' : ArgFits(answers'[k].req)
    BY <1>3, <2>3
  <2>5. QED
    BY <1>3, <2>1, <2>2, <2>4 DEF WireOK, InFlight, ArgFits
<1>6. ExistInv'
  <2>1. \A p \in Prompts : Exists(p)' <=> history'[p] # <<>>
    BY <1>1, <1>2 DEF IInv, ExistInv
  <2>2. \A r \in sent' : Exists(r.prompt)
    BY DEF IInv, ExistInv
  <2>3. \A k \in DOMAIN answers' :
          /\ Exists(answers'[k].req.prompt)
          /\ answers'[k].req.kind = "load" => answers'[k].versions # <<>>
          /\ \A p \in answers'[k].copies : Exists(p)
    BY <1>3 DEF IInv, ExistInv
  <2>4. QED
    BY <1>2, <2>1, <2>2, <2>3 DEF ExistInv, Exists
<1> QED
  BY <1>4, <1>5, <1>6

LEMMA PartSaving ==
  ASSUME IInv, NEW f, Part(f), NEW more,
         sent' \subseteq sent \cup more, mounts' = mounts,
         \A r \in more : r.mount <= mounts /\ ~Saving(r),
         (page' # None /\ ~savingVersion') =>
           \/ page # None /\ ~savingVersion
           \/ /\ \A r \in sent' : ~Saving(r)
              /\ \A k \in DOMAIN answers' : ~Saving(answers'[k].req)
  PROVE  SavingInv'
<1>1. \A r : Saving(r)' <=> Saving(r)
  BY DEF Saving
<1>2. /\ \A k \in DOMAIN answers' : f[k] \in DOMAIN answers /\ answers'[k] = answers[f[k]]
      /\ \A k, l \in DOMAIN answers' : f[k] = f[l] => k = l
  BY DEF Part
<1>3. \A r \in sent' : r \in sent \/ (r.mount <= mounts /\ ~Saving(r))
  OBVIOUS
<1>4. Mounted'
  BY <1>2, <1>3 DEF IInv, SavingInv, Mounted
<1>5. \A r, s \in sent' : Saving(r) /\ Saving(s) => r = s
  BY <1>3 DEF IInv, SavingInv
<1>6. \A r \in sent', k \in DOMAIN answers' : ~(Saving(r) /\ Saving(answers'[k].req))
  BY <1>2, <1>3 DEF IInv, SavingInv
<1>7. \A k, l \in DOMAIN answers' :
        Saving(answers'[k].req) /\ Saving(answers'[l].req) => k = l
  BY <1>2 DEF IInv, SavingInv
<1>8. page' # None /\ ~savingVersion' =>
        /\ \A r \in sent' : ~Saving(r)
        /\ \A k \in DOMAIN answers' : ~Saving(answers'[k].req)
  <2>1. CASE page # None /\ ~savingVersion
    BY <1>2, <1>3, <2>1 DEF IInv, SavingInv
  <2>2. CASE ~(page # None /\ ~savingVersion)
    BY <2>2
  <2>3. QED
    BY <2>1, <2>2
<1> QED
  BY <1>4, <1>5, <1>6, <1>7, <1>8 DEF SavingInv, Saving

\* What the page shows once the i-th answer has been taken.
ShowsAnswer(i) ==
  /\ Sets(answers[i]) /\ arrived' => detail'.status = answers[i].status
  /\ ~Sets(answers[i]) => detail'.status = detail.status
  /\ Lists(answers[i]) => detail'.versions = answers[i].versions
  /\ ~Lists(answers[i]) => detail'.versions = detail.versions
  /\ arrived' => arrived \/ Lists(answers[i])

\* Taking an answer in its turn.
LEMMA TakenKeepsOrder ==
  ASSUME IInv, NEW i \in DOMAIN answers, answers' = RemoveAt(answers, i),
         UNCHANGED <<history, meta, page, mounts>>,
         inOrder' => inOrder /\ i = 1,
         sent \subseteq sent',
         \A r \in sent' :
           r \in sent \/ (r.mount = answers[i].req.mount /\ r.prompt = answers[i].req.prompt),
         inOrder' /\ Reloads(answers[i]) => LoadIsSent',
         inOrder' => ShowsAnswer(i)
  PROVE  OrderInv'
<1> SUFFICES ASSUME inOrder'
             PROVE  OrderInv'
  BY DEF OrderInv
<1>1. i = 1 /\ inOrder
  OBVIOUS
<1>0. ShowsAnswer(1)
  BY <1>1
<1>2. /\ DOMAIN answers' = 1..(Len(answers) - 1)
      /\ \A k \in DOMAIN answers' : answers'[k] = answers[k + 1]
  BY <1>1, RemovedFacts DEF IInv
<1>3. Len(answers) \in Nat /\ DOMAIN answers = 1..Len(answers)
  BY WireFacts DEF IInv
<1>4. /\ \A k \in DOMAIN answers' : k + 1 \in DOMAIN answers /\ k \in Nat
      /\ \A h \in DOMAIN answers : h # 1 => h - 1 \in DOMAIN answers' /\ (h - 1) + 1 = h
      /\ 1 \in DOMAIN answers
  BY <1>1, <1>2, <1>3
<1>5. \A h \in DOMAIN answers : h # 1 => answers[h] = answers'[h - 1]
  BY <1>2, <1>4
<1>6. \A a : /\ Sets(a)' <=> Sets(a)
             /\ Lists(a)' <=> Lists(a)
             /\ Reloads(a)' <=> Reloads(a)
             /\ Lists(a) => Sets(a)
  BY DEF Sets, Lists, Reloads
<1>7. LoadIsSent => LoadIsSent'
  BY DEF LoadIsSent
<1>8. \A r \in sent' : r.prompt = page => r.mount = mounts
  BY DEF IInv, OrderInv
<1>9. \A k \in DOMAIN answers' :
        answers'[k].req.prompt = page => answers'[k].req.mount = mounts
  BY <1>1, <1>2, <1>4 DEF IInv, OrderInv
<1>10. ASSUME ~LoadIsSent'
       PROVE  StatusIsComing'
  <2>1. StatusIsComing
    BY <1>1, <1>7, <1>10 DEF IInv, OrderInv
  <2>2. ASSUME NEW k \in DOMAIN answers', Sets(answers'[k]),
               \A l \in DOMAIN answers' : k < l => ~Sets(answers'[l])
        PROVE  answers'[k].status = meta[page].status
    <3>1. \A h \in DOMAIN answers : k + 1 < h => h # 1 /\ k < h - 1
      BY <1>3, <1>4
    <3>2. \A h \in DOMAIN answers : k + 1 < h => ~Sets(answers[h])
      BY <1>4, <1>5, <2>2, <3>1
    <3>3. k + 1 \in DOMAIN answers /\ answers'[k] = answers[k + 1]
      BY <1>2, <1>4
    <3>4. QED
      BY <2>1, <2>2, <3>2, <3>3 DEF StatusIsComing
  <2>3. ASSUME arrived', \A k \in DOMAIN answers' : ~Sets(answers'[k])
        PROVE  detail'.status = meta[page].status
    <3>1. \A h \in DOMAIN answers : h # 1 => ~Sets(answers[h])
      BY <1>4, <1>5, <2>3
    <3>2. CASE Sets(answers[1])
      <4>1. \A h \in DOMAIN answers : 1 < h => ~Sets(answers[h])
        BY <1>3, <3>1
      <4>2. QED
        BY <1>0, <1>1, <1>4, <2>1, <2>3, <3>2, <4>1 DEF StatusIsComing, ShowsAnswer
    <3>3. CASE ~Sets(answers[1])
      <4>1. arrived /\ detail'.status = detail.status
        BY <1>0, <1>1, <1>6, <2>3, <3>3 DEF ShowsAnswer
      <4>2. \A h \in DOMAIN answers : ~Sets(answers[h])
        BY <3>1, <3>3
      <4>3. QED
        BY <2>1, <4>1, <4>2 DEF StatusIsComing
    <3>4. QED
      BY <3>2, <3>3
  <2>4. QED
    BY <1>6, <2>2, <2>3 DEF StatusIsComing
<1>11. ASSUME ~LoadIsSent', \A k \in DOMAIN answers' : ~Reloads(answers'[k])
       PROVE  VersionsAreComing'
  <2>1. VersionsAreComing
    <3>1. ~Reloads(answers[1])
      BY <1>1, <1>11
    <3>2. \A h \in DOMAIN answers : ~Reloads(answers[h])
      BY <1>4, <1>5, <1>11, <3>1
    <3>3. QED
      BY <1>1, <1>7, <1>11, <3>2 DEF IInv, OrderInv
  <2>2. ASSUME NEW k \in DOMAIN answers', Lists(answers'[k]),
               \A l \in DOMAIN answers' : k < l => ~Lists(answers'[l])
        PROVE  answers'[k].versions = history[page]
    <3>1. \A h \in DOMAIN answers : k + 1 < h => h # 1 /\ k < h - 1
      BY <1>3, <1>4
    <3>2. \A h \in DOMAIN answers : k + 1 < h => ~Lists(answers[h])
      BY <1>4, <1>5, <2>2, <3>1
    <3>3. k + 1 \in DOMAIN answers /\ answers'[k] = answers[k + 1]
      BY <1>2, <1>4
    <3>4. QED
      BY <2>1, <2>2, <3>2, <3>3 DEF VersionsAreComing
  <2>3. ASSUME arrived', \A k \in DOMAIN answers' : ~Lists(answers'[k])
        PROVE  detail'.versions = history[page]
    <3>1. \A h \in DOMAIN answers : h # 1 => ~Lists(answers[h])
      BY <1>4, <1>5, <2>3
    <3>2. CASE Lists(answers[1])
      <4>1. \A h \in DOMAIN answers : 1 < h => ~Lists(answers[h])
        BY <1>3, <3>1
      <4>2. QED
        BY <1>0, <1>1, <1>4, <2>1, <3>2, <4>1 DEF VersionsAreComing, ShowsAnswer
    <3>3. CASE ~Lists(answers[1])
      <4>1. arrived /\ detail'.versions = detail.versions
        BY <1>0, <1>1, <2>3, <3>3 DEF ShowsAnswer
      <4>2. \A h \in DOMAIN answers : ~Lists(answers[h])
        BY <3>1, <3>3
      <4>3. QED
        BY <2>1, <4>1, <4>2 DEF VersionsAreComing
    <3>4. QED
      BY <3>2, <3>3
  <2>4. QED
    BY <1>6, <2>2, <2>3 DEF VersionsAreComing
<1> QED
  BY <1>8, <1>9, <1>10, <1>11 DEF OrderInv, Reloads

-----------------------------------------------------------------------------
(* The app is opened; the user edits, clicks, comes and goes.              *)

LEMMA InitInvariant == Init => IInv
<1> SUFFICES ASSUME Init PROVE IInv
  OBVIOUS
<1> DEFINE c == CHOOSE x \in Contents : TRUE
           n == CHOOSE x \in Names : TRUE
           q == LoadFor(page, 1, "arrival", 0)
<1>1. page \in Library /\ page \in Prompts /\ page # None
  BY DEF Init
<1>2. c \in Contents /\ n \in Names
  OBVIOUS
<1> HIDE DEF c, n
<1>3. /\ history = [p \in Prompts |-> IF p \in Library THEN <<c>> ELSE <<>>]
      /\ meta = [p \in Prompts |-> IF p \in Library
                                     THEN [name |-> n, status |-> "active"] ELSE NoMeta]
      /\ sent = {q} /\ answers = <<>>
  BY DEF Init, c, n
<1>4. /\ mounts = 1 /\ detail = NoDetail /\ form = BlankForm /\ acts = 0
      /\ savingMeta = FALSE /\ savingVersion = FALSE
      /\ arrived = FALSE /\ inOrder = TRUE
  BY DEF Init
<1>5. /\ q.kind = "load" /\ q.prompt = page /\ q.mount = 1 /\ q.arg = "arrival"
      /\ q \in Requests
  BY <1>1 DEF LoadFor, Request, Requests, NoVersion
<1> HIDE DEF q
<1>6. /\ answers \in Seq(Answers) /\ DOMAIN answers = {} /\ InFlight = {q}
  BY <1>3 DEF InFlight
<1>7. WireOK
  BY <1>3, <1>5, <1>6 DEF WireOK, ArgFits
<1>8. ServerOK
  <2>1. <<>> \in Seq(Contents) /\ <<c>> \in Seq(Contents)
    BY <1>2
  <2>2. [name |-> n, status |-> "active"] \in Metas
    BY <1>2 DEF Metas, Statuses
  <2>3. QED
    BY <1>3, <2>1, <2>2 DEF ServerOK
<1>9. PageOK
  <2>1. /\ NoDetail \in [status : Statuses \cup {"none"}, of : Prompts \cup {None},
                         versions : Seq(Contents)]
        /\ BlankForm \in [status : Statuses, content : Contents \cup {""},
                          of : Prompts \cup {None}]
    BY DEF NoDetail, BlankForm, Statuses
  <2>2. 1 \in 1..(1 + MaxActs) /\ 0 \in 0..MaxActs
    OBVIOUS
  <2>3. QED
    BY <1>1, <1>4, <2>1, <2>2 DEF PageOK
<1>10. ExistInv
  <2>1. <<c>> # <<>> /\ [name |-> n, status |-> "active"] # NoMeta
    BY DEF NoMeta
  <2>2. \A p \in Prompts : /\ Exists(p) <=> p \in Library
                           /\ history[p] # <<>> <=> p \in Library
    BY <1>3, <2>1 DEF Exists
  <2>3. QED
    BY <1>1, <1>3, <1>5, <1>6, <2>2 DEF ExistInv
<1>11. ShownInv
  BY <1>1, <1>4 DEF ShownInv, FormIsOfPage
<1>12. SavingInv
  BY <1>3, <1>4, <1>5, <1>6 DEF SavingInv, Saving, Mounted
<1>13. OrderInv
  BY <1>3, <1>4, <1>5, <1>6 DEF OrderInv, LoadIsSent
<1> QED
  BY <1>7, <1>8, <1>9, <1>10, <1>11, <1>12, <1>13 DEF IInv, TypeOK

\* Steps that leave what is shown of the prompt, the server and the wire alone.
LEMMA EditStep ==
  ASSUME IInv, Fill, form'.content \in Contents, form'.of = form.of,
         form' \in [status : Statuses, content : Contents \cup {""},
                   of : Prompts \cup {None}]
  PROVE  IInv'
<1>1. UNCHANGED <<history, meta, page, mounts, detail, savingMeta, savingVersion,
                  sent, answers, acts, arrived, inOrder>>
  BY DEF Fill, historyVars
<1>2. ServerOK' /\ PageOK' /\ WireOK'
  BY <1>1 DEF IInv, TypeOK, ServerOK, PageOK, WireOK, InFlight
<1>3. ExistInv' /\ ShownInv'
  BY <1>1 DEF IInv, ExistInv, ShownInv, FormIsOfPage, Exists
<1>4. SavingInv'
  BY <1>1 DEF IInv, SavingInv, Saving, Mounted
<1>5. OrderInv'
  BY <1>1 DEF IInv, OrderInv, LoadIsSent, StatusIsComing, VersionsAreComing,
              Sets, Lists, Reloads
<1> QED
  BY <1>2, <1>3, <1>4, <1>5 DEF IInv, TypeOK

LEMMA EditSteps ==
  ASSUME IInv, \/ \E c \in Contents : EditContent(c)
               \/ \E x \in Statuses : EditStatus(x)
  PROVE  IInv'
<1>1. /\ form \in [status : Statuses, content : Contents \cup {""},
                   of : Prompts \cup {None}]
      /\ detail # NoDetail => form.content \in Contents
  BY DEF IInv, TypeOK, PageOK, ShownInv
<1>2. CASE \E c \in Contents : EditContent(c)
  BY <1>1, <1>2, EditStep DEF EditContent
<1>3. CASE \E x \in Statuses : EditStatus(x)
  BY <1>1, <1>3, EditStep DEF EditStatus, Fill, Ready
<1> QED
  BY <1>2, <1>3

\* Save new version is locked by its click; other clicks leave the lock alone.
Locks(kind) ==
  /\ savingMeta' \in BOOLEAN /\ savingVersion' \in BOOLEAN
  /\ kind = "version" => ~savingVersion /\ savingVersion'
  /\ kind # "version" => (savingVersion' <=> savingVersion)

LEMMA ActFacts ==
  ASSUME IInv, acts < MaxActs
  PROVE  /\ acts + 1 \in 0..MaxActs
         /\ mounts \in 1..(1 + MaxActs) /\ mounts <= mounts
         /\ mounts <= 1 + (acts + 1)
         /\ page = None => mounts + 1 <= 1 + (acts + 1)
         /\ mounts <= acts + 1
         /\ page # None => page \in Prompts
<1>1. /\ acts \in 0..MaxActs /\ mounts \in 1..(1 + MaxActs)
      /\ mounts <= 1 + acts /\ (page = None => mounts <= acts)
      /\ page \in Prompts \cup {None}
  BY DEF IInv, TypeOK, PageOK, ShownInv
<1> QED
  BY <1>1

LEMMA ClickStep ==
  ASSUME IInv, NEW kind \in {"save", "archive", "version", "restore", "duplicate"},
         NEW arg \in Statuses \cup Contents \cup {""},
         NEW version \in [of : Prompts \cup {None}, number : Nat],
         Click(kind, arg, version),
         kind = "save" => arg \in Statuses, kind = "version" => arg \in Contents,
         Locks(kind)
  PROVE  IInv'
<1> DEFINE q == Request(kind, page, mounts, arg, version, acts + 1)
<1>1. /\ page # None /\ acts < MaxActs /\ acts' = acts + 1 /\ sent' = sent \cup {q}
      /\ UNCHANGED <<history, meta, page, mounts, detail, form, answers, arrived, inOrder>>
      /\ UNCHANGED historyVars
  BY DEF Click, Ready, historyVars
<1>2. /\ acts + 1 \in 0..MaxActs /\ mounts \in 1..(1 + MaxActs) /\ page \in Prompts
      /\ mounts <= mounts /\ mounts <= 1 + (acts + 1)
  BY <1>1, ActFacts
<1>3. q \in Requests
  BY <1>1, <1>2 DEF Request, Requests
<1>4. q.kind = kind /\ q.prompt = page /\ q.mount = mounts /\ q.arg = arg
  BY DEF Request
<1> HIDE DEF q
<1>5. Part([k \in DOMAIN answers' |-> k])
  BY <1>1, SameIsPart DEF IInv
<1>6. Exists(page) /\ page' = page
  BY <1>1 DEF IInv, ExistInv
<1>7. ServerOK' /\ WireOK' /\ ExistInv'
  <2>1. \A r \in {q} : ArgFits(r) /\ Exists(r.prompt)
    BY <1>4, <1>6 DEF ArgFits
  <2>2. {q} \in SUBSET Requests /\ sent' \subseteq sent \cup {q}
    BY <1>1, <1>3
  <2>3. QED
    BY <1>1, <1>5, <1>6, <2>1, <2>2, PartKeeps
<1>8. PageOK'
  BY <1>1, <1>2 DEF IInv, TypeOK, PageOK, Locks
<1>9. ShownInv'
  <2>1. mounts' = mounts /\ acts' = acts + 1
    BY <1>1
  <2>2. mounts' <= 1 + acts'
    BY <1>2, <2>1
  <2>3. QED
    BY <1>1, <2>2 DEF IInv, ShownInv, FormIsOfPage
<1>10. SavingInv'
  <2>1. CASE kind = "version"
    <3>1. /\ \A r \in sent : ~Saving(r)
          /\ \A i \in DOMAIN answers : ~Saving(answers[i].req)
      BY <1>1, <2>1 DEF IInv, SavingInv, Locks
    <3>2. Mounted'
      <4>1. q.mount <= mounts
        BY <1>2, <1>4
      <4>2. /\ mounts' = mounts /\ answers' = answers
            /\ \A r \in sent' : r \in sent \/ r = q
        BY <1>1
      <4>3. QED
        BY <4>1, <4>2 DEF IInv, SavingInv, Mounted
    <3>3. /\ \A r : Saving(r)' <=> Saving(r)
          /\ answers' = answers
          /\ \A r \in sent' : r \in sent \/ r = q
      BY <1>1 DEF Saving
    <3>4. \A r, x \in sent' : Saving(r) /\ Saving(x) => r = x
      BY <3>1, <3>3
    <3>5. \A r \in sent', i \in DOMAIN answers' : ~(Saving(r) /\ Saving(answers'[i].req))
      BY <3>1, <3>3
    <3>6. QED
      BY <1>1, <2>1, <3>1, <3>2, <3>3, <3>4, <3>5 DEF SavingInv, Saving, Locks
  <2>2. CASE kind # "version"
    <3>1. \A r \in {q} : r.mount <= mounts /\ ~Saving(r)
      <4>1. q.mount <= mounts
        BY <1>2, <1>4
      <4>2. ~Saving(q)
        BY <1>4, <2>2 DEF Saving
      <4>3. QED
        BY <4>1, <4>2
    <3>2. sent' \subseteq sent \cup {q}
      BY <1>1
    <3>3. (page' # None /\ ~savingVersion') =>
            \/ page # None /\ ~savingVersion
            \/ /\ \A r \in sent' : ~Saving(r)
               /\ \A k \in DOMAIN answers' : ~Saving(answers'[k].req)
      BY <1>1, <2>2 DEF Locks
    <3>4. mounts' = mounts
      BY <1>1
    <3> DEFINE same == [k \in DOMAIN answers' |-> k]
    <3>5. Part(same)
      BY <1>5
    <3> HIDE DEF same
    <3>6. QED
      BY <3>1, <3>2, <3>3, <3>4, <3>5, PartSaving, Zenon
  <2>3. QED
    BY <2>1, <2>2
<1>11. OrderInv'
  <2>1. LoadIsSent' <=> LoadIsSent
    BY <1>1, <1>4 DEF LoadIsSent
  <2>2. StatusIsComing' <=> StatusIsComing
    BY <1>1 DEF StatusIsComing, Sets
  <2>3. VersionsAreComing' <=> VersionsAreComing
    BY <1>1 DEF VersionsAreComing, Lists
  <2>4. QED
    BY <1>1, <1>4, <2>1, <2>2, <2>3 DEF IInv, OrderInv, Reloads
<1> QED
  BY <1>7, <1>8, <1>9, <1>10, <1>11 DEF IInv, TypeOK

\* Coming to a page, with a new instance or with the one that is there.
LEMMA ShowSaving ==
  ASSUME IInv, NEW p, NEW by, Show(p, by), NEW f, Part(f)
  PROVE  SavingInv'
<1> DEFINE mount == IF page = None THEN mounts + 1 ELSE mounts
           q == LoadFor(p, mount, "arrival", by)
<1>1. mounts' = mount /\ sent' = sent \cup {q}
  BY DEF Show
<1>2. q.mount = mount /\ q.arg = "arrival" /\ q.kind = "load"
  BY DEF LoadFor, Request
<1> HIDE DEF q
<1>3. CASE page = None
  <2>1. mounts' = mounts + 1 /\ q.mount = mounts + 1
    BY <1>1, <1>2, <1>3
  <2>2. mounts \in Nat
    <3>1. mounts \in 1..(1 + MaxActs)
      BY DEF IInv, TypeOK, PageOK
    <3>2. QED
      BY <3>1
  <2>3. /\ \A r \in sent : r.mount \in Nat /\ r.mount <= mounts
        /\ \A i \in DOMAIN answers :
             answers[i].req.mount \in Nat /\ answers[i].req.mount <= mounts
    <3>1. 1..(1 + MaxActs) \subseteq Nat
      OBVIOUS
    <3>2. QED
      BY <3>1, WireFacts DEF IInv, SavingInv, Mounted
  <2>4. /\ \A k \in DOMAIN answers' : f[k] \in DOMAIN answers /\ answers'[k] = answers[f[k]]
    BY DEF Part
  <2>5. /\ \A r \in sent' : r.mount <= mounts' /\ (r = q \/ r.mount # mounts')
        /\ \A k \in DOMAIN answers' :
             answers'[k].req.mount <= mounts' /\ answers'[k].req.mount # mounts'
    BY <1>1, <2>1, <2>2, <2>3, <2>4
  <2>6. /\ \A r \in sent' :
             r.mount = mounts' =>
               ~(r.kind = "version" \/ (r.kind = "load" /\ r.arg = "version"))
        /\ \A k \in DOMAIN answers' : answers'[k].req.mount # mounts'
    BY <1>2, <2>5
  <2>7. QED
    BY <2>5, <2>6 DEF SavingInv, Saving, Mounted
<1>4. CASE page # None
  <2>1. mounts' = mounts /\ q.mount = mounts /\ UNCHANGED shown
    BY <1>1, <1>2, <1>4 DEF Show
  <2>2. mounts \in 1..(1 + MaxActs)
    BY DEF IInv, TypeOK, PageOK
  <2>3. \A r \in {q} : r.mount <= mounts /\ ~Saving(r)
    <3>1. q.mount <= mounts
      BY <2>1, <2>2
    <3>2. ~Saving(q)
      BY <1>2 DEF Saving
    <3>3. QED
      BY <3>1, <3>2
  <2>4. sent' \subseteq sent \cup {q}
    BY <1>1
  <2>5. (page' # None /\ ~savingVersion') =>
          \/ page # None /\ ~savingVersion
          \/ /\ \A r \in sent' : ~Saving(r)
             /\ \A k \in DOMAIN answers' : ~Saving(answers'[k].req)
    BY <1>4, <2>1 DEF shown
  <2>6. QED
    BY <2>1, <2>3, <2>4, <2>5, PartSaving, Zenon
<1> QED
  BY <1>3, <1>4

LEMMA MountFits ==
  ASSUME NEW m \in 1..(1 + MaxActs), NEW a \in 0..MaxActs, m + 1 <= 1 + a
  PROVE  m + 1 \in 1..(1 + MaxActs)
OBVIOUS

LEMMA ShowStep ==
  ASSUME IInv, NEW p \in Prompts, NEW by \in 0..MaxActs, Show(p, by), Exists(p),
         NEW f, Part(f), UNCHANGED historyVars,
         acts' \in 0..MaxActs, mounts <= 1 + acts',
         page = None => mounts + 1 <= 1 + acts'
  PROVE  IInv'
<1> DEFINE mount == IF page = None THEN mounts + 1 ELSE mounts
           q == LoadFor(p, mount, "arrival", by)
<1>1. /\ page' = p /\ mounts' = mount /\ arrived' = FALSE
      /\ inOrder' = \A r \in InFlight : r.prompt = p => r.mount = mount
      /\ sent' = sent \cup {q}
      /\ page = None => /\ detail' = NoDetail /\ form' = BlankForm
                        /\ savingMeta' = FALSE /\ savingVersion' = FALSE
      /\ page # None => UNCHANGED shown
  BY DEF Show
<1>2. mount \in 1..(1 + MaxActs) /\ mount <= 1 + acts'
  <2>1. mounts \in 1..(1 + MaxActs)
    BY DEF IInv, TypeOK, PageOK
  <2>2. CASE page = None
    <3>1. mounts + 1 <= 1 + acts' /\ mount = mounts + 1
      BY <2>2
    <3>2. QED
      BY <2>1, <3>1, MountFits
  <2>3. CASE page # None
    BY <2>1, <2>3
  <2>4. QED
    BY <2>2, <2>3
<1>3. /\ q.prompt = p /\ q.mount = mount /\ q.arg = "arrival" /\ q.kind = "load"
      /\ q \in Requests
  BY <1>2 DEF LoadFor, Request, Requests, NoVersion
<1> HIDE DEF q, mount
<1>4. p # None
  OBVIOUS
<1>5. ServerOK' /\ WireOK' /\ ExistInv'
  <2>1. \A r \in {q} : ArgFits(r) /\ Exists(r.prompt)
    BY <1>3 DEF ArgFits
  <2>2. {q} \in SUBSET Requests /\ sent' \subseteq sent \cup {q}
    BY <1>1, <1>3
  <2>3. Exists(page')
    BY <1>1
  <2>4. QED
    BY <2>1, <2>2, <2>3, PartKeeps
<1>6. PageOK'
  <2>1. /\ NoDetail \in [status : Statuses \cup {"none"}, of : Prompts \cup {None},
                         versions : Seq(Contents)]
        /\ BlankForm \in [status : Statuses, content : Contents \cup {""},
                          of : Prompts \cup {None}]
    BY DEF NoDetail, BlankForm, Statuses
  <2>2. /\ detail' \in [status : Statuses \cup {"none"}, of : Prompts \cup {None},
                        versions : Seq(Contents)]
        /\ form' \in [status : Statuses, content : Contents \cup {""},
                      of : Prompts \cup {None}]
        /\ savingMeta' \in BOOLEAN /\ savingVersion' \in BOOLEAN
    BY <1>1, <2>1 DEF IInv, TypeOK, PageOK, shown
  <2>3. inOrder' \in BOOLEAN /\ arrived' \in BOOLEAN
    BY <1>1
  <2>4. QED
    BY <1>1, <1>2, <2>2, <2>3 DEF PageOK
<1>7. ShownInv'
  <2>1. detail' # NoDetail => form'.content \in Contents /\ detail'.of \in Prompts
                              /\ detail'.versions # <<>>
    BY <1>1 DEF IInv, ShownInv, shown
  <2>2. mounts' <= 1 + acts'
    BY <1>1, <1>2
  <2>3. QED
    BY <1>1, <1>4, <2>1, <2>2 DEF ShownInv, FormIsOfPage
<1>8. SavingInv'
  BY ShowSaving
<1>9. OrderInv'
  <2> SUFFICES ASSUME inOrder'
               PROVE  OrderInv'
    BY DEF OrderInv
  <2>1. \A r \in InFlight : r.prompt = p => r.mount = mount
    BY <1>1
  <2>2. \A r \in sent' : r.prompt = p => r.mount = mount
    BY <1>1, <1>3, <2>1 DEF InFlight
  <2>3. \A k \in DOMAIN answers' : answers'[k].req.prompt = p => answers'[k].req.mount = mount
    <3>1. \A k \in DOMAIN answers' : f[k] \in DOMAIN answers /\ answers'[k] = answers[f[k]]
      BY DEF Part
    <3>2. QED
      BY <2>1, <3>1 DEF InFlight
  <2>4. LoadIsSent'
    BY <1>1, <1>3 DEF LoadIsSent
  <2>5. QED
    BY <1>1, <2>2, <2>3, <2>4 DEF OrderInv
<1> QED
  BY <1>5, <1>6, <1>7, <1>8, <1>9 DEF IInv, TypeOK

LEMMA LeaveStep ==
  ASSUME IInv, Leave
  PROVE  IInv'
<1>1. /\ acts < MaxActs /\ acts' = acts + 1 /\ page' = None
      /\ detail' = NoDetail /\ form' = BlankForm
      /\ savingMeta' = FALSE /\ savingVersion' = FALSE
      /\ arrived' = FALSE /\ inOrder' = FALSE
      /\ UNCHANGED historyVars
      /\ mounts' = mounts /\ sent' = sent /\ answers' = answers
  BY DEF Leave
<1>2. acts' \in 0..MaxActs /\ mounts' \in 1..(1 + MaxActs)
      /\ mounts' <= acts' /\ mounts' <= 1 + acts'
  BY <1>1, ActFacts
<1> DEFINE same == [k \in DOMAIN answers' |-> k]
<1>3. Part(same)
  BY <1>1, SameIsPart DEF IInv
<1> HIDE DEF same
<1>4. ServerOK' /\ WireOK' /\ ExistInv'
  <2>1. /\ {} \in SUBSET Requests /\ sent' \subseteq sent \cup {}
        /\ \A r \in {} : ArgFits(r) /\ Exists(r.prompt)
        /\ page' # None => Exists(page')
    BY <1>1
  <2>2. QED
    BY <1>1, <1>3, <2>1, PartKeeps, Zenon
<1>5. PageOK'
  <2>1. /\ NoDetail \in [status : Statuses \cup {"none"}, of : Prompts \cup {None},
                         versions : Seq(Contents)]
        /\ BlankForm \in [status : Statuses, content : Contents \cup {""},
                          of : Prompts \cup {None}]
    BY DEF NoDetail, BlankForm, Statuses
  <2>2. QED
    BY <1>1, <1>2, <2>1 DEF PageOK
<1>6. ShownInv'
  BY <1>1, <1>2 DEF ShownInv, FormIsOfPage
<1>7. SavingInv'
  <2> DEFINE more == {}
  <2>1. /\ sent' \subseteq sent \cup more
        /\ \A r \in more : r.mount <= mounts /\ ~Saving(r)
    BY <1>1
  <2> HIDE DEF more
  <2>2. (page' # None /\ ~savingVersion') =>
          \/ page # None /\ ~savingVersion
          \/ /\ \A r \in sent' : ~Saving(r)
             /\ \A k \in DOMAIN answers' : ~Saving(answers'[k].req)
    BY <1>1
  <2>3. mounts' = mounts
    BY <1>1
  <2>4. QED
    BY <1>3, <2>1, <2>2, <2>3, PartSaving, Zenon
<1>8. OrderInv'
  BY <1>1 DEF OrderInv
<1> QED
  BY <1>4, <1>5, <1>6, <1>7, <1>8 DEF IInv, TypeOK

LEMMA GoToStep ==
  ASSUME IInv, NEW p \in Prompts, GoTo(p)
  PROVE  IInv'
<1>1. /\ acts < MaxActs /\ acts' = acts + 1 /\ Exists(p) /\ Show(p, acts + 1)
      /\ UNCHANGED historyVars /\ answers' = answers
  BY DEF GoTo
<1>2. /\ acts + 1 \in 0..MaxActs /\ mounts <= 1 + (acts + 1)
      /\ page = None => mounts + 1 <= 1 + (acts + 1)
  BY <1>1, ActFacts
<1> DEFINE same == [k \in DOMAIN answers' |-> k]
<1>3. Part(same)
  BY <1>1, SameIsPart DEF IInv
<1> HIDE DEF same
<1>4. /\ acts' \in 0..MaxActs /\ mounts <= 1 + acts'
      /\ page = None => mounts + 1 <= 1 + acts'
  BY <1>1, <1>2
<1> QED
  BY <1>1, <1>2, <1>3, <1>4, ShowStep

LEMMA ClickSteps ==
  ASSUME IInv, \/ ClickSaveDetails \/ ClickSaveVersion \/ ClickRestore
               \/ ClickArchive \/ ClickDuplicate
  PROVE  IInv'
<1>1. /\ savingMeta \in BOOLEAN /\ savingVersion \in BOOLEAN
      /\ form.status \in Statuses /\ detail.of \in Prompts \cup {None}
      /\ detail.versions \in Seq(Contents)
      /\ detail # NoDetail => form.content \in Contents
  BY DEF IInv, TypeOK, PageOK, ShownInv
<1>2. NoVersion \in [of : Prompts \cup {None}, number : Nat]
  BY DEF NoVersion
<1>3. CASE ClickSaveDetails
  <2>1. Click("save", form.status, NoVersion) /\ Locks("save")
    BY <1>1, <1>3 DEF ClickSaveDetails, Locks
  <2>2. QED
    BY <1>1, <1>2, <2>1, ClickStep
<1>4. CASE ClickSaveVersion
  <2>1. Click("version", form.content, NoVersion) /\ Locks("version")
    BY <1>1, <1>4 DEF ClickSaveVersion, CanSaveVersion, Locks
  <2>2. form.content \in Contents
    BY <1>1, <2>1 DEF Click, Ready
  <2>3. QED
    BY <1>2, <2>1, <2>2, ClickStep
<1>5. CASE ClickRestore
  <2>1. PICK k \in DOMAIN detail.versions : Click("restore", "", [of |-> detail.of, number |-> k])
    BY <1>5 DEF ClickRestore
  <2>2. Locks("restore")
    BY <1>1, <1>5 DEF ClickRestore, Locks
  <2>3. k \in Nat
    BY <1>1, LenProperties
  <2>4. [of |-> detail.of, number |-> k] \in [of : Prompts \cup {None}, number : Nat]
    BY <1>1, <2>3
  <2>5. QED
    BY <2>1, <2>2, <2>4, ClickStep
<1>6. CASE ClickArchive
  <2>1. Click("archive", "", NoVersion) /\ Locks("archive")
    BY <1>1, <1>6 DEF ClickArchive, Locks
  <2>2. QED
    BY <1>2, <2>1, ClickStep
<1>7. CASE ClickDuplicate
  <2>1. Click("duplicate", "", NoVersion) /\ Locks("duplicate")
    BY <1>1, <1>7 DEF ClickDuplicate, Locks
  <2>2. QED
    BY <1>2, <2>1, ClickStep
<1> QED
  BY <1>3, <1>4, <1>5, <1>6, <1>7

-----------------------------------------------------------------------------
(* The handlers go on.                                                     *)

\* An answer that is not followed by a load may unlock Save new version if it
\* was what the lock was for.
LEMMA TakenSaving ==
  ASSUME IInv, NEW i \in DOMAIN answers, answers' = RemoveAt(answers, i),
         sent' = sent, mounts' = mounts, page' = page,
         savingVersion /\ ~savingVersion' => Saving(answers[i].req)
  PROVE  SavingInv'
<1> DEFINE f == [k \in DOMAIN answers' |-> IF k < i THEN k ELSE k + 1]
           more == {}
<1>1. Part(f) /\ \A k \in DOMAIN answers' : f[k] # i
  BY RemovedIsPart DEF IInv
<1>2. sent' \subseteq sent \cup more /\ \A r \in more : r.mount <= mounts /\ ~Saving(r)
  OBVIOUS
<1> HIDE DEF f, more
<1>3. ASSUME page' # None, ~savingVersion'
      PROVE  \/ page # None /\ ~savingVersion
             \/ /\ \A r \in sent' : ~Saving(r)
                /\ \A k \in DOMAIN answers' : ~Saving(answers'[k].req)
  <2>1. CASE Saving(answers[i].req)
    <3>1. \A r \in sent' : ~Saving(r)
      BY <2>1 DEF IInv, SavingInv
    <3>2. \A k \in DOMAIN answers' : ~Saving(answers'[k].req)
      BY <1>1, <2>1 DEF IInv, SavingInv, Part
    <3>3. QED
      BY <3>1, <3>2
  <2>2. CASE ~Saving(answers[i].req)
    BY <1>3, <2>2
  <2>3. QED
    BY <2>1, <2>2
<1> QED
  BY <1>1, <1>2, <1>3, PartSaving, Zenon

\* What is left of the invariant once an answer has been taken.
LEMMA TakenStep ==
  ASSUME IInv, NEW i \in DOMAIN answers, answers' = RemoveAt(answers, i),
         NEW more \in SUBSET Requests, sent' \subseteq sent \cup more,
         \A r \in more : ArgFits(r) /\ Exists(r.prompt),
         UNCHANGED historyVars, page' = page, mounts' = mounts, acts' = acts,
         PageOK', FormIsOfPage', SavingInv', OrderInv',
         detail' # NoDetail =>
           /\ form'.content \in Contents /\ detail'.of \in Prompts
           /\ detail'.versions # <<>>,
         page = None => ~arrived' /\ ~inOrder'
  PROVE  IInv'
<1> DEFINE f == [k \in DOMAIN answers' |-> IF k < i THEN k ELSE k + 1]
<1>1. Part(f)
  BY RemovedIsPart DEF IInv
<1> HIDE DEF f
<1>2. page' # None => Exists(page')
  BY DEF IInv, ExistInv
<1>3. ServerOK' /\ WireOK' /\ ExistInv'
  BY <1>1, <1>2, PartKeeps
<1>4. ShownInv'
  BY DEF IInv, ShownInv
<1> QED
  BY <1>3, <1>4 DEF IInv, TypeOK

\* The form and the details are of the types they have.
LEMMA PageFacts ==
  ASSUME IInv
  PROVE  /\ page \in Prompts \cup {None} /\ mounts \in 1..(1 + MaxActs)
         /\ detail \in [status : Statuses \cup {"none"}, of : Prompts \cup {None},
                        versions : Seq(Contents)]
         /\ form \in [status : Statuses, content : Contents \cup {""},
                      of : Prompts \cup {None}]
         /\ savingMeta \in BOOLEAN /\ savingVersion \in BOOLEAN
         /\ arrived \in BOOLEAN /\ inOrder \in BOOLEAN /\ acts \in 0..MaxActs
         /\ detail # NoDetail =>
              /\ form.content \in Contents /\ detail.of \in Prompts
              /\ detail.versions # <<>>
         /\ page = None => ~arrived /\ ~inOrder
         /\ arrived => form.of = page /\ detail.of = page
         /\ arrived => detail # NoDetail
<1>1. ASSUME arrived, detail = NoDetail
      PROVE  FALSE
  <2>1. page # None /\ detail.of = page
    BY <1>1 DEF IInv, ShownInv, FormIsOfPage
  <2>2. NoDetail.of = None
    BY DEF NoDetail
  <2>3. QED
    BY <1>1, <2>1, <2>2
<1> QED
  BY <1>1 DEF IInv, TypeOK, PageOK, ShownInv, FormIsOfPage

\* While answers come in order, one for the page's prompt is for its instance.
LEMMA OrderedIsActive ==
  ASSUME IInv, inOrder, NEW i \in DOMAIN answers, answers[i].req.prompt = page
  PROVE  IsActive(answers[i].req)
BY DEF IInv, OrderInv, ShownInv, IsActive, Alive

LEMMA LoadStep ==
  ASSUME IInv, NEW i \in DOMAIN answers, LoadReturns(i)
  PROVE  IInv'
<1> DEFINE a == answers[i]
           r == a.req
           more == {}
<1>1. /\ answers' = RemoveAt(answers, i) /\ r.kind = "load"
      /\ UNCHANGED historyVars /\ acts' = acts
      /\ inOrder' = (inOrder /\ i = 1)
      /\ savingVersion' = (savingVersion /\ ~(Alive(r) /\ r.arg = "version"))
      /\ page' = page /\ mounts' = mounts /\ savingMeta' = savingMeta /\ sent' = sent
  BY DEF LoadReturns, Take
<1>2. a.ok /\ IsActive(r) =>
        /\ detail' = [status |-> a.status, of |-> r.prompt, versions |-> a.versions]
        /\ form' = [status |-> a.status, of |-> r.prompt, content |-> Last(a.versions)]
        /\ arrived' = TRUE
  BY DEF LoadReturns
<1>3. ~(a.ok /\ IsActive(r)) => UNCHANGED <<detail, form, arrived>>
  BY DEF LoadReturns
<1>4. /\ a.ok \in BOOLEAN /\ a.status \in Statuses /\ a.versions \in Seq(Contents)
      /\ r.prompt \in Prompts /\ a.versions # <<>> /\ Last(a.versions) \in Contents
  <2>1. /\ a.status \in Statuses /\ a.versions \in Seq(Contents) /\ r.prompt \in Prompts
        /\ a.ok \in BOOLEAN
    BY WireFacts DEF IInv
  <2>2. a.versions # <<>>
    BY <1>1 DEF IInv, ExistInv
  <2>3. Len(a.versions) \in 1..Len(a.versions)
    BY <2>1, <2>2, EmptySeq, LenProperties
  <2>4. QED
    BY <2>1, <2>2, <2>3, ElementOfSeq DEF Last
<1>5. IsActive(r) => page # None /\ r.prompt = page
  BY DEF IsActive, Alive
<1> HIDE DEF more
<1>6. /\ more \in SUBSET Requests /\ sent' \subseteq sent \cup more
      /\ \A x \in more : ArgFits(x) /\ Exists(x.prompt)
  BY <1>1 DEF more
<1>7. CASE a.ok /\ IsActive(r)
  <2>1. /\ detail' = [status |-> a.status, of |-> page, versions |-> a.versions]
        /\ form' = [status |-> a.status, of |-> page, content |-> Last(a.versions)]
        /\ arrived' = TRUE /\ page \in Prompts /\ page # None
    BY <1>2, <1>4, <1>5, <1>7
  <2>2. PageOK'
    <3>1. /\ detail' \in [status : Statuses \cup {"none"}, of : Prompts \cup {None},
                          versions : Seq(Contents)]
          /\ form' \in [status : Statuses, content : Contents \cup {""},
                        of : Prompts \cup {None}]
      BY <1>4, <2>1
    <3>2. /\ savingVersion' \in BOOLEAN /\ savingMeta' \in BOOLEAN
          /\ arrived' \in BOOLEAN /\ inOrder' \in BOOLEAN
      BY <1>1, <2>1, PageFacts
    <3>3. QED
      BY <1>1, <3>1, <3>2, PageFacts DEF PageOK
  <2>3. FormIsOfPage'
    BY <1>1, <2>1 DEF FormIsOfPage
  <2>4. /\ form'.content \in Contents /\ detail'.of \in Prompts /\ detail'.versions # <<>>
    BY <1>4, <2>1
  <2>5. SavingInv'
    BY <1>1, TakenSaving DEF Saving, Alive
  <2>6. OrderInv'
    <3>1. Lists(a) /\ ~Reloads(a) /\ Sets(a)
      BY <1>1, <1>5, <1>7 DEF Lists, Sets, Reloads
    <3>2. detail'.status = a.status /\ detail'.versions = a.versions
      BY <2>1
    <3>3. /\ UNCHANGED <<history, meta, page, mounts>> /\ sent \subseteq sent'
          /\ \A x \in sent' :
               x \in sent \/ (x.mount = answers[i].req.mount /\ x.prompt = answers[i].req.prompt)
          /\ answers' = RemoveAt(answers, i)
      BY <1>1 DEF historyVars
    <3>4. inOrder' => inOrder /\ i = 1
      BY <1>1
    <3>5. inOrder' /\ Reloads(answers[i]) => LoadIsSent'
      BY <3>1, <3>4
    <3>6. inOrder' => ShowsAnswer(i)
      BY <2>1, <3>1, <3>2 DEF ShowsAnswer
    <3>7. QED
      BY <3>3, <3>4, <3>5, <3>6, TakenKeepsOrder
  <2>7. QED
    BY <1>1, <1>6, <2>1, <2>2, <2>3, <2>4, <2>5, <2>6, TakenStep
<1>8. CASE ~(a.ok /\ IsActive(r))
  <2>1. detail' = detail /\ form' = form /\ arrived' = arrived
    BY <1>3, <1>8
  <2>2. PageOK'
    <3>1. savingVersion' \in BOOLEAN /\ inOrder' \in BOOLEAN
      BY <1>1, PageFacts
    <3>2. QED
      BY <1>1, <2>1, <3>1, PageFacts DEF PageOK
  <2>3. FormIsOfPage'
    BY <1>1, <2>1, PageFacts DEF FormIsOfPage
  <2>4. detail' # NoDetail =>
          /\ form'.content \in Contents /\ detail'.of \in Prompts
          /\ detail'.versions # <<>>
    BY <2>1, PageFacts
  <2>5. SavingInv'
    BY <1>1, TakenSaving DEF Saving, Alive
  <2>6. OrderInv'
    <3>1. inOrder => ~Lists(a) /\ ~Reloads(a) /\ ~Sets(a)
      BY <1>1, <1>8, OrderedIsActive DEF Lists, Sets, Reloads
    <3>2. /\ UNCHANGED <<history, meta, page, mounts>> /\ sent \subseteq sent'
          /\ \A x \in sent' :
               x \in sent \/ (x.mount = answers[i].req.mount /\ x.prompt = answers[i].req.prompt)
          /\ answers' = RemoveAt(answers, i)
      BY <1>1 DEF historyVars
    <3>3. inOrder' => inOrder /\ i = 1
      BY <1>1
    <3>4. inOrder' /\ Reloads(answers[i]) => LoadIsSent'
      BY <3>1, <3>3
    <3>5. inOrder' => ShowsAnswer(i)
      BY <2>1, <3>1, <3>3 DEF ShowsAnswer
    <3>6. QED
      BY <3>2, <3>3, <3>4, <3>5, TakenKeepsOrder
  <2>7. page = None => ~arrived' /\ ~inOrder'
    BY <1>1, <2>1, PageFacts
  <2>8. QED
    BY <1>1, <1>6, <2>2, <2>3, <2>4, <2>5, <2>6, <2>7, TakenStep
<1> QED
  BY <1>7, <1>8

\* Taking the answer to a save or an archiving changes the status at most.
LEMMA SaveStep ==
  ASSUME IInv, NEW i \in DOMAIN answers, SaveReturns(i) \/ ArchiveReturns(i)
  PROVE  IInv'
<1> DEFINE a == answers[i]
           r == a.req
           more == {}
<1>1. /\ answers' = RemoveAt(answers, i) /\ r.kind \in {"save", "archive"}
      /\ UNCHANGED historyVars /\ acts' = acts
      /\ inOrder' = (inOrder /\ i = 1 /\ (Alive(r) => IsActive(r)))
      /\ savingVersion' = savingVersion /\ arrived' = arrived
      /\ page' = page /\ mounts' = mounts /\ sent' = sent
  BY DEF SaveReturns, ArchiveReturns, Take, TakenInOrder
<1>2. /\ detail' = detail \/ (Alive(r) /\ detail' = Refreshed(a))
      /\ form' = form \/ form' = [form EXCEPT !.status = a.status]
      /\ Alive(r) /\ a.ok => detail' = Refreshed(a)
      /\ savingMeta' = FALSE \/ savingMeta' = savingMeta
  BY DEF SaveReturns, ArchiveReturns
<1>3. /\ a.ok \in BOOLEAN /\ a.status \in Statuses /\ r.prompt \in Prompts
  BY WireFacts DEF IInv
<1>4. detail' = detail \/ (/\ Alive(r) /\ a.ok /\ detail # NoDetail
                           /\ detail' = [detail EXCEPT !.status = a.status])
  BY <1>2 DEF Refreshed
<1>5. /\ detail'.of = detail.of /\ detail'.versions = detail.versions
      /\ detail' \in [status : Statuses \cup {"none"}, of : Prompts \cup {None},
                      versions : Seq(Contents)]
      /\ detail' # NoDetail => detail # NoDetail
  <2>1. detail \in [status : Statuses \cup {"none"}, of : Prompts \cup {None},
                    versions : Seq(Contents)]
    BY PageFacts
  <2>2. QED
    BY <1>3, <1>4, <2>1
<1>6. /\ form'.of = form.of /\ form'.content = form.content
      /\ form' \in [status : Statuses, content : Contents \cup {""},
                    of : Prompts \cup {None}]
  <2>1. form \in [status : Statuses, content : Contents \cup {""}, of : Prompts \cup {None}]
    BY PageFacts
  <2>2. QED
    BY <1>2, <1>3, <2>1
<1> HIDE DEF more
<1>7. /\ more \in SUBSET Requests /\ sent' \subseteq sent \cup more
      /\ \A x \in more : ArgFits(x) /\ Exists(x.prompt)
  BY <1>1 DEF more
<1>8. PageOK'
  <2>1. /\ savingMeta' \in BOOLEAN /\ savingVersion' \in BOOLEAN
        /\ arrived' \in BOOLEAN /\ inOrder' \in BOOLEAN
    BY <1>1, <1>2, PageFacts
  <2>2. QED
    BY <1>1, <1>5, <1>6, <2>1, PageFacts DEF PageOK
<1>9. FormIsOfPage'
  BY <1>1, <1>5, <1>6, PageFacts DEF FormIsOfPage
<1>10. detail' # NoDetail =>
         /\ form'.content \in Contents /\ detail'.of \in Prompts
         /\ detail'.versions # <<>>
  BY <1>5, <1>6, PageFacts
<1>11. SavingInv'
  BY <1>1, TakenSaving
<1>12. OrderInv'
  <2>1. ~Lists(a) /\ ~Reloads(a)
    BY <1>1 DEF Lists, Reloads
  <2>2. /\ UNCHANGED <<history, meta, page, mounts>> /\ sent \subseteq sent'
        /\ \A x \in sent' :
             x \in sent \/ (x.mount = answers[i].req.mount /\ x.prompt = answers[i].req.prompt)
        /\ answers' = RemoveAt(answers, i)
    BY <1>1 DEF historyVars
  <2>3. inOrder' => inOrder /\ i = 1 /\ (Alive(r) => IsActive(r))
    BY <1>1
  <2>4. inOrder' /\ Reloads(answers[i]) => LoadIsSent'
    BY <2>1
  <2>5. ASSUME inOrder'
        PROVE  ShowsAnswer(i)
    <3>1. ASSUME Sets(a), arrived'
          PROVE  detail'.status = a.status
      <4>1. IsActive(r) /\ a.ok
        BY <2>3, <2>5, <3>1, OrderedIsActive DEF Sets
      <4>2. detail # NoDetail /\ Alive(r)
        BY <1>1, <3>1, <4>1, PageFacts DEF IsActive
      <4>3. detail' = [detail EXCEPT !.status = a.status]
        BY <1>2, <4>1, <4>2 DEF Refreshed
      <4>4. QED
        BY <4>3, PageFacts
    <3>2. ASSUME ~Sets(a)
          PROVE  detail'.status = detail.status
      <4>1. ~(Alive(r) /\ a.ok)
        BY <1>1, <2>3, <2>5, <3>2 DEF Sets, IsActive
      <4>2. QED
        BY <1>4, <4>1
    <3>3. QED
      BY <1>1, <1>5, <2>1, <3>1, <3>2 DEF ShowsAnswer
  <2>6. QED
    BY <2>2, <2>3, <2>4, <2>5, TakenKeepsOrder
<1>13. page = None => ~arrived' /\ ~inOrder'
  BY <1>1, PageFacts
<1> QED
  BY <1>1, <1>7, <1>8, <1>9, <1>10, <1>11, <1>12, <1>13, TakenStep

\* A saved version hands the lock over to the load that follows.
LEMMA HandOver ==
  ASSUME IInv, NEW i \in DOMAIN answers, answers' = RemoveAt(answers, i),
         NEW q, sent' = sent \cup {q}, page' = page, mounts' = mounts,
         savingVersion' = savingVersion,
         q.mount = answers[i].req.mount, Saving(q) => Saving(answers[i].req)
  PROVE  SavingInv'
<1> DEFINE f == [k \in DOMAIN answers' |-> IF k < i THEN k ELSE k + 1]
           more == {q}
<1>1. /\ Part(f) /\ \A k \in DOMAIN answers' : f[k] # i
      /\ sent' \subseteq sent \cup more /\ \A r \in more : r = q
  BY RemovedIsPart DEF IInv
<1> HIDE DEF f, more
<1>2. q.mount <= mounts
  BY DEF IInv, SavingInv, Mounted
<1>3. CASE Saving(q)
  <2>1. /\ \A r \in sent : ~Saving(r)
        /\ \A k \in DOMAIN answers' : ~Saving(answers'[k].req)
    BY <1>1, <1>3 DEF IInv, SavingInv, Part
  <2>2. page # None => savingVersion
    BY <1>3 DEF IInv, SavingInv
  <2>3. \A r : Saving(r)' <=> Saving(r)
    BY DEF Saving
  <2>4. Mounted'
    BY <1>1, <1>2 DEF IInv, SavingInv, Mounted, Part
  <2>5. \A r \in sent' : r \in sent \/ r = q
    OBVIOUS
  <2>6. \A r, x \in sent' : Saving(r) /\ Saving(x) => r = x
    BY <2>1, <2>5
  <2>7. QED
    BY <2>1, <2>2, <2>3, <2>4, <2>6 DEF SavingInv, Saving
<1>4. CASE ~Saving(q)
  <2>1. \A r \in more : r.mount <= mounts /\ ~Saving(r)
    BY <1>1, <1>2, <1>4
  <2>2. (page' # None /\ ~savingVersion') =>
          \/ page # None /\ ~savingVersion
          \/ /\ \A r \in sent' : ~Saving(r)
             /\ \A k \in DOMAIN answers' : ~Saving(answers'[k].req)
    OBVIOUS
  <2>3. QED
    BY <1>1, <2>1, <2>2, PartSaving, Zenon
<1> QED
  BY <1>3, <1>4

LEMMA VersionStep ==
  ASSUME IInv, NEW i \in DOMAIN answers, VersionReturns(i)
  PROVE  IInv'
<1> DEFINE a == answers[i]
           r == a.req
           q == LoadFor(r.prompt, r.mount, r.kind, r.by)
           more == IF a.ok THEN {q} ELSE {}
<1>1. /\ answers' = RemoveAt(answers, i) /\ r.kind \in {"version", "restore"}
      /\ UNCHANGED historyVars /\ acts' = acts
      /\ inOrder' = (inOrder /\ i = 1)
      /\ page' = page /\ mounts' = mounts /\ detail' = detail /\ form' = form
      /\ savingMeta' = savingMeta /\ arrived' = arrived
  BY DEF VersionReturns, Take
<1>2. /\ a.ok => sent' = sent \cup {q} /\ savingVersion' = savingVersion
      /\ ~a.ok => /\ sent' = sent
                  /\ savingVersion' = (savingVersion /\ ~(Alive(r) /\ r.kind = "version"))
  BY DEF VersionReturns
<1>3. /\ r.prompt \in Prompts /\ r.mount \in 1..(1 + MaxActs) /\ r.by \in 0..MaxActs
      /\ Exists(r.prompt)
  BY WireFacts DEF IInv, ExistInv
<1>4. /\ q.kind = "load" /\ q.prompt = r.prompt /\ q.mount = r.mount /\ q.arg = r.kind
      /\ q \in Requests
  BY <1>1, <1>3 DEF LoadFor, Request, Requests, NoVersion
<1> HIDE DEF q
<1>5. /\ more \in SUBSET Requests /\ sent' \subseteq sent \cup more /\ sent \subseteq sent'
      /\ \A x \in more : ArgFits(x) /\ Exists(x.prompt)
  BY <1>2, <1>3, <1>4 DEF ArgFits
<1>6. SavingInv'
  <2>1. CASE a.ok
    BY <1>1, <1>2, <1>4, <2>1, HandOver DEF Saving
  <2>2. CASE ~a.ok
    BY <1>1, <1>2, <2>2, TakenSaving DEF Saving, Alive
  <2>3. QED
    BY <2>1, <2>2
<1>7. PageOK'
  <2>1. savingVersion' \in BOOLEAN /\ inOrder' \in BOOLEAN
    BY <1>1, <1>2, PageFacts
  <2>2. QED
    BY <1>1, <2>1, PageFacts DEF PageOK
<1>8. OrderInv'
  <2>1. ~Lists(a) /\ ~Sets(a)
    BY <1>1 DEF Lists, Sets
  <2>2. \A x \in sent' : x \in sent \/ (x.mount = r.mount /\ x.prompt = r.prompt)
    BY <1>2, <1>4
  <2>3. /\ UNCHANGED <<history, meta, page, mounts>> /\ sent \subseteq sent'
        /\ \A x \in sent' :
             x \in sent \/ (x.mount = answers[i].req.mount /\ x.prompt = answers[i].req.prompt)
        /\ answers' = RemoveAt(answers, i)
    BY <1>1, <1>5, <2>2 DEF historyVars
  <2>4. inOrder' => inOrder /\ i = 1
    BY <1>1
  <2>5. Reloads(answers[i]) => LoadIsSent'
    BY <1>1, <1>2, <1>4 DEF Reloads, LoadIsSent
  <2>6. ShowsAnswer(i)
    BY <1>1, <2>1 DEF ShowsAnswer
  <2>7. QED
    BY <2>3, <2>4, <2>5, <2>6, TakenKeepsOrder
<1>9. FormIsOfPage'
  BY <1>1, PageFacts DEF FormIsOfPage
<1>10. /\ page = None => ~arrived' /\ ~inOrder'
       /\ detail' # NoDetail =>
            /\ form'.content \in Contents /\ detail'.of \in Prompts
            /\ detail'.versions # <<>>
  BY <1>1, PageFacts
<1> HIDE DEF more
<1> QED
  BY <1>1, <1>5, <1>6, <1>7, <1>8, <1>9, <1>10, TakenStep

LEMMA DuplicateStep ==
  ASSUME IInv, NEW i \in DOMAIN answers, DuplicateReturns(i)
  PROVE  IInv'
<1> DEFINE a == answers[i]
           more == {}
           f == [k \in DOMAIN answers' |-> IF k < i THEN k ELSE k + 1]
<1>1. /\ answers' = RemoveAt(answers, i) /\ a.req.kind = "duplicate"
      /\ UNCHANGED historyVars /\ acts' = acts
  BY DEF DuplicateReturns, Take
<1>2. Part(f)
  BY <1>1, RemovedIsPart DEF IInv
<1> HIDE DEF f, more
<1>3. CASE a.ok /\ page \notin a.copies
  <2>1. PICK p \in a.copies : Show(p, a.req.by)
    BY <1>3 DEF DuplicateReturns
  <2>2. p \in Prompts /\ Exists(p) /\ a.req.by \in 0..MaxActs
    <3>1. a.copies \subseteq Prompts /\ a.req.by \in 0..MaxActs
      BY WireFacts DEF IInv
    <3>2. QED
      BY <3>1 DEF IInv, ExistInv
  <2>3. /\ acts' \in 0..MaxActs /\ mounts <= 1 + acts'
        /\ page = None => mounts + 1 <= 1 + acts'
    <3>1. /\ acts \in 0..MaxActs /\ mounts \in 1..(1 + MaxActs) /\ mounts <= 1 + acts
          /\ page = None => mounts <= acts
      BY DEF IInv, ShownInv, TypeOK, PageOK
    <3>2. QED
      BY <1>1, <3>1
  <2>4. QED
    BY <1>1, <1>2, <2>1, <2>2, <2>3, ShowStep
<1>4. CASE ~(a.ok /\ page \notin a.copies)
  <2>1. /\ inOrder' = (inOrder /\ i = 1) /\ page' = page /\ mounts' = mounts
        /\ detail' = detail /\ form' = form /\ savingMeta' = savingMeta
        /\ savingVersion' = savingVersion /\ sent' = sent /\ arrived' = arrived
    BY <1>4 DEF DuplicateReturns, shown
  <2>2. /\ more \in SUBSET Requests /\ sent' \subseteq sent \cup more
        /\ \A x \in more : ArgFits(x) /\ Exists(x.prompt)
    BY <2>1 DEF more
  <2>3. PageOK'
    <3>1. inOrder' \in BOOLEAN
      BY <2>1
    <3>2. QED
      BY <1>1, <2>1, <3>1, PageFacts DEF PageOK
  <2>4. FormIsOfPage'
    BY <2>1, PageFacts DEF FormIsOfPage
  <2>5. /\ page = None => ~arrived' /\ ~inOrder'
        /\ detail' # NoDetail =>
             /\ form'.content \in Contents /\ detail'.of \in Prompts
             /\ detail'.versions # <<>>
    BY <2>1, PageFacts
  <2>6. SavingInv'
    BY <1>1, <2>1, TakenSaving
  <2>7. OrderInv'
    <3>1. ~Lists(a) /\ ~Sets(a) /\ ~Reloads(a)
      BY <1>1 DEF Lists, Sets, Reloads
    <3>2. /\ UNCHANGED <<history, meta, page, mounts>> /\ sent \subseteq sent'
          /\ \A x \in sent' :
               x \in sent \/ (x.mount = answers[i].req.mount /\ x.prompt = answers[i].req.prompt)
          /\ answers' = RemoveAt(answers, i)
      BY <1>1, <2>1 DEF historyVars
    <3>3. inOrder' => inOrder /\ i = 1
      BY <2>1
    <3>4. ShowsAnswer(i)
      BY <2>1, <3>1 DEF ShowsAnswer
    <3>5. inOrder' /\ Reloads(answers[i]) => LoadIsSent'
      BY <3>1
    <3>6. QED
      BY <3>2, <3>3, <3>4, <3>5, TakenKeepsOrder
  <2>8. QED
    BY <1>1, <2>1, <2>2, <2>3, <2>4, <2>5, <2>6, <2>7, TakenStep
<1> QED
  BY <1>3, <1>4

LEMMA LoseStep ==
  ASSUME IInv, NEW i \in DOMAIN answers, LoseAnswer(i)
  PROVE  IInv'
<1> DEFINE lost == [answers[i] EXCEPT !.ok = FALSE]
<1>1. /\ answers' = [answers EXCEPT ![i].ok = FALSE] /\ inOrder' = FALSE
      /\ UNCHANGED historyVars /\ page' = page /\ mounts' = mounts
      /\ detail' = detail /\ form' = form /\ savingMeta' = savingMeta
      /\ savingVersion' = savingVersion /\ sent' = sent /\ acts' = acts
      /\ arrived' = arrived
  BY DEF LoseAnswer, shown
<1>2. /\ answers \in Seq(Answers) /\ answers[i] \in Answers
  BY WireFacts DEF IInv
<1>3. /\ lost \in Answers /\ lost.req = answers[i].req
      /\ lost.versions = answers[i].versions /\ lost.copies = answers[i].copies
  BY <1>2 DEF Answers
<1>4. answers' = [answers EXCEPT ![i] = lost]
  BY <1>1
<1> HIDE DEF lost
<1>5. /\ answers' \in Seq(Answers) /\ DOMAIN answers' = DOMAIN answers
      /\ \A k \in DOMAIN answers : answers'[k] = IF k = i THEN lost ELSE answers[k]
  BY <1>2, <1>3, <1>4, ExceptSeq
<1>6. \A k \in DOMAIN answers :
        /\ answers'[k].req = answers[k].req
        /\ answers'[k].versions = answers[k].versions
        /\ answers'[k].copies = answers[k].copies
  BY <1>3, <1>5
<1>7. \A p : Exists(p)' <=> Exists(p)
  BY <1>1 DEF historyVars, Exists
<1>8. ServerOK' /\ WireOK' /\ PageOK'
  <2>1. InFlight' = InFlight
    BY <1>1, <1>5, <1>6 DEF InFlight
  <2>2. WireOK'
    BY <1>1, <1>5, <2>1 DEF IInv, TypeOK, WireOK, ArgFits
  <2>3. ServerOK'
    BY <1>1 DEF IInv, TypeOK, ServerOK, historyVars
  <2>4. PageOK'
    BY <1>1, PageFacts DEF PageOK
  <2>5. QED
    BY <2>2, <2>3, <2>4
<1>9. ExistInv'
  BY <1>1, <1>5, <1>6, <1>7 DEF IInv, ExistInv, historyVars
<1>10. ShownInv'
  BY <1>1 DEF IInv, ShownInv, FormIsOfPage
<1>11. SavingInv'
  BY <1>1, <1>5, <1>6 DEF IInv, SavingInv, Saving, Mounted
<1>12. OrderInv'
  BY <1>1 DEF OrderInv
<1> QED
  BY <1>8, <1>9, <1>10, <1>11, <1>12 DEF IInv, TypeOK

-----------------------------------------------------------------------------
(* The server.                                                             *)

\* What serving r does to the prompts there are.
Effect(r, ok) ==
  /\ ServerOK'
  /\ \A p \in Prompts : Exists(p)' <=> history'[p] # <<>>
  /\ \A p \in Prompts : Exists(p) => Exists(p)'
  /\ \A p \in Prompts :
       Exists(p) /\ ~(ok /\ r.prompt = p /\ r.kind \in {"save", "archive"}) =>
         meta'[p] = meta[p]
  /\ \A p \in Prompts :
       Exists(p) /\ ~(ok /\ r.prompt = p /\ r.kind \in {"version", "restore"}) =>
         history'[p] = history[p]

LEMMA MetaFacts ==
  ASSUME ServerOK, NEW p \in Prompts, Exists(p)
  PROVE  /\ meta[p] \in Metas
         /\ \A x \in Statuses : [meta[p] EXCEPT !.status = x] \in Metas
<1>1. meta[p] \in Metas
  BY DEF ServerOK, Exists
<1> QED
  BY <1>1 DEF Metas

LEMMA SaveEffect ==
  ASSUME IInv, NEW r \in sent, r.kind \in {"save", "archive"},
         NEW m \in Metas, SaveMeta(r.prompt, m)
  PROVE  Effect(r, TRUE)
<1>1. /\ ServerOK /\ \A p \in Prompts : Exists(p) <=> history[p] # <<>>
      /\ Exists(r.prompt) /\ r.prompt \in Prompts
  BY WireFacts DEF IInv, TypeOK, ExistInv
<1>2. meta' = [meta EXCEPT ![r.prompt] = m] /\ history' = history
  BY DEF SaveMeta
<1>3. m # NoMeta
  BY DEF Metas, NoMeta, Statuses
<1>4. \A p \in Prompts : meta'[p] = IF p = r.prompt THEN m ELSE meta[p]
  BY <1>1, <1>2 DEF ServerOK
<1>5. ServerOK'
  BY <1>1, <1>2 DEF ServerOK
<1>6. \A p \in Prompts : Exists(p)' <=> Exists(p)
  BY <1>1, <1>3, <1>4 DEF Exists
<1> QED
  BY <1>1, <1>2, <1>4, <1>5, <1>6 DEF Effect

LEMMA VersionEffect ==
  ASSUME IInv, NEW r \in sent, r.kind \in {"version", "restore"},
         NEW c \in Contents, AppendVersion(r.prompt, c)
  PROVE  Effect(r, TRUE)
<1>1. /\ ServerOK /\ \A p \in Prompts : Exists(p) <=> history[p] # <<>>
      /\ Exists(r.prompt) /\ r.prompt \in Prompts
  BY WireFacts DEF IInv, TypeOK, ExistInv
<1>2. history' = [history EXCEPT ![r.prompt] = Append(@, c)] /\ meta' = meta
  BY DEF AppendVersion
<1>3. /\ Append(history[r.prompt], c) \in Seq(Contents)
      /\ Append(history[r.prompt], c) # <<>>
  <2>1. history[r.prompt] \in Seq(Contents)
    BY <1>1 DEF ServerOK
  <2>2. QED
    BY <2>1, AppendProperties
<1>4. \A p \in Prompts :
        history'[p] = IF p = r.prompt THEN Append(history[p], c) ELSE history[p]
  BY <1>1, <1>2 DEF ServerOK
<1>5. ServerOK'
  BY <1>1, <1>2, <1>3 DEF ServerOK
<1>6. \A p \in Prompts : Exists(p)' <=> Exists(p)
  BY <1>2 DEF Exists
<1> QED
  BY <1>1, <1>2, <1>3, <1>4, <1>5, <1>6 DEF Effect

LEMMA CreateEffect ==
  ASSUME IInv, NEW r \in sent, NEW q \in Prompts, NEW m \in Metas,
         NEW c \in Contents, CreatePrompt(q, m, c)
  PROVE  Effect(r, TRUE)
<1>1. ServerOK /\ \A p \in Prompts : Exists(p) <=> history[p] # <<>>
  BY DEF IInv, TypeOK, ExistInv
<1>2. /\ ~Exists(q) /\ history' = [history EXCEPT ![q] = <<c>>]
      /\ meta' = [meta EXCEPT ![q] = m]
  BY DEF CreatePrompt
<1>3. m # NoMeta /\ <<c>> \in Seq(Contents) /\ <<c>> # <<>>
  BY DEF Metas, NoMeta, Statuses
<1>4. \A p \in Prompts : /\ history'[p] = IF p = q THEN <<c>> ELSE history[p]
                         /\ meta'[p] = IF p = q THEN m ELSE meta[p]
  BY <1>1, <1>2 DEF ServerOK
<1>5. ServerOK'
  BY <1>1, <1>2, <1>3 DEF ServerOK
<1>6. \A p \in Prompts : Exists(p)' <=> (p = q \/ Exists(p))
  BY <1>3, <1>4 DEF Exists
<1> QED
  BY <1>1, <1>2, <1>3, <1>4, <1>5, <1>6 DEF Effect

LEMMA NoEffect ==
  ASSUME IInv, UNCHANGED historyVars, NEW r, NEW ok
  PROVE  Effect(r, ok)
BY DEF IInv, TypeOK, ServerOK, ExistInv, historyVars, Effect, Exists

LEMMA PerformsEffect ==
  ASSUME IInv, NEW r \in sent, Performs(r)
  PROVE  Effect(r, TRUE)
<1>1. /\ ServerOK /\ r.prompt \in Prompts /\ Exists(r.prompt) /\ ArgFits(r)
      /\ history[r.prompt] \in Seq(Contents) /\ history[r.prompt] # <<>>
      /\ r.kind \in {"load", "save", "archive", "version", "restore", "duplicate"}
  BY WireFacts DEF IInv, TypeOK, WireOK, InFlight, ExistInv, ServerOK
<1>2. \A x \in Statuses : [meta[r.prompt] EXCEPT !.status = x] \in Metas
  BY <1>1, MetaFacts
<1>3. "draft" \in Statuses /\ "archived" \in Statuses
  BY DEF Statuses
<1>4. CASE r.kind = "save"
  <2>1. SaveMeta(r.prompt, [meta[r.prompt] EXCEPT !.status = r.arg])
    BY <1>4 DEF Performs
  <2>2. QED
    BY <1>1, <1>2, <1>4, <2>1, SaveEffect DEF ArgFits
<1>5. CASE r.kind = "archive"
  <2>1. SaveMeta(r.prompt, [meta[r.prompt] EXCEPT !.status = "archived"])
    BY <1>5 DEF Performs, Archive
  <2>2. QED
    BY <1>2, <1>3, <1>5, <2>1, SaveEffect
<1>6. CASE r.kind = "version"
  <2>1. AppendVersion(r.prompt, r.arg) /\ r.arg \in Contents
    BY <1>1, <1>6 DEF Performs, ArgFits
  <2>2. QED
    BY <1>6, <2>1, VersionEffect
<1>7. CASE r.kind = "restore"
  <2>1. /\ IsOwnVersion(r.prompt, r.version)
        /\ AppendVersion(r.prompt, history[r.version.of][r.version.number])
    BY <1>7 DEF Performs
  <2>2. history[r.version.of][r.version.number] \in Contents
    BY <1>1, <2>1, ElementOfSeq, LenProperties DEF IsOwnVersion
  <2>3. QED
    BY <1>7, <2>1, <2>2, VersionEffect
<1>8. CASE r.kind = "duplicate"
  <2>1. PICK q \in Prompts :
          CreatePrompt(q, [meta[r.prompt] EXCEPT !.status = "draft"], HeadContent(r.prompt))
    BY <1>8 DEF Performs
  <2>2. HeadContent(r.prompt) \in Contents
    <3>1. Len(history[r.prompt]) \in 1..Len(history[r.prompt])
      BY <1>1, EmptySeq, LenProperties
    <3>2. QED
      BY <1>1, <3>1, ElementOfSeq DEF HeadContent
  <2>3. QED
    BY <1>2, <1>3, <2>1, <2>2, CreateEffect
<1>9. CASE r.kind = "load"
  <2>1. UNCHANGED historyVars
    BY <1>9 DEF Performs
  <2>2. QED
    BY <2>1, NoEffect
<1> QED
  BY <1>1, <1>4, <1>5, <1>6, <1>7, <1>8, <1>9

\* The answer that comes of serving r joins the others at their end.
LEMMA ServedWire ==
  ASSUME IInv, NEW r \in sent, NEW ok \in BOOLEAN, Effect(r, ok),
         sent' = sent \ {r}, answers' = Append(answers, Answer(r, ok))
  PROVE  /\ Answer(r, ok) \in Answers /\ Answer(r, ok).req = r /\ Answer(r, ok).ok = ok
         /\ Answer(r, ok).status = meta'[r.prompt].status
         /\ Answer(r, ok).versions = history'[r.prompt]
         /\ Answer(r, ok).versions # <<>>
         /\ \A p \in Answer(r, ok).copies : p \in Prompts /\ Exists(p)'
         /\ Exists(r.prompt)
         /\ answers' \in Seq(Answers) /\ DOMAIN answers' = 1..(Len(answers) + 1)
         /\ \A k \in DOMAIN answers : k \in DOMAIN answers' /\ answers'[k] = answers[k]
         /\ \A k \in DOMAIN answers' : k \in DOMAIN answers \/ k = Len(answers) + 1
         /\ \A k \in DOMAIN answers : k < Len(answers) + 1
         /\ answers'[Len(answers) + 1] = Answer(r, ok)
<1> DEFINE a == Answer(r, ok)
<1>1. /\ r \in Requests /\ r.prompt \in Prompts /\ Exists(r.prompt)
      /\ answers \in Seq(Answers) /\ Len(answers) \in Nat
      /\ DOMAIN answers = 1..Len(answers)
  BY WireFacts DEF IInv, ExistInv
<1>2. /\ a.req = r /\ a.ok = ok /\ a.status = meta'[r.prompt].status
      /\ a.versions = history'[r.prompt]
      /\ a.copies = {q \in Prompts : history'[q] # <<>> /\ history[q] = <<>>}
  BY DEF Answer
<1>3. /\ meta'[r.prompt].status \in Statuses /\ history'[r.prompt] \in Seq(Contents)
      /\ history'[r.prompt] # <<>>
  <2>1. meta'[r.prompt] # NoMeta /\ history'[r.prompt] # <<>>
    BY <1>1 DEF Effect, Exists
  <2>2. /\ meta'[r.prompt] \in Metas \cup {NoMeta}
        /\ history'[r.prompt] \in Seq(Contents)
    BY <1>1 DEF Effect, ServerOK
  <2>3. QED
    BY <2>1, <2>2 DEF Metas
<1>4. a \in Answers
  BY <1>1, <1>3 DEF Answer, Answers
<1>5. \A p \in a.copies : p \in Prompts /\ Exists(p)'
  BY <1>2 DEF Effect
<1> HIDE DEF a
<1>6. /\ answers' \in Seq(Answers) /\ Len(answers') = Len(answers) + 1
      /\ \A k \in 1..Len(answers) : answers'[k] = answers[k]
      /\ answers'[Len(answers) + 1] = a
  <2>1. answers' = Append(answers, a)
    BY DEF a
  <2>2. QED
    BY <1>1, <1>4, <2>1, AppendProperties
<1>7. DOMAIN answers' = 1..(Len(answers) + 1)
  BY <1>6, LenProperties
<1>8. /\ \A k \in DOMAIN answers : k \in DOMAIN answers' /\ k < Len(answers) + 1
      /\ \A k \in DOMAIN answers' : k \in DOMAIN answers \/ k = Len(answers) + 1
  BY <1>1, <1>7
<1> QED
  BY <1>1, <1>2, <1>3, <1>4, <1>5, <1>6, <1>7, <1>8 DEF a

LEMMA ServedOrder ==
  ASSUME IInv, NEW r \in sent, NEW ok \in BOOLEAN, Effect(r, ok),
         sent' = sent \ {r}, answers' = Append(answers, Answer(r, ok)),
         page' = page, mounts' = mounts, detail' = detail, arrived' = arrived,
         inOrder' => inOrder /\ (ok \/ r.kind # "load")
  PROVE  OrderInv'
<1> DEFINE n == Len(answers) + 1
           a == Answer(r, ok)
<1> SUFFICES ASSUME inOrder'
             PROVE  OrderInv'
  BY DEF OrderInv
<1>1. /\ inOrder /\ (ok \/ r.kind # "load") /\ page # None
      /\ page \in Prompts /\ Exists(page)
  BY PageFacts DEF IInv, ExistInv
<1>2. /\ a.req = r /\ a.ok = ok /\ a.status = meta'[r.prompt].status
      /\ a.versions = history'[r.prompt]
      /\ \A k \in DOMAIN answers : k \in DOMAIN answers' /\ answers'[k] = answers[k]
      /\ \A k \in DOMAIN answers' : k \in DOMAIN answers \/ k = n
      /\ \A k \in DOMAIN answers : k < n
      /\ answers'[n] = a /\ n \in DOMAIN answers'
  <2>1. n \in 1..n
    BY WireFacts DEF IInv
  <2>2. QED
    BY <2>1, ServedWire
<1> HIDE DEF n, a
<1>3. \A x : /\ Sets(x)' <=> Sets(x)
             /\ Lists(x)' <=> Lists(x)
             /\ Reloads(x)' <=> Reloads(x)
  BY DEF Sets, Lists, Reloads
<1>4. /\ \A x \in sent' : x.prompt = page => x.mount = mounts
      /\ \A k \in DOMAIN answers' :
           answers'[k].req.prompt = page => answers'[k].req.mount = mounts
  BY <1>1, <1>2 DEF IInv, OrderInv
<1>5. ~LoadIsSent' /\ ~Lists(a) => ~LoadIsSent
  BY <1>1, <1>2 DEF LoadIsSent, Lists
<1>6. Lists(a) => Sets(a)
  BY DEF Lists, Sets
<1>7. ASSUME ~LoadIsSent'
      PROVE  StatusIsComing'
  <2>1. CASE Sets(a)
    <3>1. \A k \in DOMAIN answers' :
            (\A l \in DOMAIN answers' : k < l => ~Sets(answers'[l])) => k = n
      BY <1>2, <2>1
    <3>2. a.status = meta'[page].status
      BY <1>2, <2>1 DEF Sets
    <3>3. QED
      BY <1>2, <1>3, <2>1, <3>1, <3>2 DEF StatusIsComing
  <2>2. CASE ~Sets(a)
    <3>1. StatusIsComing
      BY <1>1, <1>5, <1>6, <1>7, <2>2 DEF IInv, OrderInv
    <3>2. meta'[page] = meta[page]
      BY <1>1, <1>2, <2>2 DEF Effect, Sets
    <3>3. ASSUME NEW k \in DOMAIN answers', Sets(answers'[k]),
                 \A l \in DOMAIN answers' : k < l => ~Sets(answers'[l])
          PROVE  answers'[k].status = meta'[page].status
      <4>1. k \in DOMAIN answers /\ answers'[k] = answers[k]
        BY <1>2, <2>2, <3>3
      <4>2. \A l \in DOMAIN answers : k < l => ~Sets(answers[l])
        BY <1>2, <3>3
      <4>3. QED
        BY <3>1, <3>2, <3>3, <4>1, <4>2 DEF StatusIsComing
    <3>4. ASSUME arrived, \A k \in DOMAIN answers' : ~Sets(answers'[k])
          PROVE  detail.status = meta'[page].status
      <4>1. \A k \in DOMAIN answers : ~Sets(answers[k])
        BY <1>2, <3>4
      <4>2. QED
        BY <3>1, <3>2, <3>4, <4>1 DEF StatusIsComing
    <3>5. QED
      BY <1>3, <3>3, <3>4 DEF StatusIsComing
  <2>3. QED
    BY <2>1, <2>2
<1>8. ASSUME ~LoadIsSent', \A k \in DOMAIN answers' : ~Reloads(answers'[k])
      PROVE  VersionsAreComing'
  <2>1. CASE Lists(a)
    <3>1. \A k \in DOMAIN answers' :
            (\A l \in DOMAIN answers' : k < l => ~Lists(answers'[l])) => k = n
      BY <1>2, <2>1
    <3>2. a.versions = history'[page]
      BY <1>2, <2>1 DEF Lists
    <3>3. QED
      BY <1>2, <1>3, <2>1, <3>1, <3>2 DEF VersionsAreComing
  <2>2. CASE ~Lists(a)
    <3>1. VersionsAreComing
      <4>1. \A k \in DOMAIN answers : ~Reloads(answers[k])
        BY <1>2, <1>8
      <4>2. QED
        BY <1>1, <1>5, <1>8, <2>2, <4>1 DEF IInv, OrderInv
    <3>2. history'[page] = history[page]
      BY <1>1, <1>2, <1>8 DEF Effect, Reloads
    <3>3. ASSUME NEW k \in DOMAIN answers', Lists(answers'[k]),
                 \A l \in DOMAIN answers' : k < l => ~Lists(answers'[l])
          PROVE  answers'[k].versions = history'[page]
      <4>1. k \in DOMAIN answers /\ answers'[k] = answers[k]
        BY <1>2, <2>2, <3>3
      <4>2. \A l \in DOMAIN answers : k < l => ~Lists(answers[l])
        BY <1>2, <3>3
      <4>3. QED
        BY <3>1, <3>2, <3>3, <4>1, <4>2 DEF VersionsAreComing
    <3>4. ASSUME arrived, \A k \in DOMAIN answers' : ~Lists(answers'[k])
          PROVE  detail.versions = history'[page]
      <4>1. \A k \in DOMAIN answers : ~Lists(answers[k])
        BY <1>2, <3>4
      <4>2. QED
        BY <3>1, <3>2, <3>4, <4>1 DEF VersionsAreComing
    <3>5. QED
      BY <1>3, <3>3, <3>4 DEF VersionsAreComing
  <2>3. QED
    BY <2>1, <2>2
<1> QED
  BY <1>3, <1>4, <1>7, <1>8 DEF OrderInv

LEMMA ServeStep ==
  ASSUME IInv, NEW r \in sent, Serve(r)
  PROVE  IInv'
<1>1. /\ sent' = sent \ {r} /\ page' = page /\ mounts' = mounts
      /\ detail' = detail /\ form' = form /\ savingMeta' = savingMeta
      /\ savingVersion' = savingVersion /\ acts' = acts /\ arrived' = arrived
  BY DEF Serve, shown
<1>2. PICK ok \in BOOLEAN :
        /\ Effect(r, ok) /\ answers' = Append(answers, Answer(r, ok))
        /\ inOrder' => inOrder /\ (ok \/ r.kind # "load")
        /\ inOrder' \in BOOLEAN
  <2>1. CASE /\ Performs(r) /\ inOrder' = inOrder
             /\ answers' = Append(answers, Answer(r, TRUE))
    BY <2>1, PerformsEffect, PageFacts
  <2>2. CASE /\ UNCHANGED historyVars
             /\ answers' = Append(answers, Answer(r, FALSE))
             /\ inOrder' = (inOrder /\ r.kind # "load")
    BY <2>2, NoEffect
  <2>3. QED
    BY <2>1, <2>2 DEF Serve
<1> DEFINE n == Len(answers) + 1
           a == Answer(r, ok)
<1>3. /\ a.req = r /\ a.versions # <<>> /\ Exists(r.prompt)
      /\ \A p \in a.copies : p \in Prompts /\ meta'[p] # NoMeta
      /\ answers' \in Seq(Answers)
      /\ \A k \in DOMAIN answers : k \in DOMAIN answers' /\ answers'[k] = answers[k]
      /\ \A k \in DOMAIN answers' : k \in DOMAIN answers \/ k = n
      /\ answers'[n] = a
  BY <1>1, <1>2, ServedWire DEF Exists
<1> HIDE DEF n, a
<1>4. /\ ServerOK' /\ \A p \in Prompts : meta'[p] # NoMeta <=> history'[p] # <<>>
      /\ \A p \in Prompts : Exists(p) => meta'[p] # NoMeta
  BY <1>2 DEF Effect, Exists
<1>5. \A x \in Requests : x.prompt \in Prompts
  BY WireFacts DEF IInv
<1>6. WireOK'
  <2>1. \A x \in InFlight' : x \in InFlight
    BY <1>1, <1>3 DEF InFlight
  <2>2. sent' \subseteq Requests
    BY <1>1 DEF IInv, TypeOK, WireOK
  <2>3. \A x \in InFlight : ArgFits(x)
    BY DEF IInv, TypeOK, WireOK
  <2>4. QED
    BY <1>3, <2>1, <2>2, <2>3 DEF WireOK, ArgFits
<1>7. PageOK'
  BY <1>1, <1>2, PageFacts DEF PageOK
<1>8. ExistInv'
  <2>1. page' # None => meta'[page'] # NoMeta
    BY <1>1, <1>4, PageFacts DEF IInv, ExistInv
  <2>2. \A x \in sent' : meta'[x.prompt] # NoMeta
    BY <1>1, <1>4, <1>5 DEF IInv, ExistInv, TypeOK, WireOK
  <2>3. ASSUME NEW k \in DOMAIN answers'
        PROVE  /\ meta'[answers'[k].req.prompt] # NoMeta
               /\ answers'[k].req.kind = "load" => answers'[k].versions # <<>>
               /\ \A p \in answers'[k].copies : meta'[p] # NoMeta
    <3>1. CASE k = n
      <4>1. r \in Requests
        BY DEF IInv, TypeOK, WireOK
      <4>2. QED
        BY <1>3, <1>4, <1>5, <3>1, <4>1
    <3>2. CASE k \in DOMAIN answers
      <4>1. /\ answers[k].req \in Requests /\ answers[k].copies \subseteq Prompts
        BY <3>2, WireFacts DEF IInv
      <4>2. /\ Exists(answers[k].req.prompt)
            /\ answers[k].req.kind = "load" => answers[k].versions # <<>>
            /\ \A p \in answers[k].copies : Exists(p)
        BY <3>2 DEF IInv, ExistInv
      <4>3. QED
        BY <1>3, <1>4, <1>5, <3>2, <4>1, <4>2
    <3>3. QED
      BY <1>3, <3>1, <3>2
  <2>4. QED
    BY <1>4, <2>1, <2>2, <2>3 DEF ExistInv, Exists
<1>9. ShownInv'
  BY <1>1, <1>2 DEF IInv, ShownInv, FormIsOfPage
<1>10. SavingInv'
  <2>1. \A x : Saving(x)' <=> Saving(x)
    BY <1>1 DEF Saving
  <2>2. Mounted'
    BY <1>1, <1>3 DEF IInv, SavingInv, Mounted
  <2>3. \A x, y \in sent' : Saving(x) /\ Saving(y) => x = y
    BY <1>1 DEF IInv, SavingInv
  <2>4. \A x \in sent', k \in DOMAIN answers' : ~(Saving(x) /\ Saving(answers'[k].req))
    BY <1>1, <1>3 DEF IInv, SavingInv
  <2>5. \A k, l \in DOMAIN answers' :
          Saving(answers'[k].req) /\ Saving(answers'[l].req) => k = l
    BY <1>3 DEF IInv, SavingInv
  <2>6. page' # None /\ ~savingVersion' =>
          /\ \A x \in sent' : ~Saving(x)
          /\ \A k \in DOMAIN answers' : ~Saving(answers'[k].req)
    BY <1>1, <1>3 DEF IInv, SavingInv
  <2>7. QED
    BY <1>1, <2>2, <2>3, <2>4, <2>5, <2>6 DEF SavingInv, Saving
<1>11. OrderInv'
  BY <1>1, <1>2, ServedOrder
<1> QED
  BY <1>4, <1>6, <1>7, <1>8, <1>9, <1>10, <1>11 DEF IInv, TypeOK

LEMMA StutterStep ==
  ASSUME IInv, UNCHANGED vars
  PROVE  IInv'
<1>1. UNCHANGED <<history, meta, page, mounts, detail, form, savingMeta,
                  savingVersion, sent, answers, acts, arrived, inOrder>>
  BY DEF vars, viewVars, shown, historyVars
<1>2. TypeOK'
  BY <1>1 DEF IInv, TypeOK, ServerOK, PageOK, WireOK, InFlight
<1>3. ExistInv' /\ ShownInv'
  BY <1>1 DEF IInv, ExistInv, ShownInv, FormIsOfPage, Exists
<1>4. SavingInv'
  BY <1>1 DEF IInv, SavingInv, Saving, Mounted
<1>5. OrderInv'
  BY <1>1 DEF IInv, OrderInv, LoadIsSent, StatusIsComing, VersionsAreComing,
              Sets, Lists, Reloads
<1> QED
  BY <1>2, <1>3, <1>4, <1>5 DEF IInv

LEMMA StepInvariant == IInv /\ [Next]_vars => IInv'
<1> SUFFICES ASSUME IInv, [Next]_vars
             PROVE  IInv'
  OBVIOUS
<1>1. CASE \E p \in Prompts : GoTo(p)
  BY <1>1, GoToStep
<1>2. CASE Leave
  BY <1>2, LeaveStep
<1>3. CASE (\E c \in Contents : EditContent(c)) \/ (\E x \in Statuses : EditStatus(x))
  BY <1>3, EditSteps
<1>4. CASE \/ ClickSaveDetails \/ ClickSaveVersion \/ ClickRestore
           \/ ClickArchive \/ ClickDuplicate
  BY <1>4, ClickSteps
<1>5. CASE \E r \in sent : Serve(r)
  BY <1>5, ServeStep
<1>6. ASSUME NEW i \in DOMAIN answers,
             \/ LoseAnswer(i)
             \/ LoadReturns(i) \/ SaveReturns(i) \/ ArchiveReturns(i)
             \/ VersionReturns(i) \/ DuplicateReturns(i)
      PROVE  IInv'
  BY <1>6, LoseStep, LoadStep, SaveStep, VersionStep, DuplicateStep
<1>7. CASE UNCHANGED vars
  BY <1>7, StutterStep
<1> QED
  BY <1>1, <1>2, <1>3, <1>4, <1>5, <1>6, <1>7 DEF Next

-----------------------------------------------------------------------------
(* The theorems.                                                           *)

\* The invariant of the editor page holds in every reachable state
\* (PromptEditor.tsx, its handlers and the locks of its buttons).
THEOREM Inductive == Spec => []IInv
BY InitInvariant, StepInvariant, PTL DEF Spec

\* Every variable of the page, the wire and the server keeps its type.
THEOREM TypeCorrect == Spec => []TypeOK
<1>1. IInv => TypeOK
  BY DEF IInv
<1> QED
  BY <1>1, Inductive, PTL

\* A form once loaded for the page is of the page's prompt, whatever comes in
\* for the prompts left behind (PromptEditor.tsx activePromptIdRef).
THEOREM FormStaysOfPage == Spec => []FormIsOfPage
<1>1. IInv => FormIsOfPage
  BY DEF IInv, ShownInv
<1> QED
  BY <1>1, Inductive, PTL

\* One instance has one version under way at a time (PromptEditor.tsx
\* saveNewVersion and its savingVersion).
THEOREM OneVersionEach == Spec => []OneVersionAtATime
<1>1. ASSUME IInv
      PROVE  OneVersionAtATime
  <2> DEFINE under == {r \in InFlight : r.kind = "version" /\ r.mount = mounts}
  <2>1. \A r, x \in under : r = x
    BY <1>1 DEF IInv, SavingInv, Saving, InFlight
  <2>2. CASE under = {}
    BY <2>2, FS_EmptySet DEF OneVersionAtATime
  <2>3. CASE under # {}
    <3>1. PICK r \in under : under = {r}
      BY <2>1, <2>3
    <3>2. Cardinality({r}) = 1
      BY FS_Singleton
    <3>3. QED
      BY <3>1, <3>2 DEF OneVersionAtATime
  <2>4. QED
    BY <2>2, <2>3
<1> QED
  BY <1>1, Inductive, PTL

\* A page that has taken its answers in order shows what the server has once
\* nothing is under way (PromptEditor.tsx saveMetadata, saveNewVersion,
\* restore and archive, each with what it refreshes).
THEOREM QuietIsCurrent == Spec => []QuietPageIsCurrent
<1>1. ASSUME IInv, arrived, inOrder, InFlight = {}
      PROVE  detail.status = meta[page].status /\ detail.versions = history[page]
  <2>1. sent = {} /\ DOMAIN answers = {}
    BY <1>1 DEF InFlight
  <2>2. ~LoadIsSent
    BY <2>1 DEF LoadIsSent
  <2>3. StatusIsComing /\ VersionsAreComing
    BY <1>1, <2>1, <2>2 DEF IInv, OrderInv
  <2>4. QED
    BY <1>1, <2>1, <2>3 DEF StatusIsComing, VersionsAreComing
<1>2. IInv => QuietPageIsCurrent
  BY <1>1 DEF QuietPageIsCurrent
<1> QED
  BY <1>2, Inductive, PTL

\* A restore adds nothing to a history that was not in it (PromptEditor.tsx
\* restore, over promptService restoreVersion).
THEOREM RestoresOwn == Spec => RestoresOwnContent
<1> DEFINE Restores(r, p) ==
      r.kind = "restore" /\ r \notin sent' /\ history'[p] # history[p] =>
        \E i \in DOMAIN history[p] : history[p][i] = Last(history'[p])
<1>1. ASSUME IInv, Next, NEW r \in sent, NEW p \in Prompts,
             r.kind = "restore", r \notin sent', history'[p] # history[p]
      PROVE  \E i \in DOMAIN history[p] : history[p][i] = Last(history'[p])
  <2>1. PICK x \in sent : Serve(x)
    BY <1>1 DEF Next, GoTo, Show, Leave, EditContent, EditStatus, Fill,
       ClickSaveDetails, ClickSaveVersion, ClickRestore, ClickArchive,
       ClickDuplicate, Click, LoseAnswer, LoadReturns, SaveReturns, ArchiveReturns,
       VersionReturns, DuplicateReturns, Take, historyVars
  <2>2. x = r /\ Performs(r)
    BY <1>1, <2>1 DEF Serve, historyVars
  <2>3. /\ IsOwnVersion(r.prompt, r.version)
        /\ AppendVersion(r.prompt, history[r.version.of][r.version.number])
    BY <1>1, <2>2 DEF Performs
  <2> DEFINE c == history[r.version.of][r.version.number]
  <2>4. /\ r.version.of = r.prompt /\ r.version.number \in DOMAIN history[r.prompt]
        /\ history' = [history EXCEPT ![r.prompt] = Append(@, c)]
    BY <2>3 DEF IsOwnVersion, AppendVersion
  <2>5. history \in [Prompts -> Seq(Contents)] /\ r.prompt \in Prompts
    BY <1>1, WireFacts DEF IInv, TypeOK, ServerOK
  <2>6. history[r.prompt] \in Seq(Contents) /\ c \in Contents
    BY <2>4, <2>5, ElementOfSeq, LenProperties
  <2> HIDE DEF c
  <2>7. p = r.prompt /\ history'[p] = Append(history[p], c)
    BY <1>1, <2>4, <2>5
  <2>8. Last(history'[p]) = c
    BY <2>6, <2>7, AppendProperties DEF Last
  <2>9. QED
    BY <2>4, <2>7, <2>8 DEF c
<1>2. IInv /\ [Next]_vars => [\A r \in sent : \A p \in Prompts : Restores(r, p)]_vars
  BY <1>1
<1> QED
  BY <1>2, Inductive, PTL DEF Spec, RestoresOwnContent
=============================================================================
