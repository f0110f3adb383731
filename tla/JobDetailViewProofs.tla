------------------------ MODULE JobDetailViewProofs ------------------------
(***************************************************************************)
(* Proofs about JobDetailView: what Regenerate costs, and what its late    *)
(* answers change, for any number of jobs, instances, clicks and           *)
(* navigations, and whatever requests are lost.                            *)
(***************************************************************************)
EXTENDS JobDetailView, FiniteSetTheorems, TLAPS

-----------------------------------------------------------------------------
(* The inductive invariant.                                                *)

\* What a click on Regenerate would send now for job j.
Current(j) == Token(mounts, j, tokens[j])

\* The page, its instance and its token belong together.
ShownInv ==
  page # None =>
    /\ mounts >= 1 /\ jobIdRef[mounts] = page
    /\ tokens[page] >= 1 /\ retryToken = Current(page)

\* A click sends what its instance minted for its job.
MintInv ==
  \A n \in Retries : Sent(n) =>
    /\ retries[n].mount \in 1..mounts /\ retries[n].job \in Jobs
    /\ \E k \in 1..(MaxRetries + 1) :
         retries[n].token = Token(retries[n].mount, retries[n].job, k)

\* Clicks are numbered in their order, and one made while another of the job
\* was open is not alone.
OrderInv ==
  \A m, n \in Retries : m < n /\ Sent(n) =>
    /\ Sent(m)
    /\ retries[m].phase = "open" /\ retries[m].job = retries[n].job
         => ~retries[n].alone

\* While a click is open or has no answer, the page keeps the token of its job.
KeptInv ==
  page # None =>
    \A n \in Retries :
      /\ Sent(n) /\ retries[n].mount = mounts /\ OneByOne(retries[n].job)
      /\ retries[n].phase = "open" \/ Unresolved(n)
      => retries[n].token = Current(retries[n].job)

\* One token of a job has no answer, also when the page has been left.
SoleInv ==
  \A m, n \in Retries :
    /\ Sent(m) /\ retries[m].mount = mounts /\ Unresolved(m)
    /\ Sent(n) /\ retries[n].mount = mounts /\ Unresolved(n)
    /\ retries[m].job = retries[n].job /\ OneByOne(retries[n].job)
    => retries[m].token = retries[n].token

RetryInv ==
  ShownInv /\ MintInv /\ OrderInv /\ KeptInv /\ SoleInv /\ RetryingIsAwaited

\* A page that was left has no loads under way.
LoadInv == page = None => loads = NoLoads

\* The jobs the page is about or may be told about exist.
ExistInv ==
  /\ page # None => status[page] # "absent"
  /\ \A t \in Tokens, j \in Jobs : <<t, j>> \in bought => status[j] # "absent"
  /\ \A n \in Retries :
       retries[n].reply # NoJob => /\ retries[n].reply.id \in Jobs
                                  /\ status[retries[n].reply.id] # "absent"

IInv ==
  /\ TypeOK /\ ExistInv /\ RetryInv
  /\ LoadInv /\ PollsWhileNonTerminal

-----------------------------------------------------------------------------
(* At first.                                                               *)

LEMMA InitInv == Init => IInv
<1> SUFFICES ASSUME Init PROVE IInv
  OBVIOUS
<1> USE BoundsAssumption
<1>1. NoRetry \in RetryRecords /\ NoResume \in ResumeRecords /\ NoJob \in JobRecords
  BY DEF NoRetry, NoResume, NoJob, RetryRecords, ResumeRecords, JobRecords, Tokens,
         Token, None
<1>2. \A n \in Retries : ~Sent(n)
  BY DEF Init, Sent, NoRetry
<1>3. TypeOK
  <2>1. Cardinality(Answered) = 0
    <3>1. Answered = {}
      BY DEF Init, Answered, NoRetry
    <3> QED BY <3>1, FS_EmptySet
  <2>2. status \in [Jobs -> Statuses \cup {"absent"}]
    BY DEF Init
  <2>3. retryToken \in Tokens
    BY DEF Init, Tokens, Token, None
  <2>4. tokens \in [Jobs -> 0..(Cardinality(Answered) + 1)]
    BY <2>1 DEF Init
  <2>5. retries \in [Retries -> RetryRecords] /\ resumes \in [Resumes -> ResumeRecords]
    BY <1>1 DEF Init
  <2>6. /\ bought \in SUBSET (Tokens \X Jobs) /\ mounts \in 0..MaxMounts
        /\ moves \in 0..MaxMoves /\ loads \in [Loads -> Nat]
    BY DEF Init, NoLoads
  <2> QED BY <1>1, <2>2, <2>3, <2>4, <2>5, <2>6 DEF Init, TypeOK
<1>4. RetryInv
  BY <1>2 DEF Init, RetryInv, ShownInv, MintInv, OrderInv, KeptInv, SoleInv,
              RetryingIsAwaited
<1>5. LoadInv /\ PollsWhileNonTerminal /\ ExistInv
  BY DEF Init, LoadInv, PollsWhileNonTerminal, ExistInv, NoRetry
<1> QED BY <1>3, <1>4, <1>5 DEF IInv

-----------------------------------------------------------------------------
(* Steps that have to do with loads, resumes and the server only.          *)

LEMMA Framed ==
  ASSUME RetryInv,
         UNCHANGED <<page, mounts, jobIdRef, tokenVars, retrying, retries>>
  PROVE  RetryInv'
<1>1. ShownInv' /\ MintInv' /\ OrderInv'
  BY DEF RetryInv, ShownInv, MintInv, OrderInv, Current, Sent, tokenVars
<1>2. KeptInv'
  BY DEF RetryInv, KeptInv, Current, Sent, Unresolved, OneByOne, tokenVars
<1>3. SoleInv'
  BY DEF RetryInv, SoleInv, Sent, Unresolved, OneByOne
<1>4. RetryingIsAwaited'
  BY DEF RetryInv, RetryingIsAwaited, OpenRetries
<1> QED BY <1>1, <1>2, <1>3, <1>4 DEF RetryInv

LEMMA LoadsInv ==
  ASSUME IInv,
         \/ Tick \/ LoadServed \/ LoadThrows
         \/ \E s \in Statuses : LoadReturns(s)
  PROVE  IInv'
<1>1. UNCHANGED <<server, page, mounts, jobIdRef, tokenVars, retrying, resuming,
                  retries, resumes, moves>>
  BY DEF Tick, LoadServed, LoadReturns, LoadThrows
<1>2. RetryInv' /\ ExistInv'
  BY <1>1, Framed DEF IInv, ExistInv, server
<1>3. Answered' = Answered
  BY <1>1 DEF Answered
<1>4. loads \in [Loads -> Nat] /\ "asked" \in Loads /\ Statuses \subseteq Loads
  BY DEF IInv, TypeOK, Loads
<1>5. page # None => status[page] \in Statuses
  BY DEF IInv, TypeOK, ExistInv
<1>6. \A l \in Loads : loads[l] > 0 => page # None
  BY DEF IInv, LoadInv, NoLoads
<1>7. page # None /\ loads' \in [Loads -> Nat]
  <2>1. CASE Tick
    BY <1>4, <2>1 DEF Tick
  <2>2. CASE LoadServed
    <3>1. /\ loads["asked"] > 0
          /\ loads' = [loads EXCEPT !["asked"] = @ - 1, ![status[page]] = @ + 1]
      BY <2>2 DEF LoadServed
    <3>2. loads["asked"] - 1 \in Nat /\ status[page] \in Loads
      BY <1>4, <1>5, <1>6, <3>1
    <3> QED BY <1>4, <1>6, <3>1, <3>2
  <2>3. CASE LoadThrows
    BY <1>4, <1>6, <2>3 DEF LoadThrows
  <2>4. ASSUME NEW s \in Statuses, LoadReturns(s)
        PROVE  page # None /\ loads' \in [Loads -> Nat]
    BY <1>4, <1>6, <2>4 DEF LoadReturns
  <2> QED BY <2>1, <2>2, <2>3, <2>4
<1>8. \/ UNCHANGED <<job, timer, straggler>>
      \/ \E s \in Statuses :
           /\ job' = [id |-> page, status |-> s]
           /\ timer' = (timer /\ s \notin STOP_POLLING)
           /\ straggler' = (~timer /\ s \notin STOP_POLLING)
  BY DEF Tick, LoadServed, LoadThrows, LoadReturns
<1>9. job' \in JobRecords /\ timer' \in BOOLEAN /\ straggler' \in BOOLEAN
  <2>1. ASSUME NEW s \in Statuses
        PROVE  /\ [id |-> page, status |-> s] \in JobRecords
               /\ (timer /\ s \notin STOP_POLLING) \in BOOLEAN
               /\ (~timer /\ s \notin STOP_POLLING) \in BOOLEAN
    BY DEF IInv, TypeOK, JobRecords
  <2>2. job \in JobRecords /\ timer \in BOOLEAN /\ straggler \in BOOLEAN
    BY DEF IInv, TypeOK
  <2> QED BY <1>8, <2>1, <2>2
<1>10. TypeOK'
  BY <1>1, <1>3, <1>7, <1>9 DEF IInv, TypeOK, server, tokenVars
<1>11. LoadInv'
  BY <1>1, <1>7 DEF LoadInv
<1>12. PollsWhileNonTerminal'
  <2>1. CASE UNCHANGED <<job, timer, straggler>>
    BY <1>1, <2>1 DEF IInv, PollsWhileNonTerminal
  <2>2. ASSUME NEW s \in Statuses, job' = [id |-> page, status |-> s],
               timer' = (timer /\ s \notin STOP_POLLING),
               straggler' = (~timer /\ s \notin STOP_POLLING)
        PROVE  PollsWhileNonTerminal'
    <3>1. job'.status = s
      BY <2>2
    <3>2. s \notin STOP_POLLING => timer' \/ straggler'
      BY <2>2
    <3> QED BY <3>1, <3>2 DEF PollsWhileNonTerminal
  <2> QED BY <1>8, <2>1, <2>2
<1> QED BY <1>2, <1>10, <1>11, <1>12 DEF IInv

LEMMA ResumeEndType ==
  ASSUME IInv, NEW n \in Resumes, ResumeEnds(n)
  PROVE  resumes' \in [Resumes -> ResumeRecords]
<1> DEFINE w == [resumes[n] EXCEPT !.phase = "settled", !.reply = "none"]
<1>1. w \in ResumeRecords
  BY DEF IInv, TypeOK, ResumeRecords
<1>2. resumes' = [resumes EXCEPT ![n] = w]
  BY DEF ResumeEnds, IInv, TypeOK
<1> HIDE DEF w
<1> QED BY <1>1, <1>2 DEF IInv, TypeOK

LEMMA ResumesInv ==
  ASSUME IInv, NEW n \in Resumes,
         resumeTracking(n) \/ ResumeReturns(n) \/ ResumeThrows(n) \/ ResumeServed(n)
  PROVE  IInv'
<1>1. UNCHANGED <<bought, page, mounts, jobIdRef, tokenVars, retrying, retries, moves>>
  BY DEF resumeTracking, ResumeReturns, ResumeThrows, ResumeServed, server
<1>2. RetryInv' /\ Answered' = Answered
  BY <1>1, Framed DEF IInv, Answered
<1>3. CASE resumeTracking(n)
  <2>1. /\ UNCHANGED <<status, job, timer, loads, straggler>> /\ resuming' = TRUE
        /\ page # None
        /\ resumes' = [resumes EXCEPT ![n] =
             [NoResume EXCEPT !.phase = "open", !.job = page, !.mount = mounts]]
    BY <1>3 DEF resumeTracking, server, shownVars
  <2>2. [NoResume EXCEPT !.phase = "open", !.job = page, !.mount = mounts]
          \in ResumeRecords
    BY BoundsAssumption DEF NoResume, ResumeRecords, IInv, TypeOK, None
  <2>3. TypeOK'
    BY <1>1, <1>2, <2>1, <2>2 DEF IInv, TypeOK, tokenVars
  <2> QED BY <1>1, <1>2, <2>1, <2>3 DEF IInv, ExistInv, LoadInv, PollsWhileNonTerminal
<1>4. CASE ResumeReturns(n)
  <2>1. /\ UNCHANGED status /\ resumes[n].reply \in Statuses
        /\ ResumeEnds(n)
    BY <1>4 DEF ResumeReturns, server
  <2>2. resumes' \in [Resumes -> ResumeRecords]
    BY <2>1, ResumeEndType
  <2>3. \/ /\ page # None /\ job' = [id |-> resumes[n].job, status |-> resumes[n].reply]
           /\ loads' = [NoLoads EXCEPT !["asked"] = 1] /\ timer' = TRUE
           /\ straggler' = FALSE /\ resuming' = FALSE
        \/ UNCHANGED <<job, timer, loads, straggler, resuming>>
    BY <1>4 DEF ResumeReturns, StartPolling, Alive, shownVars
  <2>4. job' \in JobRecords
    BY <2>1, <2>3 DEF IInv, TypeOK, ResumeRecords, JobRecords
  <2>5. loads' \in [Loads -> Nat]
    BY <2>3 DEF IInv, TypeOK, NoLoads
  <2>6. TypeOK'
    BY <1>1, <1>2, <2>1, <2>2, <2>3, <2>4, <2>5 DEF IInv, TypeOK, tokenVars
  <2>7. ExistInv'
    BY <1>1, <2>1 DEF IInv, ExistInv
  <2>8. LoadInv' /\ PollsWhileNonTerminal'
    BY <1>1, <2>3 DEF IInv, LoadInv, PollsWhileNonTerminal
  <2> QED BY <1>2, <2>6, <2>7, <2>8 DEF IInv
<1>5. CASE ResumeThrows(n)
  <2>1. /\ UNCHANGED <<status, job, timer, loads, straggler>>
        /\ resuming' \in BOOLEAN
        /\ ResumeEnds(n)
    BY <1>5 DEF ResumeThrows, server, shownVars
  <2>2. resumes' \in [Resumes -> ResumeRecords]
    BY <2>1, ResumeEndType
  <2>3. TypeOK'
    BY <1>1, <1>2, <2>1, <2>2 DEF IInv, TypeOK, tokenVars
  <2> QED BY <1>1, <1>2, <2>1, <2>3 DEF IInv, ExistInv, LoadInv, PollsWhileNonTerminal
<1>6. CASE ResumeServed(n)
  <2>1. /\ UNCHANGED <<job, timer, loads, straggler, resuming>>
        /\ \E w \in {"running", "none"} :
             resumes' = [resumes EXCEPT ![n].served = TRUE, ![n].reply = w]
        /\ \E w \in {"running", status[resumes[n].job]} :
             status' = [status EXCEPT ![resumes[n].job] = w]
    BY <1>6 DEF ResumeServed, shownVars
  <2>2. resumes' \in [Resumes -> ResumeRecords]
    <3>1. PICK v \in {"running", "none"} :
                 resumes' = [resumes EXCEPT ![n].served = TRUE, ![n].reply = v]
      BY <2>1
    <3> DEFINE w == [resumes[n] EXCEPT !.served = TRUE, !.reply = v]
    <3>2. w \in ResumeRecords
      BY DEF IInv, TypeOK, ResumeRecords, Statuses
    <3>3. resumes' = [resumes EXCEPT ![n] = w]
      BY <3>1 DEF IInv, TypeOK
    <3> HIDE DEF w
    <3> QED BY <3>2, <3>3 DEF IInv, TypeOK
  <2>3. /\ status' \in [Jobs -> Statuses \cup {"absent"}]
        /\ \A j \in Jobs : status[j] # "absent" => status'[j] # "absent"
    <3>1. PICK w \in {"running", status[resumes[n].job]} :
                 status' = [status EXCEPT ![resumes[n].job] = w]
      BY <2>1
    <3>2. resumes[n].job \in Jobs => w \in Statuses \cup {"absent"}
      BY <3>1 DEF IInv, TypeOK, Statuses
    <3> QED BY <3>1, <3>2 DEF IInv, TypeOK
  <2>4. TypeOK'
    BY <1>1, <1>2, <2>1, <2>2, <2>3 DEF IInv, TypeOK, tokenVars
  <2>5. ExistInv'
    BY <1>1, <2>3 DEF IInv, ExistInv, TypeOK
  <2> QED BY <1>1, <1>2, <2>1, <2>4, <2>5 DEF IInv, LoadInv, PollsWhileNonTerminal
<1> QED BY <1>3, <1>4, <1>5, <1>6

LEMMA JobEndsInv ==
  ASSUME IInv, NEW j \in Jobs, NEW s \in STOP_POLLING, JobEnds(j, s)
  PROVE  IInv'
<1>1. /\ UNCHANGED <<bought, page, mounts, jobIdRef, tokenVars, shownVars, retrying,
                     resuming, retries, resumes, moves>>
      /\ status' = [status EXCEPT ![j] = s]
  BY DEF JobEnds
<1>2. RetryInv' /\ Answered' = Answered
  BY <1>1, Framed DEF IInv, Answered
<1>3. /\ status' \in [Jobs -> Statuses \cup {"absent"}]
      /\ \A i \in Jobs : status[i] # "absent" => status'[i] # "absent"
  BY <1>1 DEF IInv, TypeOK, Statuses, STOP_POLLING, TERMINAL
<1>4. TypeOK'
  BY <1>1, <1>2, <1>3 DEF IInv, TypeOK, tokenVars, shownVars
<1>5. ExistInv'
  BY <1>1, <1>3 DEF IInv, ExistInv, TypeOK
<1> QED BY <1>1, <1>2, <1>4, <1>5 DEF IInv, LoadInv, PollsWhileNonTerminal, shownVars

-----------------------------------------------------------------------------
(* The page.                                                               *)

LEMMA CountAnswered == Cardinality(Answered) \in Nat /\ IsFiniteSet(Answered)
<1>1. IsFiniteSet(Retries)
  BY FS_Interval, BoundsAssumption DEF Retries
<1>2. IsFiniteSet(Answered)
  BY <1>1, FS_Subset DEF Answered
<1> QED BY <1>2, FS_CardinalityType

LEMMA LeaveInv ==
  ASSUME IInv, Leave
  PROVE  IInv'
<1>1. /\ UNCHANGED <<status, bought, mounts, jobIdRef, retries, resumes, moves>>
      /\ page' = None /\ page # None /\ job' = NoJob /\ loads' = NoLoads
      /\ timer' = FALSE /\ straggler' = FALSE
      /\ tokens' = [j \in Jobs |-> 0] /\ retryToken' = Token(0, None, 0)
      /\ retrying' = FALSE /\ resuming' = FALSE
  BY DEF Leave, server
<1>2. Answered' = Answered
  BY <1>1 DEF Answered
<1>3. TypeOK'
  <2>1. NoLoads \in [Loads -> Nat] /\ NoJob \in JobRecords
    BY DEF NoLoads, NoJob, JobRecords
  <2>2. Token(0, None, 0) \in Tokens
    BY BoundsAssumption DEF Token, Tokens
  <2>3. [j \in Jobs |-> 0] \in [Jobs -> 0..(Cardinality(Answered) + 1)]
    BY CountAnswered
  <2> QED BY <1>1, <1>2, <2>1, <2>2, <2>3 DEF IInv, TypeOK
<1>4. ExistInv' /\ LoadInv' /\ PollsWhileNonTerminal'
  BY <1>1 DEF IInv, ExistInv, LoadInv, PollsWhileNonTerminal
<1>5. ShownInv' /\ MintInv' /\ OrderInv' /\ KeptInv' /\ RetryingIsAwaited'
  BY <1>1 DEF IInv, RetryInv, ShownInv, MintInv, OrderInv, KeptInv,
              RetryingIsAwaited, Sent
<1>6. SoleInv'
  BY <1>1 DEF IInv, RetryInv, SoleInv, Sent, Unresolved, OneByOne
<1> QED BY <1>3, <1>4, <1>5, <1>6 DEF IInv, RetryInv

LEMMA AnsweredAtMost == Cardinality(Answered) <= MaxRetries
<1>1. IsFiniteSet(Retries) /\ Cardinality(Retries) = MaxRetries
  BY FS_Interval, BoundsAssumption DEF Retries
<1>2. Answered \subseteq Retries
  BY DEF Answered
<1> QED BY <1>1, <1>2, FS_Subset

LEMMA TokenType ==
  ASSUME NEW m \in 0..MaxMounts, NEW j \in Jobs, NEW k \in 0..(MaxRetries + 1)
  PROVE  Token(m, j, k) \in Tokens
BY DEF Token, Tokens

LEMMA PollingStarts ==
  ASSUME StartPolling
  PROVE  /\ loads' \in [Loads -> Nat] /\ timer' = TRUE /\ straggler' = FALSE
BY DEF StartPolling, NoLoads

\* What the rendering for job j does, from any cache of tokens.
LEMMA ShowFacts ==
  ASSUME IInv, NEW j \in Jobs,
         page = None => mounts < MaxMounts,
         NEW N \in 0..MaxRetries, NEW c \in [Jobs -> 0..(N + 1)], Show(j, c)
  PROVE  /\ mounts' \in 1..MaxMounts /\ page' = j
         /\ page # None => mounts' = mounts
         /\ page = None => mounts' = mounts + 1
         /\ jobIdRef' \in [Mounts -> Jobs \cup {None}]
         /\ tokens' \in [Jobs -> 0..(N + 1)] /\ retryToken' \in Tokens
         /\ \A i \in Jobs : c[i] >= 1 => tokens'[i] = c[i]
         /\ UNCHANGED <<job, resuming>> /\ retrying' = FALSE /\ StartPolling
         /\ ShownInv'
<1> USE BoundsAssumption
<1>1. j # None /\ None \notin Jobs
  BY DEF Jobs, None
<1>2. /\ page' = j /\ jobIdRef' = [jobIdRef EXCEPT ![mounts'] = j]
      /\ mounts' = IF page = None THEN mounts + 1 ELSE mounts
      /\ tokens' = getRetryToken(c, j)
      /\ retryToken' = Token(mounts', j, tokens'[j]) /\ retrying' = FALSE
      /\ UNCHANGED <<job, resuming>> /\ StartPolling
  BY DEF Show, ResetRetry
<1>3. mounts' \in 1..MaxMounts
  BY <1>2 DEF IInv, TypeOK, RetryInv, ShownInv
<1>4. /\ tokens' \in [Jobs -> 0..(N + 1)] /\ tokens'[j] >= 1
      /\ \A i \in Jobs : c[i] >= 1 => tokens'[i] = c[i]
  BY <1>2 DEF getRetryToken
<1>5. retryToken' \in Tokens
  BY <1>2, <1>3, <1>4, TokenType
<1>6. jobIdRef' \in [Mounts -> Jobs \cup {None}] /\ jobIdRef'[mounts'] = j
  BY <1>2, <1>3 DEF IInv, TypeOK, Mounts
<1>7. ShownInv'
  BY <1>2, <1>3, <1>4, <1>6 DEF ShownInv, Current
<1> QED BY <1>2, <1>3, <1>4, <1>5, <1>6, <1>7

\* An open or unanswered click of this instance has a token, so its job has.
LEMMA KeptToken ==
  ASSUME IInv, NEW n \in Retries, Sent(n), retries[n].mount = mounts,
         retries[n].token = Current(retries[n].job)
  PROVE  tokens[retries[n].job] >= 1
BY DEF IInv, RetryInv, MintInv, Current, Token

LEMMA OpenInv ==
  ASSUME IInv, NEW j \in Jobs, Open(j)
  PROVE  IInv'
<1> USE BoundsAssumption
<1> DEFINE N == Cardinality(Answered)
<1>1. /\ UNCHANGED <<status, bought, retries, resumes>> /\ Show(j, tokens)
      /\ status[j] # "absent"
      /\ page = None => mounts < MaxMounts
      /\ moves' \in 0..MaxMoves
  BY DEF Open, server, IInv, TypeOK
<1>2. N \in 0..MaxRetries /\ tokens \in [Jobs -> 0..(N + 1)]
  BY CountAnswered, AnsweredAtMost DEF IInv, TypeOK
<1>3. Answered' = Answered
  BY <1>1 DEF Answered
<1> HIDE DEF N
<1>4. /\ mounts' \in 1..MaxMounts /\ page' = j
      /\ page # None => mounts' = mounts
      /\ page = None => mounts' = mounts + 1
      /\ jobIdRef' \in [Mounts -> Jobs \cup {None}]
      /\ tokens' \in [Jobs -> 0..(N + 1)] /\ retryToken' \in Tokens
      /\ \A i \in Jobs : tokens[i] >= 1 => tokens'[i] = tokens[i]
      /\ UNCHANGED <<job, resuming>> /\ retrying' = FALSE /\ StartPolling
      /\ ShownInv'
  BY <1>1, <1>2, ShowFacts
<1>p. loads' \in [Loads -> Nat] /\ timer' = TRUE /\ straggler' = FALSE
  BY <1>4, PollingStarts
<1>5. TypeOK'
  <2>1. tokens' \in [Jobs -> 0..(Cardinality(Answered') + 1)]
    BY <1>3, <1>4 DEF N
  <2>2. mounts' \in 0..MaxMounts /\ page' \in Jobs
    BY <1>1, <1>4 DEF IInv, TypeOK
  <2>3. /\ status' \in [Jobs -> Statuses \cup {"absent"}]
        /\ bought' \in SUBSET (Tokens \X Jobs)
        /\ retries' \in [Retries -> RetryRecords]
        /\ resumes' \in [Resumes -> ResumeRecords]
    BY <1>1 DEF IInv, TypeOK
  <2> QED BY <1>1, <1>4, <1>p, <2>1, <2>2, <2>3 DEF IInv, TypeOK
<1>n. None \notin Jobs
  BY DEF Jobs, None
<1>6. ExistInv' /\ LoadInv' /\ PollsWhileNonTerminal' /\ RetryingIsAwaited'
  BY <1>1, <1>4, <1>p, <1>n DEF IInv, ExistInv, LoadInv, PollsWhileNonTerminal, RetryingIsAwaited
<1>7. mounts \in 0..MaxMounts /\ mounts <= mounts'
  BY <1>4 DEF IInv, TypeOK
<1>8. MintInv' /\ OrderInv'
  BY <1>1, <1>4, <1>7 DEF IInv, RetryInv, MintInv, OrderInv, Sent
<1>9. KeptInv'
  <2> SUFFICES ASSUME NEW n \in Retries, Sent(n)', (retries[n].mount = mounts)',
                      OneByOne(retries[n].job)',
                      (retries[n].phase = "open" \/ Unresolved(n))'
               PROVE  (retries[n].token = Current(retries[n].job))'
    BY DEF KeptInv
  <2>1. mounts' = mounts /\ page # None
    BY <1>1, <1>4, <1>7 DEF IInv, RetryInv, MintInv, Sent
  <2>2. /\ Sent(n) /\ retries[n].mount = mounts
        /\ OneByOne(retries[n].job) /\ (retries[n].phase = "open" \/ Unresolved(n))
    BY <1>1, <2>1 DEF Sent, OneByOne, Unresolved
  <2>3. retries[n].token = Current(retries[n].job)
    BY <2>1, <2>2 DEF IInv, RetryInv, KeptInv
  <2>4. tokens[retries[n].job] >= 1 /\ retries[n].job \in Jobs
    BY <2>2, <2>3, KeptToken DEF IInv, RetryInv, MintInv
  <2> QED BY <1>1, <1>4, <2>1, <2>3, <2>4 DEF Current
<1>10. SoleInv'
  BY <1>1, <1>4, <1>7
     DEF IInv, RetryInv, SoleInv, MintInv, Sent, Unresolved, OneByOne
<1> QED BY <1>4, <1>5, <1>6, <1>8, <1>9, <1>10 DEF IInv, RetryInv

-----------------------------------------------------------------------------
(* Regenerate.                                                             *)

\* The click.
LEMMA ClickInv ==
  ASSUME IInv, NEW n \in Retries, retry(n)
  PROVE  IInv'
<1> USE BoundsAssumption
<1> DEFINE r == [NoRetry EXCEPT !.phase = "open", !.job = page, !.mount = mounts,
                   !.token = retryToken, !.alone = OpenRetries(page) = {}]
<1>1. /\ page # None /\ retries[n].phase = "none" /\ retrying' = TRUE
      /\ \A m \in Retries : m < n => Sent(m)
      /\ retries' = [retries EXCEPT ![n] = r]
      /\ UNCHANGED <<status, bought, page, mounts, jobIdRef, tokens, retryToken, job,
                     timer, loads, straggler, resuming, resumes, moves>>
  BY DEF retry, Sent, server, tokenVars, shownVars
<1>2. /\ r \in RetryRecords /\ r.phase = "open" /\ r.job = page /\ r.mount = mounts
      /\ r.token = retryToken /\ r.reply = NoJob
      /\ r.alone => OpenRetries(page) = {}
  <2>1. NoJob \in JobRecords
    BY DEF NoJob, JobRecords
  <2>2. (OpenRetries(page) = {}) \in BOOLEAN
    OBVIOUS
  <2> QED BY <2>1, <2>2 DEF NoRetry, RetryRecords, IInv, TypeOK
<1> HIDE DEF r
<1>3. /\ retries'[n] = r /\ \A m \in Retries : m # n => retries'[m] = retries[m]
      /\ Sent(n)' /\ \A m \in Retries : m # n => (Sent(m)' <=> Sent(m))
  BY <1>1, <1>2 DEF IInv, TypeOK, Sent
<1>4. Answered' = Answered
  BY <1>1, <1>2, <1>3 DEF Answered
<1>5. TypeOK'
  BY <1>1, <1>2, <1>4 DEF IInv, TypeOK
<1>6. ExistInv'
  BY <1>1, <1>2, <1>3 DEF IInv, ExistInv
<1>7. LoadInv' /\ PollsWhileNonTerminal'
  BY <1>1 DEF IInv, LoadInv, PollsWhileNonTerminal
<1>8. ShownInv'
  BY <1>1 DEF IInv, RetryInv, ShownInv, Current
<1>9. RetryingIsAwaited'
  BY <1>1, <1>2, <1>3 DEF RetryingIsAwaited, OpenRetries
<1>10. MintInv'
  <2>1. mounts \in 1..mounts /\ page \in Jobs
    BY <1>1 DEF IInv, TypeOK, RetryInv, ShownInv
  <2>2. tokens[page] \in 1..(MaxRetries + 1) /\ retryToken = Token(mounts, page, tokens[page])
    <3>1. Cardinality(Answered) \in 0..MaxRetries
      BY CountAnswered, AnsweredAtMost
    <3> QED BY <1>1, <2>1, <3>1 DEF IInv, TypeOK, RetryInv, ShownInv, Current
  <2> QED BY <1>1, <1>2, <1>3, <2>1, <2>2 DEF IInv, RetryInv, MintInv
<1>11. OrderInv'
  <2> SUFFICES ASSUME NEW i \in Retries, NEW m \in Retries, i < m, Sent(m)'
               PROVE  /\ Sent(i)'
                      /\ (retries[i].phase = "open" /\ retries[i].job = retries[m].job
                            => ~retries[m].alone)'
    BY DEF OrderInv
  <2>1. CASE m = n
    <3>1. i # n /\ Sent(i)
      BY <1>1, <2>1 DEF Retries
    <3>2. retries[i].phase = "open" /\ retries[i].job = page => ~r.alone
      BY <1>2 DEF OpenRetries
    <3> QED BY <1>2, <1>3, <2>1, <3>1, <3>2
  <2>2. CASE m # n
    <3>1. Sent(m)
      BY <1>3, <2>2
    <3>2. i # n
      BY <1>1, <3>1 DEF IInv, RetryInv, OrderInv, Sent
    <3> QED BY <1>3, <2>2, <3>1, <3>2 DEF IInv, RetryInv, OrderInv
  <2> QED BY <2>1, <2>2
<1>12. KeptInv'
  <2> SUFFICES ASSUME NEW m \in Retries, Sent(m)', (retries[m].mount = mounts)',
                      OneByOne(retries[m].job)',
                      (retries[m].phase = "open" \/ Unresolved(m))'
               PROVE  (retries[m].token = Current(retries[m].job))'
    BY DEF KeptInv
  <2>1. CASE m = n
    BY <1>1, <1>2, <1>3, <2>1 DEF IInv, RetryInv, ShownInv, Current
  <2>2. CASE m # n
    <3>1. Sent(m) /\ retries[m].mount = mounts /\ retries'[m] = retries[m]
      BY <1>1, <1>3, <2>2
    <3>2. OneByOne(retries[m].job)
      <4> SUFFICES ASSUME NEW i \in Retries, Sent(i), retries[i].job = retries[m].job,
                          retries[i].mount = mounts
                   PROVE  retries[i].alone
        BY DEF OneByOne
      <4>1. i # n
        BY <1>1 DEF Sent
      <4> QED BY <1>1, <1>3, <3>1, <4>1 DEF OneByOne
    <3>3. retries[m].phase = "open" \/ Unresolved(m)
      <4> SUFFICES ASSUME Unresolved(m)' PROVE Unresolved(m)
        BY <3>1
      <4> QED BY <1>1, <1>3, <2>2, <3>1 DEF Unresolved
    <3> QED BY <1>1, <3>1, <3>2, <3>3 DEF IInv, RetryInv, KeptInv, Current
  <2> QED BY <2>1, <2>2
<1>13. SoleInv'
  BY <1>1, <1>12 DEF KeptInv, SoleInv
<1> QED BY <1>5, <1>6, <1>7, <1>8, <1>9, <1>10, <1>11, <1>12, <1>13
        DEF IInv, RetryInv

\* A handler that ends leaves the rest of the record as it was.
LEMMA RetryEndFacts ==
  ASSUME IInv, NEW n \in Retries, NEW p \in {"threw", "returned"}, RetryEnds(n, p)
  PROVE  /\ retries' \in [Retries -> RetryRecords] /\ retries'[n].phase = p
         /\ \A m \in Retries :
              /\ retries'[m].job = retries[m].job
              /\ retries'[m].mount = retries[m].mount
              /\ retries'[m].token = retries[m].token
              /\ retries'[m].reply \in {retries[m].reply, NoJob}
              /\ retries'[m].alone = retries[m].alone
              /\ m # n => retries'[m] = retries[m]
<1> DEFINE a == NoJob
           w == [retries[n] EXCEPT !.phase = p, !.reply = a, !.fresh = FALSE]
<1>1. a \in JobRecords
  BY DEF NoJob, JobRecords
<1>2. retries[n] \in RetryRecords
  BY DEF IInv, TypeOK
<1>3. retries' = [retries EXCEPT ![n] = w]
  BY DEF RetryEnds, IInv, TypeOK
<1> HIDE DEF a
<1>4. /\ w \in RetryRecords /\ w.phase = p /\ w.reply = a
      /\ w.job = retries[n].job /\ w.mount = retries[n].mount
      /\ w.token = retries[n].token /\ w.alone = retries[n].alone
  BY <1>1, <1>2 DEF RetryRecords
<1> HIDE DEF w
<1> QED BY <1>3, <1>4 DEF IInv, TypeOK, a

\* The server's answer leaves it too.
LEMMA RetryAnsweredFacts ==
  ASSUME IInv, NEW n \in Retries, NEW a \in JobRecords, NEW new \in BOOLEAN,
         RetryAnswered(n, a, new)
  PROVE  /\ retries' \in [Retries -> RetryRecords]
         /\ \A m \in Retries :
              /\ retries'[m].phase = retries[m].phase
              /\ retries'[m].job = retries[m].job
              /\ retries'[m].mount = retries[m].mount
              /\ retries'[m].token = retries[m].token
              /\ retries'[m].alone = retries[m].alone
              /\ m # n => retries'[m] = retries[m]
         /\ retries'[n].reply \in {a, NoJob}
<1> DEFINE heard == retries[n].phase = "open"
           b == IF heard THEN a ELSE NoJob
           f == heard /\ new
           w == [retries[n] EXCEPT !.served = TRUE, !.reply = b, !.fresh = f]
<1>1. b \in JobRecords /\ b \in {a, NoJob} /\ f \in BOOLEAN
  BY DEF NoJob, JobRecords
<1>2. retries[n] \in RetryRecords
  BY DEF IInv, TypeOK
<1>3. retries' = [retries EXCEPT ![n] = w]
  BY DEF RetryAnswered, IInv, TypeOK
<1> HIDE DEF b, f
<1>4. /\ w \in RetryRecords /\ w.phase = retries[n].phase /\ w.reply = b
      /\ w.job = retries[n].job /\ w.mount = retries[n].mount
      /\ w.token = retries[n].token /\ w.alone = retries[n].alone
  BY <1>1, <1>2 DEF RetryRecords
<1> HIDE DEF w
<1> QED BY <1>1, <1>3, <1>4 DEF IInv, TypeOK

LEMMA AnsweredKeepsPhase ==
  ASSUME IInv, NEW n \in Retries, NEW a, NEW new, RetryAnswered(n, a, new)
  PROVE  \A m \in Retries : retries'[m].phase = retries[m].phase
<1> DEFINE heard == retries[n].phase = "open"
           b == IF heard THEN a ELSE NoJob
           f == heard /\ new
           w == [retries[n] EXCEPT !.served = TRUE, !.reply = b, !.fresh = f]
<1>1. retries' = [retries EXCEPT ![n] = w]
  BY DEF RetryAnswered, IInv, TypeOK
<1> HIDE DEF b, f
<1>2. w.phase = retries[n].phase
  BY DEF IInv, TypeOK, RetryRecords
<1> HIDE DEF w
<1> QED BY <1>1, <1>2 DEF IInv, TypeOK

\* A call that fails, or is served: neither is an answer yet.
LEMMA RetryThrowsInv ==
  ASSUME IInv, NEW n \in Retries, RetryThrows(n)
  PROVE  IInv'
<1> DEFINE r == retries[n]
<1>1. /\ r.phase = "open" /\ RetryEnds(n, "threw")
      /\ retrying' = (retrying /\ ~(Alive(r.mount) /\ IsCurrent(r.mount, r.job)))
      /\ UNCHANGED <<status, bought, page, mounts, jobIdRef, tokens, retryToken, job,
                     timer, loads, straggler, resuming, resumes, moves>>
  BY DEF RetryThrows, server, tokenVars, shownVars
<1>2. /\ retries' \in [Retries -> RetryRecords] /\ retries'[n].phase = "threw"
      /\ \A m \in Retries :
           /\ retries'[m].job = retries[m].job /\ retries'[m].mount = retries[m].mount
           /\ retries'[m].token = retries[m].token
           /\ retries'[m].reply \in {retries[m].reply, NoJob}
           /\ retries'[m].alone = retries[m].alone
           /\ m # n => retries'[m] = retries[m]
  BY <1>1, RetryEndFacts
<1>3. \A m \in Retries :
        /\ retries'[m].job = retries[m].job /\ retries'[m].mount = retries[m].mount
        /\ retries'[m].token = retries[m].token
        /\ retries'[m].reply \in {retries[m].reply, NoJob}
        /\ retries'[m].alone = retries[m].alone /\ (Sent(m)' <=> Sent(m))
        /\ retries'[m].phase = "open" <=> m # n /\ retries[m].phase = "open"
        /\ retries'[m].phase = "returned" <=> retries[m].phase = "returned"
  BY <1>1, <1>2 DEF Sent
<1>4. Answered' = Answered
  BY <1>3 DEF Answered
<1>5. TypeOK'
  <2>1. retrying' \in BOOLEAN
    BY <1>1
  <2> QED BY <1>1, <1>2, <1>4, <2>1 DEF IInv, TypeOK
<1>6. ExistInv' /\ LoadInv' /\ PollsWhileNonTerminal'
  BY <1>1, <1>3 DEF IInv, ExistInv, LoadInv, PollsWhileNonTerminal
<1>7. ShownInv' /\ MintInv' /\ OrderInv'
  BY <1>1, <1>3 DEF IInv, RetryInv, ShownInv, MintInv, OrderInv, Current
<1>8. KeptInv'
  BY <1>1, <1>3 DEF IInv, RetryInv, KeptInv, Current, OneByOne, Unresolved
<1>10. SoleInv'
  BY <1>1, <1>3 DEF IInv, RetryInv, SoleInv, OneByOne, Unresolved
<1>9. RetryingIsAwaited'
  <2> SUFFICES ASSUME retrying', page' # None
               PROVE  \E m \in OpenRetries(page)' : retries'[m].mount = mounts'
    BY DEF RetryingIsAwaited
  <2>1. retrying /\ page # None /\ ~(Alive(r.mount) /\ IsCurrent(r.mount, r.job))
    BY <1>1
  <2>2. PICK m \in OpenRetries(page) : retries[m].mount = mounts
    BY <2>1 DEF IInv, RetryInv, RetryingIsAwaited
  <2>3. m # n
    BY <2>1, <2>2 DEF Alive, IsCurrent, IInv, RetryInv, ShownInv, OpenRetries
  <2> QED BY <1>1, <1>3, <2>2, <2>3 DEF OpenRetries
<1> QED BY <1>5, <1>6, <1>7, <1>8, <1>9, <1>10 DEF IInv, RetryInv

LEMMA RetryServedInv ==
  ASSUME IInv, NEW n \in Retries, RetryServed(n)
  PROVE  IInv'
<1> DEFINE r == retries[n]
<1>1. /\ r.phase # "none" /\ r \in RetryRecords /\ r.job \in Jobs
      /\ UNCHANGED <<page, mounts, jobIdRef, tokens, retryToken, job, timer, loads,
                     straggler, retrying, resuming, resumes, moves>>
  BY DEF RetryServed, tokenVars, shownVars, IInv, TypeOK, RetryInv, MintInv, Sent
<1>2. /\ retries' \in [Retries -> RetryRecords]
      /\ \A m \in Retries :
           /\ retries'[m].phase = retries[m].phase /\ retries'[m].job = retries[m].job
           /\ retries'[m].mount = retries[m].mount
           /\ retries'[m].token = retries[m].token
           /\ retries'[m].alone = retries[m].alone
           /\ m # n => retries'[m] = retries[m]
      /\ \/ retries'[n].reply = NoJob
         \/ retries'[n].reply.id \in Jobs /\ status'[retries'[n].reply.id] # "absent"
      /\ status' \in [Jobs -> Statuses \cup {"absent"}]
      /\ \A j \in Jobs : status[j] # "absent" => status'[j] # "absent"
      /\ bought' \in SUBSET (Tokens \X Jobs)
      /\ \A t \in Tokens, j \in Jobs :
           <<t, j>> \in bought' => <<t, j>> \in bought \/ status'[j] # "absent"
  <2>1. CASE UNCHANGED server /\ RetryAnswered(n, NoJob, FALSE)
    <3>1. NoJob \in JobRecords
      BY DEF NoJob, JobRecords
    <3> QED BY <2>1, <3>1, RetryAnsweredFacts DEF IInv, TypeOK, server
  <2>2. ASSUME NEW j \in BoughtBy(r.token), UNCHANGED server,
               RetryAnswered(n, [id |-> j, status |-> status[j]], FALSE)
        PROVE  <1>2!:
    <3>1. j \in Jobs /\ <<r.token, j>> \in bought /\ r.token \in Tokens
      BY <1>1 DEF BoughtBy, RetryRecords
    <3>2. status[j] # "absent" /\ [id |-> j, status |-> status[j]] \in JobRecords
      BY <3>1 DEF IInv, TypeOK, ExistInv, JobRecords
    <3>3. /\ retries' \in [Retries -> RetryRecords]
          /\ \A m \in Retries :
               /\ retries'[m].phase = retries[m].phase
               /\ retries'[m].job = retries[m].job
               /\ retries'[m].mount = retries[m].mount
               /\ retries'[m].token = retries[m].token
               /\ retries'[m].alone = retries[m].alone
               /\ m # n => retries'[m] = retries[m]
          /\ retries'[n].reply \in {[id |-> j, status |-> status[j]], NoJob}
      BY <2>2, <3>2, RetryAnsweredFacts
    <3> QED BY <2>2, <3>1, <3>2, <3>3 DEF IInv, TypeOK, server
  <2>3. ASSUME NEW j \in Jobs, NEW s \in {"running", "failed"},
               status' = [status EXCEPT ![j] = s],
               bought' = bought \cup {<<r.token, j>>},
               RetryAnswered(n, [id |-> j, status |-> s], TRUE)
        PROVE  <1>2!:
    <3>1. [id |-> j, status |-> s] \in JobRecords /\ s \in Statuses
      BY DEF JobRecords, Statuses, STOP_POLLING, TERMINAL
    <3>2. /\ retries' \in [Retries -> RetryRecords]
          /\ \A m \in Retries :
               /\ retries'[m].phase = retries[m].phase
               /\ retries'[m].job = retries[m].job
               /\ retries'[m].mount = retries[m].mount
               /\ retries'[m].token = retries[m].token
               /\ retries'[m].alone = retries[m].alone
               /\ m # n => retries'[m] = retries[m]
          /\ retries'[n].reply \in {[id |-> j, status |-> s], NoJob}
      BY <2>3, <3>1, RetryAnsweredFacts
    <3>3. /\ status' \in [Jobs -> Statuses \cup {"absent"}] /\ status'[j] # "absent"
          /\ \A i \in Jobs : status[i] # "absent" => status'[i] # "absent"
      BY <2>3, <3>1 DEF IInv, TypeOK
    <3>4. /\ bought' \in SUBSET (Tokens \X Jobs)
          /\ \A t \in Tokens, i \in Jobs :
               <<t, i>> \in bought' => <<t, i>> \in bought \/ i = j
      BY <1>1, <2>3 DEF IInv, TypeOK, RetryRecords
    <3> QED BY <3>2, <3>3, <3>4
  <2> QED BY <2>1, <2>2, <2>3 DEF RetryServed
<1>3. \A m \in Retries : Sent(m)' <=> Sent(m)
  BY <1>2 DEF Sent
<1>4. Answered' = Answered
  BY <1>2 DEF Answered
<1>5. TypeOK'
  BY <1>1, <1>2, <1>4 DEF IInv, TypeOK
<1>6. ExistInv'
  BY <1>1, <1>2 DEF IInv, TypeOK, ExistInv
<1>7. LoadInv' /\ PollsWhileNonTerminal'
  BY <1>1 DEF IInv, LoadInv, PollsWhileNonTerminal
<1>8. ShownInv' /\ MintInv' /\ OrderInv'
  BY <1>1, <1>2, <1>3 DEF IInv, RetryInv, ShownInv, MintInv, OrderInv, Current
<1>9. KeptInv'
  BY <1>1, <1>2, <1>3 DEF IInv, RetryInv, KeptInv, Current, OneByOne, Unresolved
<1>11. SoleInv'
  BY <1>1, <1>2, <1>3 DEF IInv, RetryInv, SoleInv, OneByOne, Unresolved
<1>10. RetryingIsAwaited'
  BY <1>1, <1>2 DEF IInv, RetryInv, RetryingIsAwaited, OpenRetries
<1> QED BY <1>5, <1>6, <1>7, <1>8, <1>9, <1>10, <1>11 DEF IInv, RetryInv

\* One more answer lets one more token be minted.
LEMMA OneMoreAnswer ==
  ASSUME NEW n \in Retries, n \notin Answered, Answered' = Answered \cup {n}
  PROVE  /\ Cardinality(Answered') = Cardinality(Answered) + 1
         /\ Cardinality(Answered) + 1 \in 1..MaxRetries
<1>1. Cardinality(Answered') = Cardinality(Answered) + 1
  BY CountAnswered, FS_AddElement
<1>2. IsFiniteSet(Retries) /\ Cardinality(Retries) = MaxRetries
  BY FS_Interval, BoundsAssumption DEF Retries
<1>3. Answered \cup {n} \subseteq Retries
  BY DEF Answered
<1>4. Cardinality(Answered') <= MaxRetries
  BY <1>2, <1>3, FS_Subset
<1> QED BY <1>1, <1>4, CountAnswered, BoundsAssumption

\* The answer rotates the token of its job.  No other click of the job can be
\* open then, so that nothing that is open or unanswered loses its token.
LEMMA RetryReturnsInv ==
  ASSUME IInv, NEW n \in Retries, RetryReturns(n)
  PROVE  IInv'
<1> USE BoundsAssumption
<1> DEFINE r == retries[n]
           K == Cardinality(Answered) + 1
           c == IF Alive(r.mount) THEN rotateRetryToken(r.job) ELSE tokens
           j == r.reply.id
<1>1. /\ r.phase = "open" /\ r.reply # NoJob /\ r \in RetryRecords /\ Sent(n)
      /\ RetryEnds(n, "returned")
      /\ UNCHANGED <<status, bought, resumes, moves>>
  BY DEF RetryReturns, server, IInv, TypeOK, Sent
<1>2. j \in Jobs /\ status[j] # "absent" /\ r.job \in Jobs
  BY <1>1 DEF IInv, ExistInv, RetryInv, MintInv
<1>e. /\ retries' \in [Retries -> RetryRecords] /\ retries'[n].phase = "returned"
      /\ \A m \in Retries :
           /\ retries'[m].job = retries[m].job /\ retries'[m].mount = retries[m].mount
           /\ retries'[m].token = retries[m].token
           /\ retries'[m].reply \in {retries[m].reply, NoJob}
           /\ retries'[m].alone = retries[m].alone
           /\ m # n => retries'[m] = retries[m]
  BY <1>1, RetryEndFacts
<1>3. \A m \in Retries :
        /\ retries'[m].job = retries[m].job /\ retries'[m].mount = retries[m].mount
        /\ retries'[m].token = retries[m].token
        /\ retries'[m].reply \in {retries[m].reply, NoJob}
        /\ retries'[m].alone = retries[m].alone /\ (Sent(m)' <=> Sent(m))
        /\ retries'[m].phase = "open" <=> m # n /\ retries[m].phase = "open"
        /\ retries'[m].phase = "returned" <=> m = n \/ retries[m].phase = "returned"
  BY <1>1, <1>e DEF Sent
<1>4. /\ K \in 1..MaxRetries /\ Cardinality(Answered') = K
      /\ tokens \in [Jobs -> 0..K]
  <2>1. n \notin Answered /\ Answered' = Answered \cup {n}
    BY <1>1, <1>3 DEF Answered
  <2> QED BY <2>1, OneMoreAnswer DEF IInv, TypeOK
<1> HIDE DEF K
<1>5. /\ c \in [Jobs -> 0..(K + 1)]
      /\ \A i \in Jobs : c[i] = IF Alive(r.mount) /\ i = r.job THEN tokens[i] + 1
                                                           ELSE tokens[i]
  BY <1>2, <1>4 DEF rotateRetryToken
<1>6. \/ /\ IsCurrent(r.mount, r.job) /\ Show(j, c)
         /\ page = None => mounts < MaxMounts
      \/ /\ tokens' = c
         /\ UNCHANGED <<page, mounts, jobIdRef, job, timer, loads, straggler,
                        resuming>>
         /\ IF Alive(r.mount) /\ IsCurrent(r.mount, r.job)
              THEN retryToken' = Token(mounts, r.job, c[r.job]) /\ retrying' = FALSE
              ELSE UNCHANGED <<retryToken, retrying>>
  BY DEF RetryReturns, shownVars
<1> HIDE DEF c
<1>7. /\ TypeOK' /\ ShownInv' /\ LoadInv' /\ PollsWhileNonTerminal'
      /\ page' # None => status[page'] # "absent"
      /\ RetryingIsAwaited'
      /\ mounts <= mounts' /\ mounts \in Nat /\ mounts' \in Nat
      /\ mounts' = mounts => \A i \in Jobs : c[i] >= 1 => tokens'[i] = c[i]
      /\ mounts' = mounts /\ page' # None => page # None
  <2>1. retries' \in [Retries -> RetryRecords]
    BY <1>e
  <2>2. CASE /\ Show(j, c)
             /\ page = None => mounts < MaxMounts
    <3>1. K \in 0..MaxRetries
      BY <1>4
    <3>2. /\ mounts' \in 1..MaxMounts /\ page' = j
          /\ page # None => mounts' = mounts
          /\ page = None => mounts' = mounts + 1
          /\ jobIdRef' \in [Mounts -> Jobs \cup {None}]
          /\ tokens' \in [Jobs -> 0..(K + 1)] /\ retryToken' \in Tokens
          /\ \A i \in Jobs : c[i] >= 1 => tokens'[i] = c[i]
          /\ UNCHANGED <<job, resuming>> /\ retrying' = FALSE /\ StartPolling
          /\ ShownInv'
      BY <1>2, <1>5, <2>2, <3>1, ShowFacts
    <3>p. loads' \in [Loads -> Nat] /\ timer' = TRUE /\ straggler' = FALSE
      BY <3>2, PollingStarts
    <3>3. /\ mounts' \in 0..MaxMounts /\ page' \in Jobs /\ page' # None
          /\ mounts \in Nat
      BY <1>2, <3>2 DEF IInv, TypeOK, Jobs, None
    <3>4. tokens' \in [Jobs -> 0..(Cardinality(Answered') + 1)]
      BY <1>4, <3>2
    <3>5. TypeOK'
      BY <1>1, <2>1, <3>2, <3>p, <3>3, <3>4 DEF IInv, TypeOK
    <3>6. LoadInv' /\ PollsWhileNonTerminal' /\ RetryingIsAwaited'
      BY <3>2, <3>p, <3>3 DEF LoadInv, PollsWhileNonTerminal, RetryingIsAwaited
    <3> QED BY <1>2, <3>2, <3>3, <3>5, <3>6
  <2>3. CASE /\ tokens' = c
             /\ UNCHANGED <<page, mounts, jobIdRef, job, timer, loads, straggler,
                            resuming>>
             /\ IF Alive(r.mount) /\ IsCurrent(r.mount, r.job)
                  THEN retryToken' = Token(mounts, r.job, c[r.job]) /\ retrying' = FALSE
                  ELSE UNCHANGED <<retryToken, retrying>>
    <3>1. Alive(r.mount) /\ IsCurrent(r.mount, r.job) <=> Alive(r.mount) /\ r.job = page
      BY DEF Alive, IsCurrent, IInv, RetryInv, ShownInv
    <3>2. tokens' \in [Jobs -> 0..(Cardinality(Answered') + 1)]
      BY <1>4, <1>5, <2>3
    <3>3. Token(mounts, r.job, c[r.job]) \in Tokens
      BY <1>2, <1>4, <1>5, TokenType DEF IInv, TypeOK
    <3>4. retryToken' \in Tokens /\ retrying' \in BOOLEAN
      BY <2>3, <3>3 DEF IInv, TypeOK
    <3>5. TypeOK'
      BY <1>1, <2>1, <2>3, <3>2, <3>4 DEF IInv, TypeOK
    <3>6. LoadInv' /\ PollsWhileNonTerminal'
      BY <1>1, <2>3 DEF IInv, LoadInv, PollsWhileNonTerminal
    <3>7. ShownInv'
      <4> SUFFICES ASSUME page # None
                   PROVE  tokens'[page] >= 1 /\ retryToken' = Token(mounts, page, tokens'[page])
        BY <2>3 DEF IInv, RetryInv, ShownInv, Current
      <4>1. page \in Jobs /\ tokens[page] >= 1 /\ retryToken = Token(mounts, page, tokens[page])
        BY DEF IInv, TypeOK, RetryInv, ShownInv, Current
      <4> QED BY <1>4, <1>5, <2>3, <3>1, <4>1
    <3>8. RetryingIsAwaited'
      <4> SUFFICES ASSUME retrying', page' # None
                   PROVE  \E m \in OpenRetries(page)' : retries'[m].mount = mounts'
        BY DEF RetryingIsAwaited
      <4>1. retrying /\ page # None /\ ~(Alive(r.mount) /\ r.job = page)
        BY <2>3, <3>1
      <4>2. PICK m \in OpenRetries(page) : retries[m].mount = mounts
        BY <4>1 DEF IInv, RetryInv, RetryingIsAwaited
      <4>3. m # n
        BY <4>1, <4>2 DEF Alive, OpenRetries
      <4> QED BY <1>3, <2>3, <4>2, <4>3 DEF OpenRetries
    <3> QED BY <1>1, <2>3, <3>5, <3>6, <3>7, <3>8 DEF IInv, TypeOK, ExistInv
  <2> QED BY <1>6, <2>2, <2>3
<1>8. ExistInv'
  BY <1>1, <1>3, <1>7 DEF IInv, ExistInv
<1>9. MintInv'
  BY <1>3, <1>7 DEF IInv, RetryInv, MintInv
<1>10. OrderInv'
  BY <1>3 DEF IInv, RetryInv, OrderInv
<1>11. KeptInv'
  <2> SUFFICES ASSUME page' # None,
                      NEW m \in Retries, Sent(m)', (retries[m].mount = mounts)',
                      OneByOne(retries[m].job)',
                      (retries[m].phase = "open" \/ Unresolved(m))'
               PROVE  (retries[m].token = Current(retries[m].job))'
    BY DEF KeptInv
  <2>1. /\ Sent(m) /\ retries[m].mount = mounts /\ mounts' = mounts
        /\ page # None
    BY <1>3, <1>7 DEF IInv, RetryInv, MintInv
  <2>2. OneByOne(retries[m].job)
    BY <1>3, <2>1 DEF OneByOne
  <2>3. m # n
    BY <1>1, <1>3 DEF Unresolved
  <2>4. retries[m].phase = "open" \/ Unresolved(m)
    BY <1>3 DEF Unresolved
  <2>5. retries[m].token = Current(retries[m].job)
    BY <2>1, <2>2, <2>4 DEF IInv, RetryInv, KeptInv
  <2>6. tokens[retries[m].job] >= 1 /\ retries[m].job \in Jobs
    BY <2>1, <2>5, KeptToken DEF IInv, RetryInv, MintInv
  <2>7. ~(Alive(r.mount) /\ retries[m].job = r.job)
    <3> SUFFICES ASSUME r.mount = mounts, retries[m].job = r.job PROVE FALSE
      BY DEF Alive
    <3>1. r.token = Current(r.job)
      BY <1>1, <2>1, <2>2 DEF IInv, RetryInv, KeptInv
    <3>2. retries[m].phase = "open"
      BY <1>3, <2>5, <3>1 DEF Unresolved
    <3>3. r.alone /\ retries[m].alone
      BY <1>1, <2>1, <2>2 DEF OneByOne
    <3>4. n < m \/ m < n
      BY <2>3 DEF Retries
    <3> QED BY <1>1, <2>1, <3>2, <3>3, <3>4 DEF IInv, RetryInv, OrderInv
  <2>8. tokens'[retries[m].job] = tokens[retries[m].job]
    BY <1>5, <1>7, <2>1, <2>6, <2>7
  <2> QED BY <1>3, <2>1, <2>5, <2>8 DEF Current
<1>12. SoleInv'
  <2> SUFFICES ASSUME NEW m \in Retries, NEW i \in Retries,
                      Sent(m)', Sent(i)', retries'[m].mount = mounts',
                      retries'[i].mount = mounts', Unresolved(m)', Unresolved(i)',
                      retries'[m].job = retries'[i].job, OneByOne(retries[i].job)'
               PROVE  retries'[m].token = retries'[i].token
    BY DEF SoleInv
  <2>1. /\ Sent(m) /\ Sent(i) /\ mounts' = mounts /\ retries[m].mount = mounts
        /\ retries[i].mount = mounts
    BY <1>3, <1>7 DEF IInv, RetryInv, MintInv
  <2>2. Unresolved(m) /\ Unresolved(i) /\ OneByOne(retries[i].job)
    BY <1>3, <2>1 DEF Unresolved, OneByOne
  <2> QED BY <1>3, <2>1, <2>2 DEF IInv, RetryInv, SoleInv
<1> QED BY <1>7, <1>8, <1>9, <1>10, <1>11, <1>12 DEF IInv, RetryInv

LEMMA StepInv == IInv /\ [Next]_vars => IInv'
<1> SUFFICES ASSUME IInv, [Next]_vars PROVE IInv'
  OBVIOUS
<1>1. CASE UNCHANGED vars
  <2>1. RetryInv' /\ Answered' = Answered
    BY <1>1, Framed DEF vars, IInv, Answered
  <2> QED BY <1>1, <2>1 DEF vars, server, shownVars, tokenVars, IInv, TypeOK, ExistInv,
             LoadInv, PollsWhileNonTerminal
<1>2. CASE Next
  BY <1>2, OpenInv, LeaveInv, LoadsInv, ClickInv, RetryThrowsInv, RetryReturnsInv,
     RetryServedInv, ResumesInv, JobEndsInv DEF Next
<1> QED BY <1>1, <1>2

THEOREM Inductive == Spec => []IInv
<1> QED BY InitInv, StepInv, PTL DEF Spec

-----------------------------------------------------------------------------
(* What follows.                                                           *)

(* The page, its handlers and the server keep to their ranges; a job has   *)
(* at most one token more than there were answers.                         *)
THEOREM TypeCorrect == Spec => []TypeOK
<1>1. IInv => TypeOK
  BY DEF IInv
<1> QED BY <1>1, Inductive, PTL

(* No token is ever sent for two jobs (getRetryToken in Jobs.tsx).         *)
THEOREM TokensAreApart == Spec => []TokensStayApart
<1>1. IInv => TokensStayApart
  BY DEF IInv, RetryInv, MintInv, TokensStayApart, Token
<1> QED BY <1>1, Inductive, PTL

(* Where the clicks on a job do not overlap, a click without an answer     *)
(* keeps its token (rotateRetryToken in Jobs.tsx).                         *)
THEOREM UnresolvedKeepsToken == Spec => []UnresolvedKeepsTokenOneByOne
<1>1. IInv => UnresolvedKeepsTokenOneByOne
  BY DEF IInv, RetryInv, KeptInv, UnresolvedKeepsTokenOneByOne, TokenIsKept, Alive,
         Unresolved, Current
<1> QED BY <1>1, Inductive, PTL

(* Then at most one generation bought by regenerating a job is unaccounted *)
(* for, whatever requests and answers are lost.                            *)
THEOREM OnePurchase == Spec => []OneUnansweredPurchase
<1>1. IInv => OneUnansweredPurchase
  <2> SUFFICES ASSUME IInv, NEW j \in Jobs, OneByOne(j)
               PROVE  Cardinality({t \in TokensOf(j) :
                        /\ BoughtBy(t) # {}
                        /\ \E n \in Retries : /\ Sent(n) /\ retries[n].token = t
                                              /\ Unresolved(n)}) <= 1
    BY DEF OneUnansweredPurchase
  <2> DEFINE T == {t \in TokensOf(j) :
                     /\ BoughtBy(t) # {}
                     /\ \E n \in Retries : /\ Sent(n) /\ retries[n].token = t
                                           /\ Unresolved(n)}
  <2>1. ASSUME NEW t \in T, NEW u \in T PROVE t = u
    <3>1. PICK n \in Retries : Sent(n) /\ retries[n].token = t /\ Unresolved(n)
      OBVIOUS
    <3>2. PICK m \in Retries : Sent(m) /\ retries[m].token = u /\ Unresolved(m)
      OBVIOUS
    <3>3. t[1] = mounts /\ t[2] = j /\ u[1] = mounts /\ u[2] = j
      BY DEF TokensOf
    <3>4. /\ retries[n].mount = mounts /\ retries[n].job = j
          /\ retries[m].mount = mounts /\ retries[m].job = j
      BY <3>1, <3>2, <3>3 DEF IInv, RetryInv, MintInv, Token
    <3> QED BY <3>1, <3>2, <3>4 DEF IInv, RetryInv, SoleInv
  <2> HIDE DEF T
  <2>2. ASSUME T = {} PROVE Cardinality(T) <= 1
    BY <2>2, FS_EmptySet
  <2>3. ASSUME NEW t \in T PROVE Cardinality(T) <= 1
    <3>1. T \subseteq {t}
      BY <2>1
    <3>2. IsFiniteSet({t}) /\ Cardinality({t}) = 1
      BY FS_Singleton
    <3>3. Cardinality(T) <= Cardinality({t})
      BY <3>1, <3>2, FS_Subset
    <3> QED BY <3>2, <3>3
  <2>4. Cardinality(T) <= 1
    BY <2>2, <2>3
  <2> QED BY <2>4 DEF T
<1> QED BY <1>1, Inductive, PTL

(* The page never shows "Regenerating..." without a call of its own that   *)
(* is under way (retrying in Jobs.tsx).                                    *)
THEOREM RetryingEnds == Spec => []RetryingIsAwaited
<1>1. IInv => RetryingIsAwaited
  BY DEF IInv, RetryInv
<1> QED BY <1>1, Inductive, PTL

(* The answer to a regenerate whose job is not on the page changes nothing *)
(* the user sees, except that an instance of the page that was left while  *)
(* it showed the job opens the new one (attemptJobId and jobIdRef in       *)
(* Jobs.tsx).                                                              *)
THEOREM LateAnswersAtMostNavigate == Spec => LateAnswersOnlyNavigate
<1> DEFINE A == \A n \in Retries :
       LET r == retries[n] IN
       Ends(n) /\ r.job # page =>
         \/ UNCHANGED <<page, shownVars, retryToken, retrying, resuming>>
         \/ /\ ~Alive(r.mount) /\ jobIdRef[r.mount] = r.job
            /\ page' = r.reply.id
<1>1. IInv /\ [Next]_vars => [A]_vars
  <2> SUFFICES ASSUME IInv, Next, NEW n \in Retries, Ends(n),
                      retries[n].job # page
               PROVE  \/ UNCHANGED <<page, shownVars, retryToken, retrying, resuming>>
                      \/ /\ ~Alive(retries[n].mount)
                         /\ jobIdRef[retries[n].mount] = retries[n].job
                         /\ page' = retries[n].reply.id
    OBVIOUS
  <2>1. ~(Alive(retries[n].mount) /\ IsCurrent(retries[n].mount, retries[n].job))
    BY DEF Alive, IsCurrent, IInv, RetryInv, ShownInv
  <2>2. RetryThrows(n) \/ RetryReturns(n)
    <3>1. ASSUME NEW m \in Retries, m # n, RetryThrows(m) \/ RetryReturns(m) PROVE FALSE
      BY <3>1 DEF RetryThrows, RetryReturns, RetryEnds, Ends, IInv, TypeOK
    <3>2. ASSUME NEW m \in Retries, retry(m) \/ RetryServed(m) PROVE FALSE
      <4>1. CASE retry(m)
        BY <4>1 DEF retry, Ends, IInv, TypeOK
      <4>2. CASE RetryServed(m)
        <5>1. \E a, new : RetryAnswered(m, a, new)
          BY <4>2 DEF RetryServed
        <5>2. retries'[n].phase = retries[n].phase
          BY <5>1, AnsweredKeepsPhase
        <5> QED BY <5>2 DEF Ends
      <4> QED BY <3>2, <4>1, <4>2
    <3>3. ~UNCHANGED retries
      BY DEF Ends
    <3> QED BY <3>1, <3>2, <3>3 DEF Next, Open, Leave, Tick, LoadServed, LoadReturns,
               LoadThrows, resumeTracking, ResumeReturns, ResumeThrows, ResumeServed,
               JobEnds
  <2>3. retrying \in BOOLEAN
    BY DEF IInv, TypeOK
  <2>4. CASE RetryThrows(n)
    <3>1. retrying' = retrying
      BY <2>1, <2>3, <2>4 DEF RetryThrows
    <3> QED BY <2>4, <3>1 DEF RetryThrows, tokenVars
  <2>5. CASE RetryReturns(n)
    <3>1. CASE IsCurrent(retries[n].mount, retries[n].job)
      BY <2>1, <2>5, <3>1 DEF RetryReturns, Show, IsCurrent
    <3>2. CASE ~IsCurrent(retries[n].mount, retries[n].job)
      BY <2>5, <3>2 DEF RetryReturns
    <3> QED BY <3>1, <3>2
  <2> QED BY <2>2, <2>4, <2>5
<1> QED BY <1>1, Inductive, PTL DEF Spec, LateAnswersOnlyNavigate

(* The page polls as long as it shows a job under way, whatever loads      *)
(* overlap, are lost or are answered out of order, unless the answer it    *)
(* shows came after another had stopped the polling (the timer in          *)
(* Jobs.tsx).                                                              *)
THEOREM KeepsPolling == Spec => []PollsWhileNonTerminal
<1>1. IInv => PollsWhileNonTerminal
  BY DEF IInv
<1> QED BY <1>1, Inductive, PTL
=============================================================================
