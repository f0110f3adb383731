----------------------- MODULE GenerationJobsProofs -----------------------
(***************************************************************************)
(* Proofs about GenerationJobs for every number of jobs and tasks, every   *)
(* attempt budget and every number of faults.                              *)
(*                                                                         *)
(* Each action that writes rows has an "effect" lemma, which says field by *)
(* field what it leaves in the row, and a "step" lemma, which shows from   *)
(* it that the action preserves every part of IInv.                        *)
(***************************************************************************)
EXTENDS GenerationJobsInv, TLAPS

-----------------------------------------------------------------------------
(* Facts about the constants and about the rows the actions write.         *)

LEMMA ConstantFacts ==
  /\ Jobs \subseteq Nat /\ Tasks \subseteq Nat
  /\ None \notin Jobs /\ None \notin Tasks
  /\ MaxAttempts \in Nat /\ MaxAttempts >= 1
BY BoundsAssumption, BudgetAssumption DEF Jobs, Tasks, None

LEMMA IndexFacts ==
  ASSUME TypeOK
  PROVE  /\ 1..created \subseteq Jobs /\ 1..started \subseteq Tasks
         /\ created \in Nat /\ started \in Nat
BY BoundsAssumption DEF TypeOK, Jobs, Tasks

\* A conditional write leaves the old row or the new one, in one place.
LEMMA UpdateStatusResult ==
  ASSUME NEW j \in Jobs, NEW new \in Row, row \in [Jobs -> Row],
         UpdateStatus(j, new)
  PROVE  /\ row' \in [Jobs -> Row]
         /\ row'[j] = IF Writable(row[j], new) THEN new ELSE row[j]
         /\ \A i \in Jobs \ {j} : row'[i] = row[i]
BY DEF UpdateStatus, Writable

LEMMA NewRowFields ==
  ASSUME NEW k \in Keys \cup {Minted}
  PROVE  /\ NewRow(k) \in Row
         /\ NewRow(k).status = "queued" /\ NewRow(k).task = None
         /\ NewRow(k).key = k
         /\ ~NewRow(k).error /\ ~NewRow(k).result
BY DEF NewRow, Row, Statuses, Pollable

LEMMA TrackedRowFields ==
  ASSUME NEW j \in Jobs, row \in [Jobs -> Row], NEW t \in Tasks
  PROVE  LET r == TrackedRow(j, t) IN
         /\ r \in Row
         /\ r.status = "queued" /\ r.task = t /\ r.key = row[j].key
         /\ (r.error <=> row[j].error) /\ ~r.result
BY DEF TrackedRow, Row, Statuses, Pollable

LEMMA FailedRowFields ==
  ASSUME NEW j \in Jobs, row \in [Jobs -> Row]
  PROVE  LET r == FailedRow(j) IN
         /\ r \in Row
         /\ r.status = "failed" /\ r.task = row[j].task /\ r.key = row[j].key
         /\ r.error /\ (r.result <=> row[j].result)
BY DEF FailedRow, Row, Statuses, Terminal

LEMMA StalledRowFields ==
  ASSUME NEW j \in Jobs, row \in [Jobs -> Row]
  PROVE  LET r == StalledRow(j) IN
         /\ r \in Row
         /\ r.status = "tracking_exhausted"
         /\ r.task = row[j].task /\ r.key = row[j].key
         /\ r.error /\ (r.result <=> row[j].result)
BY DEF StalledRow, Row, Statuses

LEMMA AnsweredRowFields ==
  ASSUME NEW j \in Jobs, row \in [Jobs -> Row],
         NEW a \in Pollable \cup Verdicts
  PROVE  LET r == AnsweredRow(j, a) IN
         /\ r \in Row
         /\ r.status = a /\ r.task = row[j].task /\ r.key = row[j].key
         /\ a \in Pollable => (r.error <=> row[j].error)
         /\ a \in Pollable => (r.result <=> row[j].result)
         /\ a \in Verdicts => (r.error <=> a # "succeeded")
         /\ a = "succeeded" => r.result
         /\ a # "succeeded" => (r.result <=> row[j].result)
BY DEF AnsweredRow, Row, Statuses, Verdicts, Terminal, Pollable

\* A step of the server or of the provider leaves the process that starts,
\* and what its recovery did, alone.
LEMMA StartKept ==
  ASSUME IInv, UNCHANGED <<starting, doomed, intruders, overrun>>,
         up' => up, up \/ UNCHANGED row, unseen \subseteq unseen',
         \A j \in Unsubmitted' :
           j \in Unsubmitted \/ j \in unseen' \/ ~starting,
         \A j \in overrun : /\ row'[j].status \in Terminal
                            /\ row'[j].task = row[j].task
  PROVE  StartInv' /\ OverrunInv' /\ OverrunsNeedASecondStart'
<1> USE DEF IInv
<1>1. StartInv'
  <2>1. starting' => Unsubmitted' \subseteq doomed' \cup unseen'
    BY DEF StartInv
  <2>2. CASE up
    BY <2>1, <2>2 DEF StartInv
  <2>3. CASE ~up
    <3>1. Unsubmitted' = Unsubmitted
      BY <2>3 DEF Unsubmitted
    <3>2. QED
      BY <2>1, <2>3, <3>1 DEF StartInv
  <2>4. QED
    BY <2>2, <2>3
<1>2. OverrunInv' /\ OverrunsNeedASecondStart'
  BY DEF OverrunInv, OverrunsNeedASecondStart
<1>3. QED
  BY <1>1, <1>2

-----------------------------------------------------------------------------
(* A submission ends.                                                      *)

LEMMA SettleEffect ==
  ASSUME IInv, NEW j \in Jobs, Settle(j) \/ WriteRefused(j)
  PROVE  /\ call[j].awaited /\ row[j].task = None
         /\ call' \in [Jobs -> Call]
         /\ ~call'[j].awaited
         /\ call'[j].phase = call[j].phase /\ call'[j].task = call[j].task
         /\ call[j].phase = "sent" => j \in interrupted'
         /\ \A i \in Jobs \ {j} : call'[i] = call[i]
         /\ row' \in [Jobs -> Row]
         /\ row'[j].key = row[j].key
         /\ \A i \in Jobs \ {j} : row'[i] = row[i]
         /\ \/ row'[j] = row[j] /\ j \in unwritten' /\ j \in interrupted'
            \/ row'[j] = row[j] /\ row[j].status \notin Pollable
                 /\ j \in interrupted
            \/ /\ row'[j].status = "failed" /\ row'[j].task = None
               /\ row'[j].error /\ (row'[j].result <=> row[j].result)
               /\ call[j].task # None => j \in interrupted'
            \/ /\ row'[j].status = "queued" /\ row'[j].task = call[j].task
               /\ row[j].status \in Pollable
               /\ call[j].task \in Tasks
               /\ (row'[j].error <=> row[j].error) /\ ~row'[j].result
         /\ interrupted \subseteq interrupted'
         /\ interrupted' \subseteq interrupted \cup {j}
         /\ unwritten \subseteq unwritten'
         /\ unwritten' \subseteq unwritten \cup {j}
         /\ crashes' \in 0..MaxCrashes /\ dbFaults' \in 0..MaxDbFaults
         /\ UNCHANGED <<created, up, queue, answer, failures, started, task,
                        starting, doomed, intruders, unseen, overrun>>
<1> USE DEF IInv
<1>1. TypeOK /\ row \in [Jobs -> Row] /\ call \in [Jobs -> Call]
  BY DEF TypeOK
<1>2. call[j].awaited /\ row[j].task = None
  BY <1>1, ConstantFacts
     DEF CallsInv, Settle, RecordTask, RecordRejection, ReplyLost, WriteRefused,
         Row
<1>3. Settled(j)
  BY DEF Settle, RecordTask, RecordRejection, ReplyLost, WriteRefused
<1>4. /\ call' \in [Jobs -> Call] /\ ~call'[j].awaited
      /\ call'[j].phase = call[j].phase /\ call'[j].task = call[j].task
      /\ \A i \in Jobs \ {j} : call'[i] = call[i]
  BY <1>1, <1>3 DEF Settled, Call
<1>5. call[j].phase = "sent" => j \in interrupted'
  BY DEF Settle, RecordTask, RecordRejection, ReplyLost, WriteRefused
<1>6. FailedRow(j) \in Row /\ FailedRow(j).status \in Terminal
  BY <1>1, FailedRowFields DEF Terminal
<1>7. CASE RecordTask(j)
  <2>1. call[j].task \in Tasks /\ call[j].phase = "accepted"
    BY <1>1, <1>7 DEF RecordTask, CallsInv, Call
  <2>2. TrackedRow(j, call[j].task) \in Row
    BY <1>1, <2>1, TrackedRowFields
  <2>3. /\ row' \in [Jobs -> Row]
        /\ \A i \in Jobs \ {j} : row'[i] = row[i]
        /\ row'[j] = IF row[j].status \in Pollable
                       THEN TrackedRow(j, call[j].task) ELSE row[j]
    BY <1>1, <1>7, <2>1, <2>2, UpdateStatusResult, TrackedRowFields
       DEF RecordTask, Writable, Terminal
  <2>4. row[j].status \in Pollable \/ j \in interrupted
    BY <1>2 DEF CallsInv
  <2>5. QED
    BY <1>1, <1>2, <1>4, <1>7, <1>5, <2>1, <2>3, <2>4, TrackedRowFields
       DEF RecordTask, provVars, envVars, startVars, faultVars, history, TypeOK
<1>8. CASE RecordRejection(j) \/ ReplyLost(j)
  <2>1. /\ row' \in [Jobs -> Row]
        /\ \A i \in Jobs \ {j} : row'[i] = row[i]
        /\ row'[j] = FailedRow(j)
    BY <1>1, <1>6, <1>8, UpdateStatusResult
       DEF RecordRejection, ReplyLost, Writable
  <2>2. call[j].task # None => j \in interrupted'
    BY <1>1, <1>8 DEF RecordRejection, ReplyLost, CallsInv
  <2>3. QED
    BY <1>1, <1>2, <1>4, <1>8, <1>5, <2>1, <2>2, FailedRowFields
       DEF RecordRejection, ReplyLost, provVars, envVars, startVars, faultVars, history, TypeOK
<1>9. CASE WriteRefused(j)
  <2>1. /\ row' \in [Jobs -> Row]
        /\ \A i \in Jobs \ {j} : row'[i] = row[i]
        /\ row'[j] = FailedRow(j) \/ row'[j] = row[j]
    BY <1>1, <1>6, <1>9, UpdateStatusResult DEF WriteRefused, Writable
  <2>2. dbFaults' \in 0..MaxDbFaults
    BY <1>1, <1>9, BoundsAssumption DEF WriteRefused, TypeOK
  <2>3. QED
    BY <1>1, <1>2, <1>4, <1>9, <1>5, <2>1, <2>2, FailedRowFields
       DEF WriteRefused, provVars, startVars, TypeOK
<1>10. QED
  BY <1>7, <1>8, <1>9 DEF Settle

LEMMA SettleStep ==
  ASSUME IInv, NEW j \in Jobs, Settle(j) \/ WriteRefused(j)
  PROVE  IInv'
<1> USE ConstantFacts DEF IInv, Pollable, Terminal, Verdicts
<1>a. /\ call[j].awaited /\ row[j].task = None
      /\ ~call'[j].awaited
      /\ call'[j].phase = call[j].phase /\ call'[j].task = call[j].task
      /\ call[j].phase = "sent" => j \in interrupted'
      /\ \A i \in Jobs \ {j} : call'[i] = call[i] /\ row'[i] = row[i]
      /\ row'[j].key = row[j].key
  BY SettleEffect
<1>b. /\ interrupted \subseteq interrupted'
      /\ interrupted' \subseteq interrupted \cup {j}
      /\ unwritten \subseteq unwritten'
      /\ unwritten' \subseteq unwritten \cup {j}
      /\ UNCHANGED <<created, up, queue, answer, failures, started, task,
                     starting, doomed, intruders, unseen, overrun>>
      /\ j \notin overrun
  BY SettleEffect DEF OverrunInv
<1>c. \/ row'[j] = row[j] /\ j \in unwritten' /\ j \in interrupted'
      \/ row'[j] = row[j] /\ row[j].status \notin Pollable
           /\ j \in interrupted
      \/ /\ row'[j].status = "failed" /\ row'[j].task = None
         /\ row'[j].error /\ (row'[j].result <=> row[j].result)
         /\ call[j].task # None => j \in interrupted'
      \/ /\ row'[j].status = "queued" /\ row'[j].task = call[j].task
         /\ row[j].status \in Pollable
         /\ call[j].task \in Tasks
         /\ (row'[j].error <=> row[j].error) /\ ~row'[j].result
  BY SettleEffect
<1>1. TypeOK'
  <2>1. interrupted' \in SUBSET Jobs /\ unwritten' \in SUBSET Jobs
    BY <1>b DEF TypeOK
  <2>2. /\ call' \in [Jobs -> Call] /\ row' \in [Jobs -> Row]
        /\ crashes' \in 0..MaxCrashes /\ dbFaults' \in 0..MaxDbFaults
    BY SettleEffect
  <2>3. QED
    BY <1>b, <2>1, <2>2 DEF TypeOK
<1>2. RowsInv' /\ StatusInv'
  BY <1>a, <1>b, <1>c DEF RowsInv, Unused, StatusInv, CallsInv, TypeOK
<1>3. CallsInv'
  BY <1>a, <1>b, <1>c DEF CallsInv, RowsInv, Unused, TypeOK
<1>4. TasksInv'
  BY <1>a, <1>b DEF TasksInv
<1>5. KeysInv'
  <2>1. \A i \in Jobs : row'[i].key = row[i].key
    BY <1>a
  <2>2. QED
    BY <1>b, <2>1, IndexFacts DEF KeysInv
<1>6. ListingStaysValid' /\ PollInv'
  <2>1. \A p \in queue : p[1] \in Jobs \ {j} /\ p[2] \in Tasks
    BY <1>a DEF ListingStaysValid, TypeOK
  <2>2. ListingStaysValid'
    BY <1>a, <1>b, <2>1 DEF ListingStaysValid
  <2>3. PollInv'
    BY <1>b DEF PollInv, IsHead
  <2>4. QED
    BY <2>2, <2>3
<1>7. VerdictIsTheProviders'
  BY <1>a, <1>b, <1>c DEF VerdictIsTheProviders, StatusInv
<1>8. ErrorMatchesStatus'
  BY <1>a, <1>b, <1>c DEF ErrorMatchesStatus, StatusInv
<1>9. BudgetStartsFresh'
  BY <1>a, <1>b DEF BudgetStartsFresh, TypeOK
<1>10. OrphansAreExplained'
  <2>1. SUFFICES ASSUME NEW t \in 1..started
                 PROVE  \/ row'[task[t].job].task = t
                        \/ call'[task[t].job].awaited
                        \/ task[t].job \in interrupted'
    BY <1>b DEF OrphansAreExplained
  <2>2. CASE task[t].job = j
    BY <1>a, <1>b, <1>c, <2>2, IndexFacts DEF OrphansAreExplained, TasksInv
  <2>3. CASE task[t].job # j
    BY <1>a, <1>b, <2>3 DEF OrphansAreExplained, TasksInv
  <2>4. QED
    BY <2>2, <2>3
<1>11. SubmittingIsAwaited'
  BY <1>a, <1>b, <1>c DEF SubmittingIsAwaited, Unsubmitted
<1>12. StartInv' /\ OverrunInv' /\ OverrunsNeedASecondStart'
  <2>1. up /\ Unsubmitted' \subseteq Unsubmitted
    BY <1>a, <1>b, <1>c DEF Unsubmitted, CallsInv
  <2>2. \A i \in overrun : row'[i] = row[i] /\ row[i].status \in Terminal
    BY <1>a, <1>b DEF OverrunInv, TypeOK
  <2>3. QED
    BY <1>b, <2>1, <2>2, StartKept
<1>13. QED
  BY <1>1, <1>2, <1>3, <1>4, <1>5, <1>6, <1>7, <1>8, <1>9, <1>10, <1>11, <1>12
     DEF IInv

-----------------------------------------------------------------------------
(* A request opens a job.                                                  *)

LEMMA SubmitStep ==
  ASSUME IInv, NEW k \in Keys \cup {Minted}, up, KeyIsFree(k), Submit(k)
  PROVE  IInv'
<1> USE ConstantFacts DEF IInv, Pollable, Terminal, Verdicts
<1> DEFINE j == created + 1
<1>1. /\ j \in Jobs /\ created' = j /\ created' \in 0..MaxJobs
      /\ Unused(j) /\ created \in Nat
  BY BoundsAssumption DEF Submit, TypeOK, Jobs, RowsInv
<1>2. /\ row' \in [Jobs -> Row] /\ row'[j] = NewRow(k)
      /\ \A i \in Jobs \ {j} : row'[i] = row[i]
  BY <1>1, NewRowFields DEF Submit, TypeOK
<1>3. /\ call' \in [Jobs -> Call] /\ call'[j] = NewCall
      /\ \A i \in Jobs \ {j} : call'[i] = call[i]
  BY <1>1 DEF Submit, TypeOK, NewCall, Call
<1>4. /\ NewCall.phase = "sent" /\ NewCall.awaited /\ NewCall.task = None
      /\ NewRow(k).status = "queued" /\ NewRow(k).task = None
      /\ NewRow(k).key = k /\ ~NewRow(k).error /\ ~NewRow(k).result
  BY NewRowFields DEF NewCall
<1>5. /\ UNCHANGED <<up, queue, answer, failures, started, task, crashes,
                     dbFaults, intruders, starting, doomed, interrupted,
                     unwritten, overrun>>
      /\ unseen' = IF starting THEN unseen \cup {j} ELSE unseen
  BY DEF Submit, provVars, envVars, startVars, faultVars
<1>6. TypeOK'
  BY <1>1, <1>2, <1>3, <1>5 DEF TypeOK
<1>7. RowsInv' /\ StatusInv'
  BY <1>1, <1>2, <1>3, <1>4, <1>5 DEF RowsInv, Unused, StatusInv
<1>8. CallsInv'
  BY <1>1, <1>2, <1>3, <1>4, <1>5 DEF CallsInv
<1>9. TasksInv'
  <2>1. \A t \in 1..started : task[t].job \in Jobs \ {j}
    BY <1>1, IndexFacts DEF TasksInv, Unused
  <2>2. QED
    BY <1>3, <1>5, <2>1 DEF TasksInv
<1>10. KeysInv'
  <2>1. SUFFICES ASSUME NEW i \in 1..j, NEW h \in 1..j,
                        row'[i].key = row'[h].key, row'[i].key \in Keys
                 PROVE  i = h
    BY <1>1 DEF KeysInv
  <2>2. 1..j = 1..created \cup {j} /\ 1..created \subseteq Jobs \ {j}
    BY <1>1, IndexFacts
  <2>3. CASE i = j /\ h # j
    BY <1>1, <1>2, <1>4, <2>1, <2>2, <2>3, KeysAssumption DEF KeyIsFree
  <2>4. CASE h = j /\ i # j
    BY <1>1, <1>2, <1>4, <2>1, <2>2, <2>4, KeysAssumption DEF KeyIsFree
  <2>5. CASE i # j /\ h # j
    BY <1>2, <2>1, <2>2, <2>5 DEF KeysInv
  <2>6. QED
    BY <2>3, <2>4, <2>5
<1>11. ListingStaysValid' /\ PollInv'
  <2>1. \A p \in queue : p[1] \in Jobs \ {j} /\ p[2] \in Tasks
    BY <1>1 DEF ListingStaysValid, TypeOK, Unused
  <2>2. ListingStaysValid'
    BY <1>2, <1>5, <2>1 DEF ListingStaysValid
  <2>3. PollInv'
    BY <1>5 DEF PollInv, IsHead
  <2>4. QED
    BY <2>2, <2>3
<1>12. VerdictIsTheProviders' /\ ErrorMatchesStatus'
  BY <1>2, <1>4, <1>5 DEF VerdictIsTheProviders, ErrorMatchesStatus
<1>13. BudgetStartsFresh'
  <2>1. ~(failures[j] > 0)
    BY <1>1 DEF BudgetStartsFresh, Unused
  <2>2. QED
    BY <1>2, <1>5, <2>1 DEF BudgetStartsFresh
<1>14. OrphansAreExplained'
  <2>1. \A t \in 1..started : task[t].job \in Jobs \ {j}
    BY <1>1, IndexFacts DEF TasksInv, Unused
  <2>2. QED
    BY <1>2, <1>3, <1>5, <2>1 DEF OrphansAreExplained
<1>15. SubmittingIsAwaited'
  BY <1>2, <1>3, <1>4, <1>5 DEF SubmittingIsAwaited, Unsubmitted
<1>16. StartInv' /\ OverrunInv' /\ OverrunsNeedASecondStart'
  <2>1. Unsubmitted' \subseteq Unsubmitted \cup {j}
    BY <1>1, <1>2 DEF Unsubmitted
  <2>2. \A i \in overrun : row'[i] = row[i] /\ row[i].status \in Terminal
    BY <1>1, <1>2 DEF OverrunInv, TypeOK, Unused
  <2>3. QED
    BY <1>5, <2>1, <2>2, StartKept
<1>17. QED
  BY <1>6, <1>7, <1>8, <1>9, <1>10, <1>11, <1>12, <1>13, <1>14, <1>15, <1>16
     DEF IInv

-----------------------------------------------------------------------------
(* A stalled job is resumed.                                               *)

LEMMA ResumeStep ==
  ASSUME IInv, NEW j \in Jobs, Resume(j)
  PROVE  IInv'
<1> USE ConstantFacts DEF IInv, Pollable, Terminal, Verdicts
<1>1. /\ row[j].status = "tracking_exhausted" /\ row[j].task # None
      /\ row' \in [Jobs -> Row]
      /\ row'[j].status = "running" /\ row'[j].task = row[j].task
      /\ row'[j].key = row[j].key
      /\ ~row'[j].error /\ (row'[j].result <=> row[j].result)
      /\ \A i \in Jobs \ {j} : row'[i] = row[i]
  BY DEF Resume, TypeOK, Row, Statuses
<1>2. UNCHANGED <<created, up, call, queue, answer, failures, started, task,
                  crashes, dbFaults, intruders, starting, doomed, interrupted, unwritten,
                     unseen, overrun>>
  BY DEF Resume, procVars, provVars, envVars, startVars, faultVars, history
<1>2a. j \notin overrun /\ up
  BY <1>1 DEF OverrunInv, Resume
<1>3. TypeOK'
  BY <1>1, <1>2 DEF TypeOK
<1>4. RowsInv' /\ StatusInv'
  BY <1>1, <1>2 DEF RowsInv, Unused, StatusInv
<1>5. CallsInv' /\ TasksInv'
  <2>1. \A i \in Jobs :
          /\ row'[i].task = row[i].task
          /\ row[i].status \in Pollable => row'[i].status \in Pollable
    BY <1>1
  <2>2. CallsInv'
    BY <1>2, <2>1 DEF CallsInv
  <2>3. TasksInv'
    BY <1>2 DEF TasksInv
  <2>4. QED
    BY <2>2, <2>3
<1>6. KeysInv'
  <2>1. \A i \in Jobs : row'[i].key = row[i].key
    BY <1>1
  <2>2. QED
    BY <1>2, <2>1, IndexFacts DEF KeysInv
<1>7. ListingStaysValid'
  <2>1. \A i \in Jobs :
          /\ row'[i].task = row[i].task
          /\ row[i].status \in Pollable => row'[i].status \in Pollable
    BY <1>1
  <2>2. \A p \in queue : p[1] \in Jobs
    BY DEF TypeOK
  <2>3. QED
    BY <1>2, <2>1, <2>2 DEF ListingStaysValid
<1>8. PollInv'
  BY <1>2 DEF PollInv, IsHead
<1>9. VerdictIsTheProviders' /\ ErrorMatchesStatus' /\ BudgetStartsFresh'
  BY <1>1, <1>2, <1>2a DEF VerdictIsTheProviders, ErrorMatchesStatus,
                           BudgetStartsFresh
<1>10. OrphansAreExplained'
  <2>1. \A i \in Jobs : row'[i].task = row[i].task
    BY <1>1
  <2>2. QED
    BY <1>2, <2>1 DEF OrphansAreExplained, TasksInv
<1>11. SubmittingIsAwaited'
  BY <1>1, <1>2 DEF SubmittingIsAwaited, Unsubmitted
<1>12. StartInv' /\ OverrunInv' /\ OverrunsNeedASecondStart'
  <2>1. Unsubmitted' \subseteq Unsubmitted
    BY <1>1 DEF Unsubmitted
  <2>2. \A i \in overrun : row'[i] = row[i] /\ row[i].status \in Terminal
    BY <1>1, <1>2a DEF OverrunInv, TypeOK
  <2>3. QED
    BY <1>2, <1>2a, <2>1, <2>2, StartKept
<1>13. QED
  BY <1>3, <1>4, <1>5, <1>6, <1>7, <1>8, <1>9, <1>10, <1>11, <1>12 DEF IInv

-----------------------------------------------------------------------------
(* The poller.                                                             *)

LEMMA TickStartStep ==
  ASSUME IInv, TickStart
  PROVE  IInv'
<1> USE ConstantFacts DEF IInv, Pollable, Terminal, Verdicts
<1>1. /\ UNCHANGED <<created, row, up, call, answer, failures, started, task,
                     crashes, dbFaults, intruders, starting, doomed, interrupted, unwritten,
                     unseen, overrun>>
      /\ up /\ answer = "none"
  BY DEF TickStart, provVars, envVars, startVars, faultVars, history, PollInv
<1>2. \A p \in queue' : /\ p \in Jobs \X Tasks
                        /\ row[p[1]].status \in Pollable
                        /\ row[p[1]].task = p[2]
  BY DEF TickStart, Listed, TypeOK, Row
<1>3. TypeOK'
  BY <1>1, <1>2 DEF TypeOK
<1>4. ListingStaysValid' /\ PollInv'
  BY <1>1, <1>2 DEF ListingStaysValid, PollInv
<1>5. RowsInv' /\ CallsInv' /\ TasksInv' /\ KeysInv' /\ StatusInv'
  BY <1>1 DEF RowsInv, Unused, CallsInv, TasksInv, KeysInv, StatusInv
<1>6. /\ VerdictIsTheProviders' /\ ErrorMatchesStatus' /\ BudgetStartsFresh'
      /\ OrphansAreExplained' /\ SubmittingIsAwaited'
  BY <1>1 DEF VerdictIsTheProviders, ErrorMatchesStatus, BudgetStartsFresh,
              OrphansAreExplained, SubmittingIsAwaited, Unsubmitted
<1>7. StartInv' /\ OverrunInv' /\ OverrunsNeedASecondStart'
  BY <1>1, StartKept DEF OverrunInv, Unsubmitted
<1>8. QED
  BY <1>3, <1>4, <1>5, <1>6, <1>7 DEF IInv

\* The provider's tasks may only gain verdicts.
LEMMA QueryAnsweredStep ==
  ASSUME IInv, NEW j \in Jobs, NEW t \in Tasks, NEW a \in Answers,
         QueryAnswered(j, t, a)
  PROVE  IInv'
<1> USE ConstantFacts DEF IInv, Pollable, Terminal, Verdicts
<1>1. /\ UNCHANGED <<created, row, up, call, queue, failures, started,
                     crashes, dbFaults, intruders, starting, doomed, interrupted, unwritten,
                     unseen, overrun>>
      /\ up /\ IsHead(j, t) /\ answer' = a /\ queue # {}
  BY DEF QueryAnswered, envVars, startVars, faultVars, history, IsHead
<1>2. /\ task' \in [Tasks -> Task]
      /\ \A u \in Tasks : /\ task'[u].job = task[u].job
                          /\ task[u].told \subseteq task'[u].told
      /\ a \in Verdicts => a \in task'[t].told
  <2>1. CASE a \in Verdicts
    BY <2>1 DEF QueryAnswered, TypeOK, Task
  <2>2. CASE a \notin Verdicts
    BY <2>2 DEF QueryAnswered, TypeOK
  <2>3. QED
    BY <2>1, <2>2
<1>3. TypeOK'
  BY <1>1, <1>2 DEF TypeOK
<1>4. \A p \in queue : /\ p[1] \in Jobs /\ p[2] \in Tasks
                       /\ row[p[1]].task = p[2]
  BY DEF ListingStaysValid, TypeOK
<1>5. ListingStaysValid'
  BY <1>1 DEF ListingStaysValid
<1>6. PollInv'
  <2>1. ASSUME NEW p \in queue, IsHead(p[1], p[2])
        PROVE  p[2] = t
    BY <1>1, <1>4, <2>1 DEF IsHead
  <2>2. QED
    BY <1>1, <1>2, <2>1 DEF PollInv, IsHead
<1>7. RowsInv' /\ KeysInv' /\ StatusInv'
  BY <1>1 DEF RowsInv, Unused, KeysInv, StatusInv
<1>8. CallsInv'
  BY <1>1, <1>2 DEF CallsInv, TypeOK, Call
<1>9. TasksInv' /\ OrphansAreExplained'
  BY <1>1, <1>2, IndexFacts DEF TasksInv, OrphansAreExplained
<1>10. VerdictIsTheProviders'
  BY <1>1, <1>2 DEF VerdictIsTheProviders, TypeOK, Row
<1>11. ErrorMatchesStatus' /\ BudgetStartsFresh' /\ SubmittingIsAwaited'
  BY <1>1 DEF ErrorMatchesStatus, BudgetStartsFresh, SubmittingIsAwaited,
              Unsubmitted
<1>12. StartInv' /\ OverrunInv' /\ OverrunsNeedASecondStart'
  BY <1>1, StartKept DEF OverrunInv, Unsubmitted
<1>13. QED
  BY <1>3, <1>5, <1>6, <1>7, <1>8, <1>9, <1>10, <1>11, <1>12 DEF IInv

PollStep(j, t) ==
  ApplyAnswer(j, t) \/ CountFailure(j, t) \/ PollWriteRefused(j, t)

\* What polling one row leaves: the row as it was, waiting, stalled, or closed
\* with the verdict the query returned.
LEMMA PollEffect ==
  ASSUME IInv, NEW j \in Jobs, NEW t \in Tasks, PollStep(j, t)
  PROVE  /\ up /\ IsHead(j, t) /\ <<j, t>> \in queue
         /\ row[j].status \in Pollable \/ j \in overrun
         /\ row[j].task = t
         /\ row' \in [Jobs -> Row]
         /\ row'[j].key = row[j].key /\ row'[j].task = row[j].task
         /\ \A i \in Jobs \ {j} : row'[i] = row[i]
         /\ failures' \in [Jobs -> 0..(MaxAttempts - 1)]
         /\ \A i \in Jobs \ {j} : failures'[i] = failures[i]
         /\ queue' \subseteq queue \ {<<j, t>>} /\ answer' = "none"
         /\ \/ row'[j] = row[j]
            \/ /\ row[j].status \in Pollable /\ row'[j].status \in Pollable
               /\ (row'[j].error <=> row[j].error)
               /\ (row'[j].result <=> row[j].result)
            \/ /\ row[j].status \in Pollable
               /\ row'[j].status = "tracking_exhausted" /\ row'[j].error
               /\ (row'[j].result <=> row[j].result)
               /\ failures'[j] = 0
            \/ /\ row'[j].status = answer /\ answer \in Verdicts
               /\ (row'[j].error <=> answer # "succeeded")
               /\ (row'[j].result <=> answer = "succeeded" \/ row[j].result)
               /\ failures'[j] = 0
         /\ dbFaults' \in 0..MaxDbFaults
         /\ UNCHANGED <<created, up, call, started, task, starting, doomed,
                        crashes, intruders, interrupted, unwritten, unseen,
                        overrun>>
<1> USE ConstantFacts DEF IInv
<1>1. /\ TypeOK /\ row \in [Jobs -> Row]
      /\ failures \in [Jobs -> 0..(MaxAttempts - 1)]
  BY DEF TypeOK
<1>2. up /\ IsHead(j, t) /\ <<j, t>> \in queue
  BY DEF PollStep, ApplyAnswer, CountFailure, PollWriteRefused, IsHead
<1>3. (row[j].status \in Pollable \/ j \in overrun) /\ row[j].task = t
  BY <1>2 DEF ListingStaysValid
<1>4. /\ UNCHANGED <<created, up, call, started, task, starting, doomed,
                     crashes, intruders, interrupted, unwritten, unseen,
                     overrun>>
      /\ dbFaults' \in 0..MaxDbFaults
  BY <1>1, BoundsAssumption
     DEF PollStep, ApplyAnswer, CountFailure, PollWriteRefused, provVars,
         envVars, startVars, faultVars, history, TypeOK
<1>5. queue' \subseteq queue \ {<<j, t>>} /\ answer' = "none"
  BY DEF PollStep, ApplyAnswer, CountFailure, PollWriteRefused, PolledOne
<1>6. ASSUME NEW n \in Nat \ {0}, PollFailed(j, n)
      PROVE  /\ row' \in [Jobs -> Row]
             /\ \A i \in Jobs \ {j} : row'[i] = row[i]
             /\ failures' \in [Jobs -> 0..(MaxAttempts - 1)]
             /\ \A i \in Jobs \ {j} : failures'[i] = failures[i]
             /\ \/ row'[j] = row[j]
                \/ /\ row[j].status \in Pollable
                   /\ row'[j] = StalledRow(j) /\ failures'[j] = 0
  <2>1. CASE Exhausts(n)
    <3>1. /\ UpdateStatus(j, StalledRow(j))
          /\ failures' = [failures EXCEPT ![j] = 0]
      BY <1>6, <2>1 DEF PollFailed
    <3>2. /\ StalledRow(j) \in Row
          /\ Writable(row[j], StalledRow(j)) => row[j].status \in Pollable
      BY <1>1, StalledRowFields DEF Writable, Terminal
    <3>3. QED
      BY <1>1, <3>1, <3>2, UpdateStatusResult
  <2>2. CASE ~Exhausts(n)
    <3>1. n \in 0..(MaxAttempts - 1)
      BY <1>6, <2>2 DEF Exhausts
    <3>2. row' = row /\ failures' = [failures EXCEPT ![j] = n]
      BY <1>6, <2>2 DEF PollFailed
    <3>3. /\ failures' \in [Jobs -> 0..(MaxAttempts - 1)]
          /\ \A i \in Jobs \ {j} : failures'[i] = failures[i]
      BY <1>1, <3>1, <3>2
    <3>4. row' \in [Jobs -> Row] /\ row'[j] = row[j]
      BY <1>1, <3>2
    <3>5. \A i \in Jobs \ {j} : row'[i] = row[i]
      BY <3>2
    <3>6. QED
      BY <3>3, <3>4, <3>5
  <2>3. QED
    BY <2>1, <2>2
<1>7. CASE ApplyAnswer(j, t)
  <2>1. answer \in Pollable \cup Verdicts
    BY <1>7 DEF ApplyAnswer
  <2>2. /\ AnsweredRow(j, answer) \in Row
        /\ Writable(row[j], AnsweredRow(j, answer))
             <=> answer \in Verdicts \/ row[j].status \in Pollable
    BY <1>1, <2>1, AnsweredRowFields DEF Writable, Verdicts
  <2>3. /\ row' \in [Jobs -> Row]
        /\ row'[j] = IF answer \in Verdicts \/ row[j].status \in Pollable
                       THEN AnsweredRow(j, answer) ELSE row[j]
        /\ \A i \in Jobs \ {j} : row'[i] = row[i]
    BY <1>1, <1>7, <2>2, UpdateStatusResult DEF ApplyAnswer
  <2>4. /\ failures' \in [Jobs -> 0..(MaxAttempts - 1)] /\ failures'[j] = 0
        /\ \A i \in Jobs \ {j} : failures'[i] = failures[i]
    BY <1>1, <1>7 DEF ApplyAnswer
  <2>5. QED
    BY <1>1, <1>2, <1>3, <1>4, <1>5, <2>1, <2>3, <2>4, AnsweredRowFields
<1>8. CASE \E n \in Nat \ {0} : PollFailed(j, n)
  BY <1>1, <1>2, <1>3, <1>4, <1>5, <1>6, <1>8, StalledRowFields
<1>9. CASE row' = row /\ failures' = [failures EXCEPT ![j] = 0]
  BY <1>1, <1>2, <1>3, <1>4, <1>5, <1>9
<1>10. failures[j] + 1 \in Nat \ {0} /\ 1 \in Nat \ {0}
  BY <1>1
<1>11. QED
  BY <1>7, <1>8, <1>9, <1>10
     DEF PollStep, CountFailure, PollWriteRefused

LEMMA PollStepStep ==
  ASSUME IInv, NEW j \in Jobs, NEW t \in Tasks, PollStep(j, t)
  PROVE  IInv'
<1> USE ConstantFacts DEF IInv, Pollable, Terminal, Verdicts
<1>a. /\ up /\ IsHead(j, t) /\ <<j, t>> \in queue
      /\ row[j].status \in Pollable \/ j \in overrun
      /\ row[j].task = t
      /\ row' \in [Jobs -> Row]
      /\ row'[j].key = row[j].key /\ row'[j].task = row[j].task
      /\ \A i \in Jobs \ {j} : row'[i] = row[i]
  BY PollEffect
<1>b. /\ failures' \in [Jobs -> 0..(MaxAttempts - 1)]
      /\ \A i \in Jobs \ {j} : failures'[i] = failures[i]
  BY PollEffect
<1>c. queue' \subseteq queue \ {<<j, t>>} /\ answer' = "none"
  BY PollEffect
<1>d. \/ row'[j] = row[j]
      \/ /\ row[j].status \in Pollable /\ row'[j].status \in Pollable
         /\ (row'[j].error <=> row[j].error)
         /\ (row'[j].result <=> row[j].result)
      \/ /\ row[j].status \in Pollable
         /\ row'[j].status = "tracking_exhausted" /\ row'[j].error
         /\ (row'[j].result <=> row[j].result)
         /\ failures'[j] = 0
      \/ /\ row'[j].status = answer /\ answer \in Verdicts
         /\ (row'[j].error <=> answer # "succeeded")
         /\ (row'[j].result <=> answer = "succeeded" \/ row[j].result)
         /\ failures'[j] = 0
  BY PollEffect
<1>e. UNCHANGED <<created, up, call, started, task, starting, doomed, crashes,
                  intruders, interrupted, unwritten, unseen, overrun>>
  BY PollEffect
<1>1. TypeOK'
  <2>1. queue' \in SUBSET (Jobs \X Tasks) /\ answer' \in Answers \cup {"none"}
    BY <1>c DEF TypeOK
  <2>2. dbFaults' \in 0..MaxDbFaults
    BY PollEffect
  <2>3. QED
    BY <1>a, <1>b, <1>e, <2>1, <2>2 DEF TypeOK
<1>2. RowsInv' /\ StatusInv'
  BY <1>a, <1>d, <1>e DEF RowsInv, Unused, StatusInv, TypeOK
<1>3. CallsInv'
  BY <1>a, <1>d, <1>e DEF CallsInv
<1>4. TasksInv'
  BY <1>e DEF TasksInv
<1>5. KeysInv'
  <2>1. \A i \in Jobs : row'[i].key = row[i].key
    BY <1>a
  <2>2. QED
    BY <1>e, <2>1, IndexFacts DEF KeysInv
<1>6. ListingStaysValid' /\ PollInv'
  <2>1. \A p \in queue : p = <<p[1], p[2]>> /\ p[1] \in Jobs /\ p[2] \in Tasks
    BY DEF TypeOK
  <2>2. \A p \in queue' : p[1] \in Jobs \ {j}
    BY <1>a, <1>c, <2>1 DEF ListingStaysValid
  <2>3. ListingStaysValid'
    BY <1>a, <1>c, <1>e, <2>2 DEF ListingStaysValid
  <2>4. PollInv'
    BY <1>a, <1>c, <1>e DEF PollInv
  <2>5. QED
    BY <2>3, <2>4
<1>7. VerdictIsTheProviders'
  <2>1. answer \in Verdicts => answer \in task[t].told
    BY <1>a DEF PollInv
  <2>2. QED
    BY <1>a, <1>d, <1>e, <2>1 DEF VerdictIsTheProviders
<1>8. ErrorMatchesStatus'
  BY <1>a, <1>d, <1>e DEF ErrorMatchesStatus
<1>9. BudgetStartsFresh'
  <2>1. row[j].task # None
    BY <1>a
  <2>2. QED
    BY <1>a, <1>b, <1>d, <1>e, <2>1 DEF BudgetStartsFresh, OverrunInv
<1>10. OrphansAreExplained'
  <2>1. \A i \in Jobs : row'[i].task = row[i].task
    BY <1>a
  <2>2. QED
    BY <1>e, <2>1 DEF OrphansAreExplained, TasksInv
<1>11. SubmittingIsAwaited'
  BY <1>a, <1>d, <1>e DEF SubmittingIsAwaited, Unsubmitted
<1>12. StartInv' /\ OverrunInv' /\ OverrunsNeedASecondStart'
  <2>1. Unsubmitted' \subseteq Unsubmitted
    BY <1>a DEF Unsubmitted
  <2>2. \A i \in overrun : /\ row'[i].status \in Terminal
                           /\ row'[i].task = row[i].task
    BY <1>a, <1>d DEF OverrunInv, TypeOK
  <2>3. QED
    BY <1>a, <1>e, <2>1, <2>2, StartKept
<1>13. QED
  BY <1>1, <1>2, <1>3, <1>4, <1>5, <1>6, <1>7, <1>8, <1>9, <1>10, <1>11, <1>12
     DEF IInv

-----------------------------------------------------------------------------
(* The process stops and starts.                                           *)

LEMMA CrashStep ==
  ASSUME IInv, Crash
  PROVE  IInv'
<1> USE ConstantFacts DEF IInv, Pollable, Terminal, Verdicts
<1>1. /\ UNCHANGED <<created, row, started, task, dbFaults, intruders,
                     starting, doomed, unwritten, unseen, overrun>>
      /\ crashes' \in 0..MaxCrashes
      /\ ~up' /\ queue' = {} /\ answer' = "none"
      /\ failures' = [j \in Jobs |-> 0]
      /\ interrupted' = interrupted \cup Awaited
  BY BoundsAssumption DEF Crash, provVars, startVars, TypeOK
<1>2. /\ call' \in [Jobs -> Call]
      /\ \A j \in Jobs : /\ ~call'[j].awaited
                         /\ call'[j].phase = call[j].phase
                         /\ call'[j].task = call[j].task
  BY DEF Crash, TypeOK, Call
<1>3. TypeOK'
  <2>1. failures' \in [Jobs -> 0..(MaxAttempts - 1)]
    BY <1>1
  <2>2. interrupted' \in SUBSET Jobs /\ up' \in BOOLEAN
    BY <1>1 DEF Awaited, TypeOK, Crash
  <2>3. QED
    BY <1>1, <1>2, <2>1, <2>2 DEF TypeOK
<1>4. RowsInv' /\ StatusInv' /\ KeysInv'
  BY <1>1, <1>2 DEF RowsInv, Unused, StatusInv, KeysInv
<1>5. CallsInv' /\ TasksInv'
  <2>1. \A j \in Jobs : call[j].awaited => j \in interrupted'
    BY <1>1 DEF Awaited
  <2>2. CallsInv'
    BY <1>1, <1>2, <2>1 DEF CallsInv
  <2>3. TasksInv'
    BY <1>1, <1>2 DEF TasksInv
  <2>4. QED
    BY <2>2, <2>3
<1>6. ListingStaysValid' /\ PollInv'
  BY <1>1 DEF ListingStaysValid, PollInv
<1>7. VerdictIsTheProviders' /\ ErrorMatchesStatus'
  BY <1>1 DEF VerdictIsTheProviders, ErrorMatchesStatus
<1>8. BudgetStartsFresh' /\ SubmittingIsAwaited'
  BY <1>1 DEF BudgetStartsFresh, SubmittingIsAwaited
<1>9. OrphansAreExplained'
  BY <1>1, <1>2 DEF OrphansAreExplained, TasksInv, Awaited
<1>10. StartInv' /\ OverrunInv' /\ OverrunsNeedASecondStart'
  BY <1>1, StartKept DEF OverrunInv, Unsubmitted
<1>11. QED
  BY <1>3, <1>4, <1>5, <1>6, <1>7, <1>8, <1>9, <1>10 DEF IInv

LEMMA StartStep ==
  ASSUME IInv, Start
  PROVE  IInv'
<1> USE ConstantFacts DEF IInv
<1>1. /\ UNCHANGED <<created, row, up, call, queue, answer, failures, started,
                     task, crashes, dbFaults, interrupted, unwritten, unseen,
                     overrun>>
      /\ starting' = TRUE /\ doomed' = Unsubmitted
      /\ ~starting
  BY DEF Start, Starts, procVars, provVars, history
<1>2. intruders' \in 0..MaxIntruders /\ intruders \in Nat
  BY BoundsAssumption DEF Start, Starts, TypeOK
<1>3. (intruders' = intruders /\ ~up) \/ (intruders' = intruders + 1)
  BY DEF Start, Starts
<1>4. Unsubmitted' = Unsubmitted
  BY <1>1 DEF Unsubmitted
<1>5. TypeOK'
  BY <1>1, <1>2 DEF TypeOK, Unsubmitted
<1>6. RowsInv' /\ CallsInv' /\ TasksInv' /\ KeysInv' /\ StatusInv'
  BY <1>1 DEF RowsInv, Unused, Unsubmitted, Pollable, CallsInv, TasksInv,
              KeysInv, StatusInv
<1>7. StartInv'
  BY <1>1, <1>2, <1>3, <1>4 DEF StartInv
<1>8. OverrunInv' /\ OverrunsNeedASecondStart'
  BY <1>1, <1>2, <1>3 DEF OverrunInv, OverrunsNeedASecondStart
<1>9. ListingStaysValid' /\ PollInv' /\ VerdictIsTheProviders'
  BY <1>1 DEF ListingStaysValid, PollInv, IsHead, VerdictIsTheProviders
<1>10. /\ ErrorMatchesStatus' /\ BudgetStartsFresh' /\ OrphansAreExplained'
       /\ SubmittingIsAwaited'
  BY <1>1, <1>4 DEF ErrorMatchesStatus, BudgetStartsFresh,
                    OrphansAreExplained, SubmittingIsAwaited
<1>11. QED
  BY <1>5, <1>6, <1>7, <1>8, <1>9, <1>10 DEF IInv

\* The statement that recovers one row, whatever the row has become.
LEMMA RecoverEffect ==
  ASSUME IInv, NEW j \in Jobs, RecoverRow(j)
  PROVE  /\ row' \in [Jobs -> Row]
         /\ row'[j].status = "failed" /\ row'[j].task = row[j].task
         /\ row'[j].key = row[j].key
         /\ row'[j].error /\ (row'[j].result <=> row[j].result)
         /\ \A i \in Jobs \ {j} : row'[i] = row[i]
         /\ j \in doomed /\ doomed' = doomed \ {j}
         /\ starting /\ j \in 1..created
         /\ row[j].status # "absent"
         /\ interrupted \subseteq interrupted' /\ interrupted' \in SUBSET Jobs
         /\ j \in Unsubmitted => j \in interrupted'
         /\ row[j].task = None => overrun' = overrun
         /\ row[j].task # None => overrun' = overrun \cup {j}
         /\ row[j].task # None => intruders > 0
         /\ UNCHANGED <<created, up, call, queue, answer, failures, started,
                        task, starting, crashes, dbFaults, intruders,
                        unwritten, unseen>>
<1> USE DEF IInv
<1>1. row \in [Jobs -> Row] /\ interrupted \in SUBSET Jobs /\ intruders \in Nat
  BY BoundsAssumption DEF TypeOK
<1>2. row' = [row EXCEPT ![j] = FailedRow(j)]
  BY DEF RecoverRow
<1>3. FailedRow(j) \in Row
  BY <1>1, FailedRowFields
<1>4. /\ row' \in [Jobs -> Row]
      /\ row'[j] = FailedRow(j) /\ \A i \in Jobs \ {j} : row'[i] = row[i]
  BY <1>1, <1>2, <1>3
<1>5. /\ row'[j].status = "failed" /\ row'[j].task = row[j].task
      /\ row'[j].key = row[j].key
      /\ row'[j].error /\ (row'[j].result <=> row[j].result)
  BY <1>1, <1>4, FailedRowFields
<1>6. /\ j \in doomed /\ doomed' = doomed \ {j}
      /\ UNCHANGED <<created, up, call, queue, answer, failures, started, task,
                     starting, crashes, dbFaults, intruders, unwritten, unseen>>
  BY DEF RecoverRow, procVars, provVars, faultVars
<1>7. starting
  BY <1>6 DEF StartInv
<1>8. j \in 1..created /\ row[j].status # "absent"
  BY <1>6, IndexFacts, BoundsAssumption DEF RowsInv, Unused, Jobs
<1>9. row[j].task # None => intruders > 0
  BY <1>1, <1>6 DEF StartInv, Unsubmitted
<1>10. /\ interrupted \subseteq interrupted' /\ interrupted' \in SUBSET Jobs
       /\ j \in Unsubmitted => j \in interrupted'
  BY <1>1 DEF RecoverRow
<1>11. /\ row[j].task = None => overrun' = overrun
       /\ row[j].task # None => overrun' = overrun \cup {j}
  BY DEF RecoverRow
<1>12. QED
  BY <1>4, <1>5, <1>6, <1>7, <1>8, <1>9, <1>10, <1>11

LEMMA RecoverStep ==
  ASSUME IInv, NEW j \in Jobs, RecoverRow(j)
  PROVE  IInv'
<1> USE ConstantFacts DEF IInv, Pollable, Terminal, Verdicts
<1>1. /\ row' \in [Jobs -> Row]
      /\ row'[j].status = "failed" /\ row'[j].task = row[j].task
      /\ row'[j].key = row[j].key
      /\ row'[j].error /\ (row'[j].result <=> row[j].result)
      /\ \A i \in Jobs \ {j} : row'[i] = row[i]
  BY RecoverEffect
<1>2. /\ j \in doomed /\ doomed' = doomed \ {j}
      /\ starting /\ j \in 1..created
      /\ row[j].status # "absent"
      /\ interrupted \subseteq interrupted' /\ interrupted' \in SUBSET Jobs
      /\ j \in Unsubmitted => j \in interrupted'
  BY RecoverEffect
<1>3. /\ row[j].task = None => overrun' = overrun
      /\ row[j].task # None => overrun' = overrun \cup {j}
      /\ row[j].task # None => intruders > 0
  BY RecoverEffect
<1>4. UNCHANGED <<created, up, call, queue, answer, failures, started, task,
                  starting, crashes, dbFaults, intruders, unwritten, unseen>>
  BY RecoverEffect
<1>5. \A i \in Jobs : row'[i].task = row[i].task /\ row'[i].key = row[i].key
  BY <1>1
<1>6. TypeOK'
  <2>1. doomed' \in SUBSET Jobs /\ overrun' \in SUBSET Jobs
    BY <1>2, <1>3 DEF TypeOK
  <2>2. QED
    BY <1>1, <1>2, <1>4, <2>1 DEF TypeOK
<1>7. RowsInv' /\ StatusInv'
  <2>1. \A i \in Jobs : i > created => i # j /\ i \notin overrun'
    BY <1>2, <1>3, IndexFacts DEF RowsInv, Unused
  <2>2. RowsInv'
    BY <1>1, <1>2, <1>4, <2>1 DEF RowsInv, Unused
  <2>3. StatusInv'
    BY <1>1 DEF StatusInv
  <2>4. QED
    BY <2>2, <2>3
<1>8. CallsInv' /\ TasksInv' /\ KeysInv'
  <2>1. row[j].status \in Pollable /\ row[j].task = None => j \in interrupted'
    BY <1>2 DEF Unsubmitted
  <2>2. CallsInv'
    BY <1>1, <1>2, <1>4, <1>5, <2>1 DEF CallsInv
  <2>3. TasksInv' /\ KeysInv'
    BY <1>4, <1>5, IndexFacts DEF TasksInv, KeysInv
  <2>4. QED
    BY <2>2, <2>3
<1>9. StartInv'
  <2>1. Unsubmitted' = Unsubmitted \ {j}
    BY <1>1 DEF Unsubmitted
  <2>2. QED
    BY <1>2, <1>4, <2>1 DEF StartInv
<1>10. OverrunInv' /\ OverrunsNeedASecondStart'
  BY <1>1, <1>3, <1>4 DEF OverrunInv, OverrunsNeedASecondStart, TypeOK
<1>11. ListingStaysValid' /\ PollInv'
  <2>1. \A p \in queue : p[1] \in Jobs /\ p[2] \in Tasks
    BY DEF TypeOK
  <2>2. \A p \in queue : p[1] = j => j \in overrun'
    BY <1>3, <2>1 DEF ListingStaysValid
  <2>3. ListingStaysValid'
    BY <1>1, <1>3, <1>4, <1>5, <2>1, <2>2 DEF ListingStaysValid
  <2>4. PollInv'
    BY <1>4 DEF PollInv, IsHead
  <2>5. QED
    BY <2>3, <2>4
<1>12. VerdictIsTheProviders' /\ ErrorMatchesStatus'
  <2>1. VerdictIsTheProviders'
    BY <1>1, <1>3, <1>4 DEF VerdictIsTheProviders
  <2>2. ErrorMatchesStatus'
    BY <1>1, <1>3 DEF ErrorMatchesStatus, StatusInv
  <2>3. QED
    BY <2>1, <2>2
<1>13. BudgetStartsFresh'
  BY <1>1, <1>3, <1>4 DEF BudgetStartsFresh
<1>14. OrphansAreExplained' /\ SubmittingIsAwaited'
  BY <1>1, <1>2, <1>4, <1>5
     DEF OrphansAreExplained, SubmittingIsAwaited, Unsubmitted, TasksInv
<1>15. QED
  BY <1>6, <1>7, <1>8, <1>9, <1>10, <1>11, <1>12, <1>13, <1>14 DEF IInv

\* When a process takes over, only the rows it could not have listed are
\* unsubmitted; if it dies or finds the port taken, nothing has changed.
LEMMA StartEndsStep ==
  ASSUME IInv, Bind \/ StarterDies
  PROVE  IInv'
<1> USE ConstantFacts DEF IInv
<1>1. /\ UNCHANGED <<created, row, call, queue, answer, failures, started,
                     task, dbFaults, intruders, interrupted, unwritten, unseen,
                     overrun>>
      /\ starting /\ ~starting' /\ doomed' = {}
      /\ starting' \in BOOLEAN /\ up' \in BOOLEAN
  BY DEF Bind, StarterDies, procVars, provVars, faultVars, history, TypeOK
<1>2. (up' = up) \/ (up' = TRUE /\ doomed = {})
  <2>1. CASE Bind
    BY <2>1 DEF Bind
  <2>2. CASE StarterDies
    BY <2>2 DEF StarterDies, procVars
  <2>3. QED
    BY <2>1, <2>2
<1>3. crashes' \in 0..MaxCrashes /\ intruders' = intruders
  <2>1. CASE Bind
    BY <2>1 DEF Bind, faultVars, TypeOK
  <2>2. CASE StarterDies
    BY <2>2, BoundsAssumption DEF StarterDies, TypeOK
  <2>3. QED
    BY <2>1, <2>2
<1>4. Unsubmitted' = Unsubmitted
  BY <1>1 DEF Unsubmitted
<1>5. TypeOK'
  BY <1>1, <1>3 DEF TypeOK
<1>6. RowsInv' /\ CallsInv' /\ TasksInv' /\ KeysInv' /\ StatusInv'
  BY <1>1, <1>2 DEF RowsInv, Unused, CallsInv, TasksInv, KeysInv, StatusInv
<1>7. StartInv' /\ OverrunInv' /\ OverrunsNeedASecondStart'
  BY <1>1, <1>4 DEF StartInv, OverrunInv, OverrunsNeedASecondStart
<1>8. ListingStaysValid' /\ PollInv' /\ VerdictIsTheProviders'
  BY <1>1, <1>2 DEF ListingStaysValid, PollInv, IsHead, VerdictIsTheProviders
<1>9. ErrorMatchesStatus' /\ BudgetStartsFresh' /\ OrphansAreExplained'
  BY <1>1 DEF ErrorMatchesStatus, BudgetStartsFresh, OrphansAreExplained
<1>10. SubmittingIsAwaited'
  BY <1>1, <1>2, <1>4 DEF SubmittingIsAwaited, StartInv
<1>11. QED
  BY <1>5, <1>6, <1>7, <1>8, <1>9, <1>10 DEF IInv

-----------------------------------------------------------------------------
(* The provider moves.                                                     *)

LEMMA ProviderAcceptsStep ==
  ASSUME IInv, NEW j \in Jobs, ProviderAccepts(j)
  PROVE  IInv'
<1> USE ConstantFacts DEF IInv, Pollable, Terminal, Verdicts
<1> DEFINE t == started + 1
<1>1. /\ UNCHANGED <<created, row, up, queue, answer, failures, crashes,
                     dbFaults, intruders, starting, doomed, interrupted, unwritten,
                     unseen, overrun>>
      /\ call[j].phase = "sent"
  BY DEF ProviderAccepts, envVars, startVars, faultVars, history
<1>2. /\ t \in Tasks /\ started' = t /\ started' \in 0..MaxTasks
      /\ started \in Nat /\ 1..started' = 1..started \cup {t}
      /\ 1..started \subseteq Tasks \ {t}
  BY BoundsAssumption DEF ProviderAccepts, TypeOK, Tasks
<1>3. /\ task' \in [Tasks -> Task] /\ task'[t].job = j
      /\ \A u \in Tasks \ {t} : task'[u] = task[u]
  BY <1>2 DEF ProviderAccepts, TypeOK, Task
<1>4. /\ call' \in [Jobs -> Call]
      /\ call'[j].phase = "accepted" /\ call'[j].task = t
      /\ (call'[j].awaited <=> call[j].awaited)
      /\ \A i \in Jobs \ {j} : call'[i] = call[i]
  BY <1>2 DEF ProviderAccepts, TypeOK, Call
<1>5. call[j].task = None /\ row[j].task = None
  BY <1>1 DEF CallsInv
<1>6. \A i \in Jobs : call[i].task \in Tasks => call[i].task \in Tasks \ {t}
  BY <1>2 DEF CallsInv
<1>7. TypeOK'
  BY <1>1, <1>2, <1>3, <1>4 DEF TypeOK
<1>8. RowsInv' /\ StatusInv'
  BY <1>1, <1>4 DEF RowsInv, Unused, StatusInv
<1>9. CallsInv'
  <2>1. SUFFICES ASSUME NEW i \in Jobs
        PROVE  /\ call'[i].phase = "accepted" <=> call'[i].task # None
               /\ call'[i].task # None =>
                    call'[i].task <= started' /\ task'[call'[i].task].job = i
               /\ row[i].task # None =>
                    row[i].task = call'[i].task /\ ~call'[i].awaited
               /\ call'[i].phase = "sent" =>
                    call'[i].awaited \/ i \in interrupted
               /\ call'[i].awaited =>
                    up /\ (row[i].status \in Pollable \/ i \in interrupted)
    BY <1>1 DEF CallsInv
  <2>2. CASE i = j
    BY <1>2, <1>3, <1>4, <1>5, <2>2 DEF CallsInv
  <2>3. CASE i # j
    <3>1. call'[i] = call[i] /\ call[i].task \in Tasks \cup {None}
      BY <1>4, <2>3 DEF TypeOK, Call
    <3>2. call[i].task # None => task'[call[i].task] = task[call[i].task]
      BY <1>3, <1>6, <3>1
    <3>3. call[i].task # None => call[i].task <= started'
      <4>1. call[i].task # None => call[i].task <= started
        BY DEF CallsInv
      <4>2. started' = started + 1 /\ started \in Nat
        BY <1>2
      <4>3. call[i].task # None => call[i].task \in Nat
        BY <3>1
      <4>4. QED
        BY <3>1, <4>1, <4>2, <4>3
    <3>4. QED
      BY <3>1, <3>2, <3>3 DEF CallsInv
  <2>4. QED
    BY <2>2, <2>3
<1>10. \A u \in 1..started : task[u].job \in Jobs \ {j}
  BY <1>2, <1>5 DEF TasksInv
<1>11. TasksInv'
  <2>1. \A u \in 1..started : task'[u].job \in Jobs /\ call'[task'[u].job].task = u
    <3>1. \A u \in 1..started : task'[u] = task[u]
      BY <1>2, <1>3
    <3>2. \A u \in 1..started : call'[task[u].job] = call[task[u].job]
      BY <1>4, <1>10
    <3>3. QED
      BY <3>1, <3>2 DEF TasksInv
  <2>2. QED
    BY <1>2, <1>3, <1>4, <2>1 DEF TasksInv
<1>12. KeysInv' /\ ErrorMatchesStatus' /\ BudgetStartsFresh'
  BY <1>1 DEF KeysInv, ErrorMatchesStatus, BudgetStartsFresh
<1>13. \A i \in Jobs : row[i].task # None => row[i].task \in Tasks \ {t}
  BY <1>6 DEF CallsInv, TypeOK, Row
<1>14. ListingStaysValid' /\ PollInv'
  <2>1. \A p \in queue : p[1] \in Jobs /\ p[2] \in Tasks /\ row[p[1]].task = p[2]
    BY DEF ListingStaysValid, TypeOK
  <2>2. \A p \in queue : p[2] \in Tasks \ {t}
    BY <1>13, <2>1
  <2>3. \A p \in queue : task'[p[2]] = task[p[2]]
    BY <1>3, <2>2
  <2>4. QED
    BY <1>1, <2>3 DEF ListingStaysValid, PollInv, IsHead
<1>15. VerdictIsTheProviders'
  BY <1>1, <1>3, <1>13 DEF VerdictIsTheProviders
<1>16. call[j].awaited \/ j \in interrupted
  BY <1>1 DEF CallsInv
<1>17. OrphansAreExplained'
  <2>1. SUFFICES ASSUME NEW u \in 1..started'
                 PROVE  \/ row[task'[u].job].task = u
                        \/ call'[task'[u].job].awaited
                        \/ task'[u].job \in interrupted
    BY <1>1 DEF OrphansAreExplained
  <2>2. CASE u = t
    BY <1>3, <1>4, <1>16, <2>2
  <2>3. CASE u # t
    <3>1. u \in 1..started /\ task'[u] = task[u]
      BY <1>2, <1>3, <2>3
    <3>2. call'[task[u].job] = call[task[u].job]
      BY <1>4, <1>10, <3>1
    <3>3. QED
      BY <3>1, <3>2 DEF OrphansAreExplained
  <2>4. QED
    BY <2>2, <2>3
<1>18. SubmittingIsAwaited'
  BY <1>1, <1>4 DEF SubmittingIsAwaited, Unsubmitted
<1>19. StartInv' /\ OverrunInv' /\ OverrunsNeedASecondStart'
  BY <1>1, StartKept DEF OverrunInv, Unsubmitted
<1>20. QED
  BY <1>7, <1>8, <1>9, <1>11, <1>12, <1>14, <1>15, <1>17, <1>18, <1>19
     DEF IInv

LEMMA ProviderRejectsStep ==
  ASSUME IInv, NEW j \in Jobs, ProviderRejects(j)
  PROVE  IInv'
<1> USE ConstantFacts DEF IInv, Pollable, Terminal, Verdicts
<1>1. /\ UNCHANGED <<created, row, up, queue, answer, failures, started, task,
                     crashes, dbFaults, intruders, starting, doomed, interrupted, unwritten,
                     unseen, overrun>>
      /\ call[j].phase = "sent"
  BY DEF ProviderRejects, provVars, envVars, startVars, faultVars, history
<1>2. /\ call' \in [Jobs -> Call] /\ call'[j].phase = "rejected"
      /\ \A i \in Jobs : /\ call'[i].task = call[i].task
                         /\ (call'[i].awaited <=> call[i].awaited)
      /\ \A i \in Jobs \ {j} : call'[i] = call[i]
  BY DEF ProviderRejects, TypeOK, Call
<1>3. TypeOK'
  BY <1>1, <1>2 DEF TypeOK
<1>4. RowsInv' /\ StatusInv'
  BY <1>1, <1>2 DEF RowsInv, Unused, StatusInv
<1>5. CallsInv'
  BY <1>1, <1>2 DEF CallsInv
<1>6. TasksInv' /\ OrphansAreExplained'
  BY <1>1, <1>2 DEF TasksInv, OrphansAreExplained
<1>7. KeysInv' /\ ErrorMatchesStatus' /\ BudgetStartsFresh'
  BY <1>1 DEF KeysInv, ErrorMatchesStatus, BudgetStartsFresh
<1>8. ListingStaysValid' /\ PollInv' /\ VerdictIsTheProviders'
  BY <1>1 DEF ListingStaysValid, PollInv, IsHead, VerdictIsTheProviders
<1>9. SubmittingIsAwaited'
  BY <1>1, <1>2 DEF SubmittingIsAwaited, Unsubmitted
<1>10. StartInv' /\ OverrunInv' /\ OverrunsNeedASecondStart'
  BY <1>1, StartKept DEF OverrunInv, Unsubmitted
<1>11. QED
  BY <1>3, <1>4, <1>5, <1>6, <1>7, <1>8, <1>9, <1>10 DEF IInv

LEMMA TaskEndsStep ==
  ASSUME IInv, NEW t \in Tasks, NEW v \in Verdicts, TaskEnds(t, v)
  PROVE  IInv'
<1> USE ConstantFacts DEF IInv
<1>1. UNCHANGED <<created, row, up, call, queue, answer, failures, started,
                  crashes, dbFaults, intruders, starting, doomed, interrupted, unwritten,
                     unseen, overrun>>
  BY DEF TaskEnds, procVars, envVars, startVars, faultVars, history
<1>2. /\ task' \in [Tasks -> Task]
      /\ \A u \in Tasks : /\ task'[u].job = task[u].job
                          /\ task'[u].told = task[u].told
  BY DEF TaskEnds, TypeOK, Task
<1>3. TypeOK'
  BY <1>1, <1>2 DEF TypeOK
<1>4. RowsInv' /\ KeysInv' /\ StatusInv' /\ ErrorMatchesStatus'
  BY <1>1 DEF RowsInv, Unused, KeysInv, StatusInv, ErrorMatchesStatus
<1>5. CallsInv'
  BY <1>1, <1>2 DEF CallsInv, TypeOK, Call
<1>6. TasksInv' /\ OrphansAreExplained'
  BY <1>1, <1>2, IndexFacts DEF TasksInv, OrphansAreExplained
<1>7. ListingStaysValid' /\ PollInv'
  <2>1. \A p \in queue : p[2] \in Tasks
    BY DEF TypeOK
  <2>2. QED
    BY <1>1, <1>2, <2>1 DEF ListingStaysValid, PollInv, IsHead
<1>8. VerdictIsTheProviders'
  BY <1>1, <1>2 DEF VerdictIsTheProviders, TypeOK, Row
<1>9. BudgetStartsFresh' /\ SubmittingIsAwaited'
  BY <1>1 DEF BudgetStartsFresh, SubmittingIsAwaited, Unsubmitted
<1>10. StartInv' /\ OverrunInv' /\ OverrunsNeedASecondStart'
  BY <1>1, StartKept DEF OverrunInv, Unsubmitted
<1>11. QED
  BY <1>3, <1>4, <1>5, <1>6, <1>7, <1>8, <1>9, <1>10 DEF IInv

LEMMA StutterStep ==
  ASSUME IInv, UNCHANGED vars
  PROVE  IInv'
BY DEF vars, procVars, provVars, envVars, startVars, faultVars, history, IInv, TypeOK, RowsInv,
       Unused, CallsInv, TasksInv, KeysInv, StatusInv, StartInv, OverrunInv,
       OverrunsNeedASecondStart, ListingStaysValid,
       PollInv, IsHead, VerdictIsTheProviders, ErrorMatchesStatus,
       BudgetStartsFresh, OrphansAreExplained, SubmittingIsAwaited, Unsubmitted

-----------------------------------------------------------------------------
(* The invariant.                                                          *)

\* The invariant holds in the empty database of a fresh start.
LEMMA InitLemma == Init => IInv
<1> SUFFICES ASSUME Init PROVE IInv
  OBVIOUS
<1> USE ConstantFacts DEF Init
<1>1. TypeOK
  <2>1. NoRow \in Row /\ NoCall \in Call
    BY DEF NoRow, Row, NoCall, Call
  <2>2. task \in [Tasks -> Task]
    BY DEF Task
  <2>3. /\ created \in 0..MaxJobs /\ started \in 0..MaxTasks
        /\ crashes \in 0..MaxCrashes /\ dbFaults \in 0..MaxDbFaults
        /\ intruders \in 0..MaxIntruders
    BY BoundsAssumption
  <2>4. failures \in [Jobs -> 0..(MaxAttempts - 1)]
    BY BudgetAssumption
  <2>5. QED
    BY <2>1, <2>2, <2>3, <2>4 DEF TypeOK
<1>2. RowsInv /\ CallsInv /\ StatusInv
  <2>1. \A j \in Jobs : /\ row[j].status = "absent" /\ row[j].task = None
                        /\ call[j].phase = "idle" /\ call[j].task = None
                        /\ ~call[j].awaited
                        /\ j \notin unwritten \cup doomed \cup overrun
                        /\ j > created
    BY DEF NoRow, NoCall, Jobs
  <2>2. QED
    BY <2>1 DEF RowsInv, Unused, CallsInv, StatusInv
<1>3. TasksInv /\ KeysInv /\ OrphansAreExplained
  BY DEF TasksInv, KeysInv, OrphansAreExplained
<1>4. ListingStaysValid /\ PollInv /\ BudgetStartsFresh
  BY DEF ListingStaysValid, PollInv, BudgetStartsFresh, Verdicts, Terminal
<1>5. VerdictIsTheProviders /\ ErrorMatchesStatus /\ SubmittingIsAwaited
  BY DEF VerdictIsTheProviders, ErrorMatchesStatus, SubmittingIsAwaited,
         Unsubmitted, NoRow, Pollable
<1>6. StartInv /\ OverrunInv /\ OverrunsNeedASecondStart
  BY DEF StartInv, OverrunInv, OverrunsNeedASecondStart
<1>7. QED
  BY <1>1, <1>2, <1>3, <1>4, <1>5, <1>6 DEF IInv

\* Every step preserves the invariant, one case per action of Next.
LEMMA NextLemma == IInv /\ [Next]_vars => IInv'
<1> SUFFICES ASSUME IInv, [Next]_vars PROVE IInv'
  OBVIOUS
<1>1. CASE \E k \in Keys \cup {Minted} : Create(k)
  BY <1>1, SubmitStep DEF Create
<1>2. CASE \E j \in Jobs, k \in Keys \cup {Minted} : Retry(j, k)
  BY <1>2, SubmitStep DEF Retry
<1>3. CASE \E j \in Jobs : Settle(j) \/ WriteRefused(j) \/ Resume(j)
  BY <1>3, SettleStep, ResumeStep
<1>4. CASE TickStart
  BY <1>4, TickStartStep
<1>5. CASE \E j \in Jobs, t \in Tasks : Poll(j, t) \/ PollWriteRefused(j, t)
  BY <1>5, QueryAnsweredStep, PollStepStep DEF Poll, PollStep
<1>6. CASE \/ Crash \/ Start \/ Bind \/ StarterDies
           \/ \E j \in Jobs : RecoverRow(j)
  BY <1>6, CrashStep, StartStep, StartEndsStep, RecoverStep
<1>7. CASE \E j \in Jobs : ProviderAccepts(j) \/ ProviderRejects(j)
  BY <1>7, ProviderAcceptsStep, ProviderRejectsStep
<1>8. CASE \E t \in Tasks, v \in Verdicts : TaskEnds(t, v)
  BY <1>8, TaskEndsStep
<1>9. CASE UNCHANGED vars
  BY <1>9, StutterStep
<1>10. QED
  BY <1>1, <1>2, <1>3, <1>4, <1>5, <1>6, <1>7, <1>8, <1>9 DEF Next

(* In every reachable state of the server, its database and the provider,  *)
(* IInv holds, whatever the number of jobs and of faults.                  *)
THEOREM InvariantHolds == Spec => []IInv
<1>1. Init => IInv
  BY InitLemma
<1>2. IInv /\ [Next]_vars => IInv'
  BY NextLemma
<1>3. QED
  BY <1>1, <1>2, PTL DEF Spec

-----------------------------------------------------------------------------
(* The properties.                                                         *)

(* Every variable keeps its type; in particular the failure count of a job *)
(* never reaches the attempt budget (JobPoller.failures).                  *)
THEOREM TypeCorrect == Spec => []TypeOK
<1>1. IInv => TypeOK
  BY DEF IInv
<1>2. QED
  BY <1>1, InvariantHolds, PTL

\* Two tasks of one client key belong to one job, and a job has one task.
LEMMA KeysAndTasks == IInv => OneGenerationPerKey
<1> SUFFICES ASSUME IInv, NEW t \in 1..started, NEW u \in 1..started,
                    row[task[t].job].key = row[task[u].job].key,
                    row[task[t].job].key \in Keys
             PROVE  t = u
  BY DEF OneGenerationPerKey
<1> USE DEF IInv
<1>1. /\ task[t].job \in Jobs /\ call[task[t].job].task = t
      /\ task[u].job \in Jobs /\ call[task[u].job].task = u
  BY DEF TasksInv
<1>2. t # None /\ u # None
  BY IndexFacts, ConstantFacts
<1>3. \A j \in Jobs : call[j].task # None => j \in 1..created
  BY ConstantFacts, IndexFacts DEF RowsInv, Unused, Jobs
<1>4. task[t].job \in 1..created /\ task[u].job \in 1..created
  BY <1>1, <1>2, <1>3
<1>5. task[t].job = task[u].job
  BY <1>4 DEF KeysInv
<1>6. QED
  BY <1>1, <1>5

(* One client key never buys two generations, across retries, crashes,     *)
(* lost replies and refused writes (generationService.create).             *)
THEOREM KeysBuyOneGeneration == Spec => []OneGenerationPerKey
BY InvariantHolds, KeysAndTasks, PTL

(* A row only ever stores the task the provider started for it, however    *)
(* many submissions are awaited together (generationService.create).       *)
THEOREM TasksNeverCross == Spec => []OwnTask
<1>1. IInv => OwnTask
  BY ConstantFacts DEF IInv, CallsInv, OwnTask
<1>2. QED
  BY <1>1, InvariantHolds, PTL

(* A job with a task is closed only by a verdict the provider gave on that *)
(* task, or by the recovery of a second start (poller.pollOne,             *)
(* updateStatus, recoverUnsubmitted).                                      *)
THEOREM OnlyVerdictsClose == Spec => []VerdictIsTheProviders
<1>1. IInv => VerdictIsTheProviders
  BY DEF IInv
<1>2. QED
  BY <1>1, InvariantHolds, PTL

(* What a tick listed is still what it polls, unless a second start failed *)
(* it meanwhile: but for that the poller never writes over a closed row    *)
(* (poller.tick, recoverUnsubmitted).                                      *)
THEOREM TicksPollWhatTheyListed == Spec => []ListingStaysValid
<1>1. IInv => ListingStaysValid
  BY DEF IInv
<1>2. QED
  BY <1>1, InvariantHolds, PTL

(* The error and result columns agree with the status, and the failures on *)
(* the poller's account are those of rows it follows, except where the     *)
(* recovery of a second start failed a row over its task: that row may     *)
(* keep its result and its failures (pollOne, recoverUnsubmitted).         *)
THEOREM RowsAreConsistent == Spec => [](ErrorMatchesStatus /\ BudgetStartsFresh)
<1>1. IInv => ErrorMatchesStatus /\ BudgetStartsFresh
  BY DEF IInv
<1>2. QED
  BY <1>1, InvariantHolds, PTL

(* A paid task no row knows comes only from an interrupted submission or a *)
(* refused write (generationService.ts create).                            *)
THEOREM LossesAreExplained == Spec => []OrphansAreExplained
<1>1. IInv => OrphansAreExplained
  BY DEF IInv
<1>2. QED
  BY <1>1, InvariantHolds, PTL

(* A row stuck without a task comes only from a refused write, or from a   *)
(* process that took over after it had listed the rows to recover          *)
(* (create, recoverUnsubmitted).                                           *)
THEOREM StuckRowsAreExplained == Spec => []SubmittingIsAwaited
<1>1. IInv => SubmittingIsAwaited
  BY DEF IInv
<1>2. QED
  BY <1>1, InvariantHolds, PTL

(* Where the server is never started while it runs, no restart overruns a  *)
(* job: what recovery listed is still unsubmitted when it is failed,       *)
(* however often the start dies on the way (boot, recoverUnsubmitted).     *)
THEOREM RestartsOverrunNothing == Spec => []OverrunsNeedASecondStart
<1>1. IInv => OverrunsNeedASecondStart
  BY DEF IInv
<1>2. QED
  BY <1>1, InvariantHolds, PTL

-----------------------------------------------------------------------------
(* What a step may never do.                                               *)

\* The body of ClosedStaysClosed.
JobKept(j) ==
  /\ row[j].status \in Terminal /\ j \notin overrun'
       => row'[j].status = row[j].status
  /\ row[j].task # None => row'[j].task = row[j].task

LEMMA ClosedLemma ==
  ASSUME IInv, [Next]_vars
  PROVE  \A j \in Jobs : JobKept(j)
<1> USE ConstantFacts DEF IInv, JobKept, Pollable, Terminal, Verdicts
<1>1. CASE UNCHANGED row
  BY <1>1
<1>2. CASE \E k \in Keys \cup {Minted} : Submit(k)
  <2>1. created + 1 \in Jobs /\ Unused(created + 1)
    BY <1>2, BoundsAssumption DEF Submit, TypeOK, Jobs, RowsInv
  <2>2. QED
    BY <1>2, <2>1 DEF Submit, Unused, TypeOK
<1>3. CASE \E i \in Jobs : Settle(i) \/ WriteRefused(i)
  <2>1. PICK i \in Jobs : Settle(i) \/ WriteRefused(i)
    BY <1>3
  <2>2. /\ row[i].task = None
        /\ \A h \in Jobs \ {i} : row'[h] = row[h]
        /\ \/ row'[i] = row[i]
           \/ row'[i].status = "failed"
           \/ row[i].status \in Pollable
    BY <2>1, SettleEffect
  <2>3. QED
    BY <2>2 DEF StatusInv
<1>4. CASE \E i \in Jobs : Resume(i)
  BY <1>4 DEF Resume, TypeOK, Row
<1>5. CASE \E i \in Jobs, t \in Tasks : PollStep(i, t)
  <2>1. PICK i \in Jobs, t \in Tasks : PollStep(i, t)
    BY <1>5
  <2>2. /\ row[i].status \in Pollable \/ i \in overrun'
        /\ row'[i].task = row[i].task
        /\ \A h \in Jobs \ {i} : row'[h] = row[h]
    BY <2>1, PollEffect
  <2>3. QED
    BY <2>2
<1>6. CASE \E i \in Jobs : RecoverRow(i)
  <2>1. PICK i \in Jobs : RecoverRow(i)
    BY <1>6
  <2>2. /\ row'[i].status = "failed" /\ row'[i].task = row[i].task
        /\ \A h \in Jobs \ {i} : row'[h] = row[h]
        /\ row[i].task # None => i \in overrun'
    BY <2>1, RecoverEffect
  <2>3. QED
    BY <2>2 DEF StatusInv
<1>7. QED
  <2>1. CASE \E k \in Keys \cup {Minted} : Create(k)
    BY <1>2, <2>1 DEF Create
  <2>2. CASE \E j \in Jobs, k \in Keys \cup {Minted} : Retry(j, k)
    BY <1>2, <2>2 DEF Retry
  <2>3. CASE \E j \in Jobs : Settle(j) \/ WriteRefused(j) \/ Resume(j)
    BY <1>3, <1>4, <2>3
  <2>4. CASE TickStart \/ Crash \/ Start \/ Bind \/ StarterDies
    BY <1>1, <2>4 DEF TickStart, Crash, Start, Bind, StarterDies
  <2>5. CASE \E j \in Jobs, t \in Tasks : Poll(j, t) \/ PollWriteRefused(j, t)
    BY <1>1, <1>5, <2>5 DEF Poll, PollStep, QueryAnswered
  <2>6. CASE \E j \in Jobs : RecoverRow(j)
    BY <1>6, <2>6
  <2>7. CASE \E j \in Jobs : ProviderAccepts(j) \/ ProviderRejects(j)
    BY <1>1, <2>7 DEF ProviderAccepts, ProviderRejects
  <2>8. CASE \E t \in Tasks, v \in Verdicts : TaskEnds(t, v)
    BY <1>1, <2>8 DEF TaskEnds
  <2>9. CASE UNCHANGED vars
    BY <1>1, <2>9 DEF vars
  <2>10. QED
    BY <2>1, <2>2, <2>3, <2>4, <2>5, <2>6, <2>7, <2>8, <2>9 DEF Next

(* A closed job is never reopened and a stored task id never replaced, by  *)
(* whichever actor writes the row, but for the status of a row a second    *)
(* start has failed over its task (updateStatus, resumeTracking,           *)
(* recoverUnsubmitted).                                                    *)
THEOREM JobsStayClosed == Spec => ClosedStaysClosed
<1>1. IInv /\ [Next]_vars
        => [\A j \in Jobs :
              /\ row[j].status \in Terminal /\ j \notin overrun'
                   => row'[j].status = row[j].status
              /\ row[j].task # None => row'[j].task = row[j].task]_vars
  BY ClosedLemma DEF JobKept
<1>2. QED
  BY <1>1, InvariantHolds, PTL DEF Spec, ClosedStaysClosed

-----------------------------------------------------------------------------
(***************************************************************************)
(* GenerationJobs implements JobContract, for every value of the           *)
(* constants: its initial states are initial there, and each of its steps  *)
(* is, under the refinement mapping of GenerationJobs, one step of the     *)
(* contract or a stutter.                                                  *)
(***************************************************************************)

LifeOf == [j \in Jobs |-> Life(j)]
ChargedOf == [j \in Jobs |-> call[j].phase = "accepted"]
RuledOf == [j \in Jobs |-> IF row[j].task = None THEN {}
                           ELSE task[row[j].task].told]

ContractStep == Contract!Next \/ UNCHANGED <<LifeOf, ChargedOf, RuledOf>>

-----------------------------------------------------------------------------
(* Nothing is told of a task before its id is stored.                      *)

LEMMA UntoldInit == Init => UntoldInv
BY DEF Init, UntoldInv

\* Stored ids are never lost, and only the query of a stored id tells.
LEMMA UntoldStep ==
  ASSUME RefinementInv, [Next]_vars
  PROVE  UntoldInv'
<1> USE ConstantFacts DEF RefinementInv
<1>1. \A j \in Jobs : row[j].task # None => row'[j].task = row[j].task
  BY ClosedLemma DEF JobKept
<1>2. /\ \A t \in 1..started : task[t].job \in Jobs
      /\ 1..started \subseteq Tasks /\ started \in Nat
  BY IndexFacts DEF IInv, TasksInv
<1>3. \A t \in 1..started : t # None
  BY <1>2
<1>4. CASE \E j \in Jobs : ProviderAccepts(j)
  <2>1. PICK j \in Jobs : ProviderAccepts(j)
    BY <1>4
  <2>2. /\ started' = started + 1 /\ started' \in Tasks /\ row' = row
        /\ task' = [task EXCEPT ![started + 1] =
                      [job |-> j, state |-> "active", told |-> {}]]
    BY <1>2, <2>1, BoundsAssumption DEF ProviderAccepts, Tasks
  <2>3. /\ 1..started' = 1..started \cup {started'}
        /\ 1..started \subseteq Tasks \ {started'}
    BY <1>2, <2>2
  <2>4. task'[started'].told = {}
    BY <2>2 DEF IInv, TypeOK
  <2>5. \A t \in 1..started : task'[t] = task[t]
    BY <2>2, <2>3
  <2>6. QED
    BY <2>2, <2>3, <2>4, <2>5 DEF UntoldInv
<1>5. CASE \E j \in Jobs, t \in Tasks, a \in Answers : QueryAnswered(j, t, a)
  <2>1. PICK j \in Jobs, t \in Tasks, a \in Answers : QueryAnswered(j, t, a)
    BY <1>5
  <2>2. row[j].task = t /\ j \in Jobs
    BY <2>1 DEF QueryAnswered, IsHead, IInv, ListingStaysValid
  <2>3. task[t].job = j
    BY <2>2 DEF IInv, CallsInv
  <2>4. /\ started' = started /\ row' = row
        /\ \A u \in Tasks : task'[u].job = task[u].job
        /\ \A u \in Tasks \ {t} : task'[u].told = task[u].told
    BY <2>1 DEF QueryAnswered, IInv, TypeOK, Task
  <2>5. QED
    BY <1>2, <2>2, <2>3, <2>4 DEF UntoldInv
<1>6. CASE \E t \in Tasks, v \in Verdicts : TaskEnds(t, v)
  <2>1. /\ started' = started /\ row' = row
        /\ \A u \in Tasks : /\ task'[u].job = task[u].job
                            /\ task'[u].told = task[u].told
    BY <1>6 DEF TaskEnds, IInv, TypeOK, Task
  <2>2. QED
    BY <1>2, <2>1 DEF UntoldInv
<1>7. CASE started' = started /\ task' = task
  BY <1>1, <1>2, <1>3, <1>7 DEF UntoldInv
<1>8. QED
  BY <1>4, <1>5, <1>6, <1>7
     DEF Next, vars, provVars, procVars, envVars, startVars, faultVars, history, Create, Retry,
         Submit, Settle, RecordTask, RecordRejection, ReplyLost, WriteRefused,
         Resume, TickStart, Poll, ApplyAnswer, CountFailure, PollWriteRefused,
         Crash, Start, RecoverRow, Bind, StarterDies, ProviderRejects

-----------------------------------------------------------------------------
(* The initial states.                                                     *)

LEMMA ContractInit == Init => Contract!Init
<1> SUFFICES ASSUME Init PROVE Contract!Init
  OBVIOUS
<1>1. \A j \in Jobs : /\ Life(j) = "absent" /\ row[j].task = None
                      /\ call[j].phase = "idle"
  BY DEF Init, Life, NoRow, NoCall, Pollable
<1>2. [j \in Jobs |-> Life(j)] = [j \in Jobs |-> "absent"]
  BY <1>1
<1>3. [j \in Jobs |-> call[j].phase = "accepted"] = [j \in Jobs |-> FALSE]
  BY <1>1
<1>4. QED
  BY <1>1, <1>2, <1>3 DEF Contract!Init

-----------------------------------------------------------------------------
(* The steps.                                                              *)

\* A step that leaves the status, the task and what the contract sees of
\* every job alone.
LEMMA SameLives ==
  ASSUME \A j \in Jobs : /\ Life(j)' = Life(j)
                         /\ row'[j].task = row[j].task
                         /\ (call'[j].phase = "accepted"
                               <=> call[j].phase = "accepted")
                         /\ row[j].task # None =>
                              task'[row[j].task].told = task[row[j].task].told
  PROVE  UNCHANGED <<LifeOf, ChargedOf, RuledOf>>
<1>1. LifeOf' = LifeOf
  BY DEF LifeOf
<1>2. ChargedOf' = ChargedOf
  <2>1. \A j \in Jobs : (call'[j].phase = "accepted")
                          = (call[j].phase = "accepted")
    OBVIOUS
  <2>2. QED
    BY <2>1 DEF ChargedOf
<1>3. RuledOf' = RuledOf
  BY DEF RuledOf
<1>4. QED
  BY <1>1, <1>2, <1>3

LEMMA SubmitRefines ==
  ASSUME RefinementInv, NEW k \in Keys \cup {Minted}, Submit(k)
  PROVE  Contract!Next
<1> USE ConstantFacts DEF RefinementInv, IInv
<1>1. PICK j \in Jobs : j = created + 1 /\ Unused(j)
  BY BoundsAssumption DEF Submit, TypeOK, Jobs, RowsInv
<1>2. /\ row'[j] = NewRow(k) /\ \A i \in Jobs \ {j} : row'[i] = row[i]
      /\ call'[j].phase = "sent" /\ \A i \in Jobs \ {j} : call'[i] = call[i]
      /\ task' = task /\ overrun' = overrun /\ j \notin overrun
  BY <1>1 DEF Submit, TypeOK, NewCall, provVars, Unused
<1>3. row'[j].status = "queued" /\ row'[j].task = None
  BY <1>2, NewRowFields
<1>4. Life(j) = "absent" /\ row[j].task = None /\ call[j].phase = "idle"
  BY <1>1 DEF Unused, Life, Pollable
<1>5. Life(j)' = "submitting"
  BY <1>2, <1>3 DEF Life, Pollable
<1>6. \A i \in Jobs \ {j} : Life(i)' = Life(i)
  <2> TAKE i \in Jobs \ {j}
  <2>1. row'[i] = row[i] /\ overrun' = overrun
    BY <1>2
  <2>2. QED
    BY <2>1 DEF Life
<1>7. LifeOf[j] = "absent" /\ LifeOf' = [LifeOf EXCEPT ![j] = "submitting"]
  BY <1>1, <1>4, <1>5, <1>6 DEF LifeOf
<1>8. ChargedOf' = ChargedOf
  BY <1>1, <1>2, <1>4 DEF ChargedOf
<1>9. RuledOf' = RuledOf
  BY <1>1, <1>2, <1>3, <1>4 DEF RuledOf
<1>10. Contract!Open(j)
  BY <1>7, <1>8, <1>9 DEF Contract!Open, LifeOf, ChargedOf, RuledOf
<1>11. QED
  BY <1>1, <1>10 DEF Contract!Next

\* The contract's Track and GiveUp, and a late answer that changes nothing.
LEMMA SettleRefines ==
  ASSUME RefinementInv, NEW j \in Jobs, Settle(j) \/ WriteRefused(j)
  PROVE  ContractStep
<1> USE ConstantFacts DEF RefinementInv, IInv
<1>1. /\ call[j].awaited /\ row[j].task = None
      /\ \A i \in Jobs \ {j} : row'[i] = row[i]
      /\ \A i \in Jobs : call'[i].phase = call[i].phase
      /\ task' = task /\ overrun' = overrun /\ j \notin overrun
  BY SettleEffect DEF OverrunInv
<1>2. \/ row'[j] = row[j]
      \/ row'[j].status = "failed" /\ row'[j].task = None
      \/ /\ row'[j].status = "queued" /\ row'[j].task = call[j].task
         /\ row[j].status \in Pollable /\ call[j].task \in Tasks
  BY SettleEffect
<1>3. Life(j) \in {"submitting", "failed"}
  <2>1. row[j].status \notin {"absent", "tracking_exhausted", "succeeded",
                              "expired"}
    BY <1>1 DEF RowsInv, Unused, StatusInv
  <2>2. row[j].status \in Pollable \cup {"failed"}
    BY <2>1 DEF TypeOK, Row, Statuses, Pollable, Terminal
  <2>3. QED
    BY <1>1, <2>2 DEF Life, Pollable
<1>4. \A i \in Jobs \ {j} : Life(i)' = Life(i)
  BY <1>1 DEF Life
<1>5. ChargedOf' = ChargedOf
  BY <1>1 DEF ChargedOf
<1>6. CASE row'[j] = row[j]
  <2>1. LifeOf' = LifeOf
    BY <1>1, <1>4, <1>6 DEF LifeOf, Life
  <2>2. RuledOf' = RuledOf
    BY <1>1, <1>6 DEF RuledOf
  <2>3. QED
    BY <1>5, <2>1, <2>2 DEF ContractStep
<1>7. CASE row'[j].status = "failed" /\ row'[j].task = None
  <2>1. Life(j)' = "failed"
    BY <1>1, <1>7 DEF Life, Pollable
  <2>2. RuledOf' = RuledOf
    BY <1>1, <1>7 DEF RuledOf
  <2>3. CASE Life(j) = "failed"
    <3>1. LifeOf' = LifeOf
      BY <1>4, <2>1, <2>3 DEF LifeOf
    <3>2. QED
      BY <1>5, <2>2, <3>1 DEF ContractStep
  <2>4. CASE Life(j) = "submitting"
    <3>1. /\ LifeOf[j] = "submitting"
          /\ LifeOf' = [LifeOf EXCEPT ![j] = "failed"]
      BY <1>4, <2>1, <2>4 DEF LifeOf
    <3>2. Contract!GiveUp(j)
      BY <1>5, <2>2, <3>1 DEF Contract!GiveUp, LifeOf, ChargedOf, RuledOf
    <3>3. QED
      BY <3>2 DEF ContractStep, Contract!Next
  <2>5. QED
    BY <1>3, <2>3, <2>4
<1>8. CASE /\ row'[j].status = "queued" /\ row'[j].task = call[j].task
           /\ row[j].status \in Pollable /\ call[j].task \in Tasks
  <2>1. Life(j) = "submitting" /\ Life(j)' = "tracked"
    BY <1>1, <1>8 DEF Life, Pollable
  <2>2. LifeOf[j] = "submitting" /\ LifeOf' = [LifeOf EXCEPT ![j] = "tracked"]
    BY <1>4, <2>1 DEF LifeOf
  <2>3. ChargedOf[j]
    BY <1>8 DEF ChargedOf, CallsInv
  <2>4. task[call[j].task].job = j /\ call[j].task \in 1..started
    BY <1>8, IndexFacts DEF CallsInv, Tasks
  <2>5. task[call[j].task].told = {}
    BY <1>1, <1>8, <2>4 DEF UntoldInv
  <2>6. RuledOf' = RuledOf
    BY <1>1, <1>8, <2>5 DEF RuledOf
  <2>7. Contract!Track(j)
    BY <1>5, <2>2, <2>3, <2>6 DEF Contract!Track, LifeOf, ChargedOf, RuledOf
  <2>8. QED
    BY <2>7 DEF ContractStep, Contract!Next
<1>9. QED
  BY <1>2, <1>6, <1>7, <1>8

LEMMA ResumeRefines ==
  ASSUME RefinementInv, NEW j \in Jobs, Resume(j)
  PROVE  Contract!Next
<1> USE DEF RefinementInv, IInv
<1>1. /\ row[j].status = "tracking_exhausted" /\ row[j].task # None
      /\ row'[j].status = "running" /\ row'[j].task = row[j].task
      /\ \A i \in Jobs \ {j} : row'[i] = row[i]
      /\ task' = task /\ call' = call
      /\ overrun' = overrun /\ j \notin overrun
  BY DEF Resume, TypeOK, Row, provVars, procVars, history, OverrunInv, Terminal
<1>2. Life(j) = "stalled" /\ Life(j)' = "tracked"
  BY <1>1 DEF Life, Pollable
<1>3. \A i \in Jobs \ {j} : Life(i)' = Life(i)
  BY <1>1 DEF Life
<1>4. LifeOf[j] = "stalled" /\ LifeOf' = [LifeOf EXCEPT ![j] = "tracked"]
  BY <1>2, <1>3 DEF LifeOf
<1>5. ChargedOf' = ChargedOf /\ RuledOf' = RuledOf
  BY <1>1 DEF ChargedOf, RuledOf
<1>6. Contract!Resume(j)
  BY <1>4, <1>5 DEF Contract!Resume, LifeOf, ChargedOf, RuledOf
<1>7. QED
  BY <1>6 DEF Contract!Next

\* An answer that closes nothing is a stutter, a verdict a Rule.
LEMMA QueryRefines ==
  ASSUME RefinementInv, NEW j \in Jobs, NEW t \in Tasks, NEW a \in Answers,
         QueryAnswered(j, t, a)
  PROVE  ContractStep
<1> USE ConstantFacts DEF RefinementInv, IInv
<1>1. (row[j].status \in Pollable \/ j \in overrun) /\ row[j].task = t
  BY DEF QueryAnswered, IsHead, ListingStaysValid
<1>2. row' = row /\ call' = call /\ overrun' = overrun
  BY DEF QueryAnswered, history
<1>3. LifeOf' = LifeOf /\ ChargedOf' = ChargedOf
  BY <1>2 DEF LifeOf, ChargedOf, Life
<1>4. CASE a \notin Verdicts
  <2>1. RuledOf' = RuledOf
    BY <1>2, <1>4 DEF RuledOf, QueryAnswered
  <2>2. QED
    BY <1>3, <2>1 DEF ContractStep
<1>5. CASE a \in Verdicts
  <2>1. /\ task'[t].told = task[t].told \cup {a}
        /\ \A u \in Tasks \ {t} : task'[u].told = task[u].told
    BY <1>5 DEF QueryAnswered, TypeOK, Task
  <2>2. \A i \in Jobs \ {j} : row[i].task # None => row[i].task \in Tasks \ {t}
    BY <1>1 DEF CallsInv, TypeOK, Row
  <2>3. RuledOf' = [RuledOf EXCEPT ![j] = @ \cup {a}]
    BY <1>1, <1>2, <2>1, <2>2 DEF RuledOf
  <2>4. LifeOf[j] \in {"tracked", "overrun"}
    BY <1>1 DEF LifeOf, Life
  <2>5. Contract!Rule(j, a)
    BY <1>3, <2>3, <2>4 DEF Contract!Rule, LifeOf, ChargedOf, RuledOf
  <2>6. QED
    BY <1>5, <2>5 DEF ContractStep, Contract!Next
<1>6. QED
  BY <1>4, <1>5

\* Polling a row is a Close, a Stall or nothing.
LEMMA PollRefines ==
  ASSUME RefinementInv, NEW j \in Jobs, NEW t \in Tasks, PollStep(j, t)
  PROVE  ContractStep
<1> USE ConstantFacts DEF RefinementInv, IInv
<1>1. /\ IsHead(j, t) /\ <<j, t>> \in queue
      /\ row[j].status \in Pollable \/ j \in overrun
      /\ row[j].task = t
      /\ row'[j].task = row[j].task
      /\ \A i \in Jobs \ {j} : row'[i] = row[i]
      /\ task' = task /\ call' = call /\ overrun' = overrun
  BY PollEffect
<1>2. \/ row'[j] = row[j]
      \/ row[j].status \in Pollable /\ row'[j].status \in Pollable
      \/ row[j].status \in Pollable /\ row'[j].status = "tracking_exhausted"
      \/ row'[j].status = answer /\ answer \in Verdicts
  BY PollEffect
<1>3. j \notin overrun => LifeOf[j] = "tracked" /\ Life(j) = "tracked"
  BY <1>1 DEF LifeOf, Life
<1>4. \A i \in Jobs \ {j} : Life(i)' = Life(i)
  BY <1>1 DEF Life
<1>5. ChargedOf' = ChargedOf /\ RuledOf' = RuledOf
  BY <1>1 DEF ChargedOf, RuledOf
<1>6. CASE \/ j \in overrun \/ row'[j] = row[j]
           \/ row[j].status \in Pollable /\ row'[j].status \in Pollable
  <2>1. Life(j)' = Life(j)
    BY <1>1, <1>6 DEF Life
  <2>2. LifeOf' = LifeOf
    BY <1>4, <2>1 DEF LifeOf
  <2>3. QED
    BY <1>5, <2>2 DEF ContractStep
<1>7. CASE j \notin overrun /\ row'[j].status = "tracking_exhausted"
  <2>1. Life(j)' = "stalled"
    BY <1>1, <1>7 DEF Life, Pollable
  <2>2. LifeOf' = [LifeOf EXCEPT ![j] = "stalled"]
    BY <1>4, <2>1 DEF LifeOf
  <2>3. Contract!Stall(j)
    BY <1>3, <1>5, <1>7, <2>2 DEF Contract!Stall, LifeOf, ChargedOf, RuledOf
  <2>4. QED
    BY <2>3 DEF ContractStep, Contract!Next
<1>8. CASE /\ j \notin overrun
           /\ row'[j].status = answer /\ answer \in Verdicts
  <2>1. Life(j)' = answer
    BY <1>1, <1>8 DEF Life, Pollable, Verdicts, Terminal
  <2>2. LifeOf' = [LifeOf EXCEPT ![j] = answer]
    BY <1>4, <2>1 DEF LifeOf
  <2>3. answer \in task[t].told
    BY <1>1, <1>8 DEF PollInv
  <2>4. answer \in RuledOf[j]
    BY <1>1, <2>3 DEF RuledOf
  <2>5. Contract!Close(j, answer)
    BY <1>3, <1>5, <1>8, <2>2, <2>4 DEF Contract!Close, LifeOf, ChargedOf, RuledOf
  <2>6. QED
    BY <1>8, <2>5 DEF ContractStep, Contract!Next
<1>9. QED
  BY <1>2, <1>6, <1>7, <1>8

\* Recovery gives up a job with no task, leaves a failed one as it is, and
\* overruns any other.
LEMMA RecoverRefines ==
  ASSUME RefinementInv, NEW j \in Jobs, RecoverRow(j)
  PROVE  ContractStep
<1> USE ConstantFacts DEF RefinementInv, IInv
<1>1. /\ row'[j].status = "failed" /\ row'[j].task = row[j].task
      /\ \A i \in Jobs \ {j} : row'[i] = row[i]
      /\ row[j].status # "absent"
      /\ task' = task /\ call' = call
  BY RecoverEffect
<1>2. /\ row[j].task = None => overrun' = overrun
      /\ row[j].task # None => overrun' = overrun \cup {j}
      /\ row[j].task # None => intruders > 0
  BY RecoverEffect
<1>3. ChargedOf' = ChargedOf /\ RuledOf' = RuledOf
  BY <1>1 DEF ChargedOf, RuledOf
<1>4. \A i \in Jobs \ {j} : Life(i)' = Life(i)
  BY <1>1, <1>2 DEF Life
<1>5. row[j].status \in Pollable \cup Verdicts \cup {"tracking_exhausted"}
  BY <1>1 DEF TypeOK, Row, Statuses, Verdicts
<1>6. CASE Life(j)' = Life(j)
  <2>1. LifeOf' = LifeOf
    BY <1>4, <1>6 DEF LifeOf
  <2>2. QED
    BY <1>3, <2>1 DEF ContractStep
<1>7. CASE row[j].task = None
  <2>1. j \notin overrun /\ row[j].status \in Pollable \cup {"failed"}
    BY <1>5, <1>7 DEF OverrunInv, StatusInv, Verdicts, Terminal
  <2>2. Life(j)' = "failed"
    BY <1>1, <1>2, <1>7, <2>1 DEF Life, Pollable
  <2>3. Life(j) \in {"submitting", "failed"}
    BY <1>7, <2>1 DEF Life, Pollable
  <2>4. CASE Life(j) = "submitting"
    <3>1. /\ LifeOf[j] = "submitting"
          /\ LifeOf' = [LifeOf EXCEPT ![j] = "failed"]
      BY <1>4, <2>2, <2>4 DEF LifeOf
    <3>2. Contract!GiveUp(j)
      BY <1>3, <3>1 DEF Contract!GiveUp, LifeOf, ChargedOf, RuledOf
    <3>3. QED
      BY <3>2 DEF ContractStep, Contract!Next
  <2>5. QED
    BY <1>6, <2>2, <2>3, <2>4
<1>8. CASE row[j].task # None /\ j \in overrun
  BY <1>2, <1>6, <1>8 DEF Life
<1>9. CASE row[j].task # None /\ j \notin overrun
  <2>1. MaxIntruders > 0
    BY <1>2, <1>9, BoundsAssumption DEF TypeOK
  <2>2. Life(j)' = "overrun"
    BY <1>2, <1>9 DEF Life
  <2>3. LifeOf' = [LifeOf EXCEPT ![j] = "overrun"]
    BY <1>4, <2>2 DEF LifeOf
  <2>4. ChargedOf[j]
    BY <1>9 DEF ChargedOf, CallsInv
  <2>5. LifeOf[j] \in {"tracked", "stalled"} \cup RuledOf[j]
    BY <1>5, <1>9
       DEF LifeOf, Life, RuledOf, VerdictIsTheProviders, Pollable, Verdicts,
           Terminal
  <2>6. Contract!Overrun(j)
    BY <1>3, <2>1, <2>3, <2>4, <2>5
       DEF Contract!Overrun, LifeOf, ChargedOf, RuledOf
  <2>7. QED
    BY <2>6 DEF ContractStep, Contract!Next
<1>10. QED
  BY <1>7, <1>8, <1>9

\* The provider takes a request, perhaps of a job given up meanwhile.
LEMMA AcceptRefines ==
  ASSUME RefinementInv, NEW j \in Jobs, ProviderAccepts(j)
  PROVE  ContractStep
<1> USE ConstantFacts DEF RefinementInv, IInv
<1>1. /\ call[j].phase = "sent" /\ call[j].task = None /\ row[j].task = None
      /\ row' = row /\ overrun' = overrun /\ j \notin overrun
  BY DEF ProviderAccepts, CallsInv, history, OverrunInv
<1>2. PICK t \in Tasks : /\ t = started + 1 /\ started \in Nat
                         /\ task' = [task EXCEPT ![t] =
                              [job |-> j, state |-> "active", told |-> {}]]
  <2>1. started + 1 \in Tasks /\ started \in Nat
    BY BoundsAssumption DEF ProviderAccepts, TypeOK, Tasks
  <2>2. QED
    BY <2>1 DEF ProviderAccepts
<1>3. /\ call'[j].phase = "accepted"
      /\ \A i \in Jobs \ {j} : call'[i] = call[i]
  BY DEF ProviderAccepts, TypeOK, Call
<1>4. row[j].status \in Pollable \cup {"failed"}
  <2>1. row[j].status \notin {"absent", "tracking_exhausted", "succeeded",
                              "expired"}
    BY <1>1 DEF RowsInv, Unused, StatusInv
  <2>2. QED
    BY <2>1 DEF TypeOK, Row, Statuses, Pollable, Terminal
<1>5. LifeOf[j] \in {"submitting", "failed"}
  BY <1>1, <1>4 DEF LifeOf, Life, Pollable
<1>6. LifeOf' = LifeOf
  BY <1>1 DEF LifeOf, Life
<1>7. ~ChargedOf[j] /\ ChargedOf' = [ChargedOf EXCEPT ![j] = TRUE]
  BY <1>1, <1>3 DEF ChargedOf
<1>8. RuledOf' = RuledOf
  <2>1. \A i \in Jobs : row[i].task # None => row[i].task <= started
    BY DEF CallsInv
  <2>2. \A i \in Jobs : row[i].task # None => row[i].task \in Tasks
    BY DEF TypeOK, Row
  <2>3. \A i \in Jobs : row[i].task # None => row[i].task \in Tasks \ {t}
    BY <1>2, <2>1, <2>2
  <2>4. QED
    BY <1>1, <1>2, <2>3 DEF RuledOf
<1>9. Contract!Charge(j)
  BY <1>5, <1>6, <1>7, <1>8 DEF Contract!Charge, LifeOf, ChargedOf, RuledOf
<1>10. QED
  BY <1>9 DEF ContractStep, Contract!Next

\* The steps no client could tell from nothing.
LEMMA SilentRefines ==
  ASSUME RefinementInv,
         \/ TickStart \/ Crash \/ Start \/ Bind \/ StarterDies
         \/ UNCHANGED vars
         \/ \E j \in Jobs : ProviderRejects(j)
         \/ \E t \in Tasks, v \in Verdicts : TaskEnds(t, v)
  PROVE  UNCHANGED <<LifeOf, ChargedOf, RuledOf>>
<1> USE ConstantFacts DEF RefinementInv, IInv
<1>1. row' = row /\ overrun' = overrun
  BY DEF TickStart, Crash, Start, Bind, StarterDies, vars, ProviderRejects,
         TaskEnds, history
<1>2. \A j \in Jobs : call'[j].phase = "accepted" <=> call[j].phase = "accepted"
  <2>1. CASE Crash
    BY <2>1 DEF Crash, TypeOK, Call
  <2>2. CASE \E j \in Jobs : ProviderRejects(j)
    BY <2>2 DEF ProviderRejects, TypeOK, Call
  <2>3. CASE call' = call
    BY <2>3
  <2>4. QED
    BY <2>1, <2>2, <2>3
       DEF TickStart, Start, Bind, StarterDies, TaskEnds, vars, procVars
<1>3. \A t \in Tasks : task'[t].told = task[t].told
  <2>1. CASE \E t \in Tasks, v \in Verdicts : TaskEnds(t, v)
    BY <2>1 DEF TaskEnds, TypeOK, Task
  <2>2. CASE task' = task
    BY <2>2
  <2>3. QED
    BY <2>1, <2>2
       DEF TickStart, Crash, Start, Bind, StarterDies, ProviderRejects, vars,
           provVars
<1>4. \A j \in Jobs : Life(j)' = Life(j)
  BY <1>1 DEF Life
<1>5. \A j \in Jobs : row[j].task # None => row[j].task \in Tasks
  BY DEF TypeOK, Row
<1>6. QED
  BY <1>1, <1>2, <1>3, <1>4, <1>5, SameLives

-----------------------------------------------------------------------------
(* The refinement.                                                         *)

LEMMA StepRefines ==
  ASSUME RefinementInv, [Next]_vars
  PROVE  ContractStep
<1>1. CASE \E k \in Keys \cup {Minted} : Create(k)
  BY <1>1, SubmitRefines DEF Create, ContractStep
<1>2. CASE \E j \in Jobs, k \in Keys \cup {Minted} : Retry(j, k)
  BY <1>2, SubmitRefines DEF Retry, ContractStep
<1>3. CASE \E j \in Jobs : Settle(j) \/ WriteRefused(j) \/ Resume(j)
  BY <1>3, SettleRefines, ResumeRefines DEF ContractStep
<1>4. CASE \E j \in Jobs, t \in Tasks : Poll(j, t) \/ PollWriteRefused(j, t)
  BY <1>4, QueryRefines, PollRefines DEF Poll, PollStep
<1>5. CASE \E j \in Jobs : RecoverRow(j)
  BY <1>5, RecoverRefines
<1>6. CASE \E j \in Jobs : ProviderAccepts(j)
  BY <1>6, AcceptRefines
<1>7. CASE \/ TickStart \/ Crash \/ Start \/ Bind \/ StarterDies
           \/ UNCHANGED vars
           \/ \E j \in Jobs : ProviderRejects(j)
           \/ \E t \in Tasks, v \in Verdicts : TaskEnds(t, v)
  BY <1>7, SilentRefines DEF ContractStep
<1>8. QED
  BY <1>1, <1>2, <1>3, <1>4, <1>5, <1>6, <1>7 DEF Next

(* The server, with its lookups, awaits, ticks, crashes, refused writes    *)
(* and second starts, keeps the promise of JobContract; the promise has no *)
(* overrun jobs when there are no second starts.                           *)
THEOREM KeepsTheContract == Spec => KeepsContract
<1>1. Init => RefinementInv /\ Contract!Init
  BY InitLemma, UntoldInit, ContractInit DEF RefinementInv
<1>2. RefinementInv /\ [Next]_vars => RefinementInv'
  BY NextLemma, UntoldStep DEF RefinementInv
<1>3. RefinementInv /\ [Next]_vars => [Contract!Next]_(Contract!vars)
  BY StepRefines DEF ContractStep, Contract!vars, LifeOf, ChargedOf, RuledOf
<1>4. QED
  BY <1>1, <1>2, <1>3, PTL DEF Spec, KeepsContract, Contract!Spec
=============================================================================
