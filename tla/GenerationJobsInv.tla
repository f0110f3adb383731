------------------------- MODULE GenerationJobsInv -------------------------
(***************************************************************************)
(* The inductive invariant behind the safety properties of GenerationJobs, *)
(* in named parts.  The properties follow from it; runs of TLC check       *)
(* it on small instances and GenerationJobsProofs proves it inductive.     *)
(***************************************************************************)
EXTENDS GenerationJobs

\* Rows and calls come into being together, in creation order.
Unused(j) ==
  /\ row[j].status = "absent" /\ row[j].task = None
  /\ call[j].phase = "idle" /\ call[j].task = None /\ ~call[j].awaited
  /\ j \notin unwritten \cup doomed \cup overrun

RowsInv ==
  \A j \in Jobs : IF j > created THEN Unused(j) ELSE row[j].status # "absent"

\* A call the provider took holds the id of the task it started for it; the
\* row stores no other, and stores it only when nobody awaits the call.  Nobody
\* awaits the reply to a request in flight only after an interruption.
CallsInv ==
  \A j \in Jobs :
    /\ call[j].phase = "accepted" <=> call[j].task # None
    /\ call[j].task # None =>
         call[j].task <= started /\ task[call[j].task].job = j
    /\ row[j].task # None => row[j].task = call[j].task /\ ~call[j].awaited
    /\ call[j].phase = "sent" => call[j].awaited \/ j \in interrupted
    /\ call[j].awaited =>
         up /\ (row[j].status \in Pollable \/ j \in interrupted)

\* A task is the one its job's call got.
TasksInv ==
  \A t \in 1..started : task[t].job \in Jobs /\ call[task[t].job].task = t

\* A client's key is on one row.
KeysInv ==
  \A i, j \in 1..created :
    row[i].key = row[j].key /\ row[i].key \in Keys => i = j

\* Only a job whose task is known can have been stalled, or closed otherwise
\* than as failed.
StatusInv ==
  \A j \in Jobs :
    row[j].status \in {"tracking_exhausted", "succeeded", "expired"}
      => row[j].task # None

\* What a start has still to fail: every unsubmitted row but those created
\* after it listed them.  While the server runs its list may grow stale, but
\* only the second start of a running server has such a list.
StartInv ==
  /\ starting => Unsubmitted \subseteq doomed \cup unseen
  /\ ~starting => doomed = {}
  /\ intruders = 0 => ~(starting /\ up) /\ doomed \subseteq Unsubmitted

\* Recovery overruns only a job with a task, and such a row stays closed.
OverrunInv ==
  \A j \in overrun : row[j].status \in Terminal /\ row[j].task # None

\* A verdict waiting to be applied has been told of the task at the head of
\* the tick, and nothing waits when no tick runs.
PollInv ==
  /\ answer \in Verdicts =>
       \A p \in queue : IsHead(p[1], p[2]) => answer \in task[p[2]].told
  /\ queue = {} => answer = "none"
  /\ ~up => queue = {}

IInv ==
  /\ TypeOK /\ RowsInv /\ CallsInv /\ TasksInv /\ KeysInv /\ StatusInv
  /\ StartInv /\ OverrunInv /\ OverrunsNeedASecondStart
  /\ ListingStaysValid /\ PollInv /\ VerdictIsTheProviders
  /\ ErrorMatchesStatus /\ BudgetStartsFresh
  /\ OrphansAreExplained /\ SubmittingIsAwaited

\* Before a task's id is stored nobody asks about it, so nothing is told of it.
UntoldInv ==
  \A t \in 1..started : row[task[t].job].task # t => task[t].told = {}

\* What the refinement of JobContract rests on.
RefinementInv == IInv /\ UntoldInv
=============================================================================
