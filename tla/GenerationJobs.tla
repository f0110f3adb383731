--------------------------- MODULE GenerationJobs ---------------------------
(***************************************************************************)
(* The server's generation jobs: the job rows in SQLite, the submissions   *)
(* the generation service is awaiting, the in-process poller and the video *)
(* provider outside, across faults: crashes and restarts, lost replies,    *)
(* failing database writes, a second start of the server on the database   *)
(* of a running one.                                                       *)
(*                                                                         *)
(* A step of the process is the code between two awaits: node runs it      *)
(* without interruption and node:sqlite is synchronous, so a lookup and    *)
(* the insert that follows it are one step, and a call to the provider and *)
(* the recording of its answer are two.  Two processes interleave at every *)
(* statement: start-up reads the rows to recover in one statement and      *)
(* fails each of them in another.                                          *)
(***************************************************************************)
EXTENDS Naturals

CONSTANTS
  Keys,          \* idempotency keys the clients choose
  Minted,        \* stands for every key the server mints itself (newId)
  MaxAttempts,   \* config.pollMaxAttempts
  Unreadable,    \* may the provider answer a query in terms the mapping
                 \* does not know?  (a boolean)
  MaxJobs,       \* bound: jobs ever created
  MaxTasks,      \* bound: tasks the provider ever starts
  MaxCrashes,    \* bound: crashes of a server process
  MaxDbFaults,   \* bound: database writes that throw
  MaxIntruders   \* bound: starts of the server while it is running

ASSUME KeysAssumption == Minted \notin Keys
ASSUME BudgetAssumption == MaxAttempts \in Nat \ {0}
ASSUME UnreadableAssumption == Unreadable \in BOOLEAN
ASSUME BoundsAssumption ==
  /\ MaxJobs \in Nat /\ MaxTasks \in Nat
  /\ MaxCrashes \in Nat /\ MaxDbFaults \in Nat /\ MaxIntruders \in Nat

Jobs == 1..MaxJobs     \* in creation order, so the order of created_at
Tasks == 1..MaxTasks   \* in the order the provider starts them
None == 0              \* no task

Pollable == {"queued", "running"}
Terminal == {"succeeded", "failed", "expired"}
Verdicts == Terminal
Statuses == Pollable \cup Terminal \cup {"tracking_exhausted"}

VARIABLES
  (* the database *)
  created,      \* number of rows: row[j] exists for j <= created
  row,          \* row[j]: the columns of generation_jobs the control reads
  (* the server process *)
  up,           \* the process is running
  call,         \* call[j]: the provider.create of job j, and who awaits it
  queue,        \* rows the current tick has still to poll; {}: no tick runs
  answer,       \* what the query of the first of them returned, or "none"
  failures,     \* JobPoller.failures
  (* the provider *)
  started,      \* number of tasks: task[t] exists for t <= started
  task,         \* task[t]: whose it is, how it goes, the verdicts it told
  (* the process that is starting, of which there is one at a time *)
  starting,     \* there is one, and it has not tried to bind yet
  doomed,       \* rows it has found unsubmitted and has still to fail
  (* the environment *)
  crashes, dbFaults, intruders,
  (* history *)
  interrupted,  \* jobs whose submission was cut off before its reply was
                \* recorded
  unwritten,    \* jobs whose submission ended in a refused write
  unseen,       \* jobs created while another process was starting
  overrun       \* jobs failed by the recovery when their task was known

procVars == <<up, call, queue, answer, failures>>
provVars == <<started, task>>
startVars == <<starting, doomed>>
faultVars == <<crashes, dbFaults, intruders>>
envVars == <<startVars, faultVars>>
history == <<interrupted, unwritten, unseen, overrun>>
vars == <<created, row, procVars, provVars, envVars, history>>

-----------------------------------------------------------------------------
Row == [status : Statuses \cup {"absent"}, key : Keys \cup {Minted},
        task : Tasks \cup {None}, result : BOOLEAN, error : BOOLEAN]

Call == [phase : {"idle", "sent", "accepted", "rejected"},
         awaited : BOOLEAN, task : Tasks \cup {None}]

Task == [job : Jobs \cup {None},
         state : {"absent", "active"} \cup Verdicts,
         told : SUBSET Verdicts]

Answers == Pollable \cup Verdicts \cup {"throws"}

TypeOK ==
  /\ created \in 0..MaxJobs
  /\ row \in [Jobs -> Row]
  /\ up \in BOOLEAN
  /\ call \in [Jobs -> Call]
  /\ queue \in SUBSET (Jobs \X Tasks)
  /\ answer \in Answers \cup {"none"}
  /\ failures \in [Jobs -> 0..(MaxAttempts - 1)]
  /\ started \in 0..MaxTasks
  /\ task \in [Tasks -> Task]
  /\ starting \in BOOLEAN
  /\ doomed \in SUBSET Jobs
  /\ crashes \in 0..MaxCrashes
  /\ dbFaults \in 0..MaxDbFaults
  /\ intruders \in 0..MaxIntruders
  /\ interrupted \in SUBSET Jobs
  /\ unwritten \in SUBSET Jobs
  /\ unseen \in SUBSET Jobs
  /\ overrun \in SUBSET Jobs

NoRow == [status |-> "absent", key |-> Minted, task |-> None,
          result |-> FALSE, error |-> FALSE]

NoCall == [phase |-> "idle", awaited |-> FALSE, task |-> None]

Init ==
  /\ created = 0
  /\ row = [j \in Jobs |-> NoRow]
  /\ up = TRUE
  /\ call = [j \in Jobs |-> NoCall]
  /\ queue = {}
  /\ answer = "none"
  /\ failures = [j \in Jobs |-> 0]
  /\ started = 0
  /\ task = [t \in Tasks |-> [job |-> None, state |-> "absent", told |-> {}]]
  /\ starting = FALSE /\ doomed = {}
  /\ crashes = 0 /\ dbFaults = 0 /\ intruders = 0
  /\ interrupted = {} /\ unwritten = {} /\ unseen = {} /\ overrun = {}

-----------------------------------------------------------------------------
(* The job repository.                                                     *)

\* Mutant: no compare-and-set.
WritableAlways(old, new) == TRUE

\* Mutant: the compare-and-set forgets the queued rows.
WritableRunning(old, new) == new.status \in Terminal \/ old.status = "running"

\* A terminal status is written unconditionally, any other only on a row
\* that is itself queued or running.
Writable(old, new) == new.status \in Terminal \/ old.status \in Pollable

\* updateStatus, with the row it is to leave.
UpdateStatus(j, new) ==
  row' = [row EXCEPT ![j] = IF Writable(@, new) THEN new ELSE @]

NewRow(k) == [status |-> "queued", key |-> k, task |-> None,
              result |-> FALSE, error |-> FALSE]

TrackedRow(j, t) ==
  [row[j] EXCEPT !.status = "queued", !.task = t, !.result = FALSE]

FailedRow(j) == [row[j] EXCEPT !.status = "failed", !.error = TRUE]

\* Rows left queued or running with no task.
Unsubmitted == {j \in Jobs : row[j].status \in Pollable /\ row[j].task = None}

\* Mutant: a closed job gives its key back.
KeyIsReusable(k) ==
  \A j \in Jobs :
     j <= created /\ row[j].key = k /\ row[j].status \notin Terminal
       => k = Minted

\* findByIdempotencyKey finds nothing; a minted key is never found.
KeyIsFree(k) == \A j \in Jobs : j <= created /\ row[j].key = k => k = Minted

-----------------------------------------------------------------------------
(* The generation service.  A request whose key is taken changes nothing:  *)
(* it is answered with the row (same payload) or with 409 (another one).   *)

NewCall == [phase |-> "sent", awaited |-> TRUE, task |-> None]

\* The row is inserted and the provider is called with no await in between.
Submit(k) ==
  LET j == created + 1 IN
  /\ created < MaxJobs
  /\ created' = j
  /\ row' = [row EXCEPT ![j] = NewRow(k)]
  /\ call' = [call EXCEPT ![j] = NewCall]
  /\ unseen' = IF starting THEN unseen \cup {j} ELSE unseen
  /\ UNCHANGED <<up, queue, answer, failures, provVars, envVars, interrupted,
                 unwritten, overrun>>

Create(k) == up /\ KeyIsFree(k) /\ Submit(k)

\* Regenerate: a new job for a failed or expired one, under the caller's token.
Retry(j, k) ==
  /\ up
  /\ row[j].status \in {"failed", "expired"}
  /\ KeyIsFree(k)
  /\ Submit(k)

\* The awaited call of job j returns or throws: the handler goes on.
Settled(j) == call' = [call EXCEPT ![j].awaited = FALSE]

\* Mutant: the row gets the provider's latest task.
RecordLatestTask(j) ==
  /\ up /\ call[j].awaited /\ call[j].phase = "accepted"
  /\ UpdateStatus(j, TrackedRow(j, started))
  /\ Settled(j)
  /\ UNCHANGED <<created, up, queue, answer, failures, provVars, envVars,
                 history>>

\* The provider's reply arrives and its task id is stored.
RecordTask(j) ==
  /\ up /\ call[j].awaited /\ call[j].phase = "accepted"
  /\ UpdateStatus(j, TrackedRow(j, call[j].task))
  /\ Settled(j)
  /\ UNCHANGED <<created, up, queue, answer, failures, provVars, envVars,
                 history>>

\* The provider refuses the request.
RecordRejection(j) ==
  /\ up /\ call[j].awaited /\ call[j].phase = "rejected"
  /\ UpdateStatus(j, FailedRow(j))
  /\ Settled(j)
  /\ UNCHANGED <<created, up, queue, answer, failures, provVars, envVars,
                 history>>

\* The call times out, the connection breaks, or the reply has no task id:
\* the service cannot tell whether the provider took the request.
ReplyLost(j) ==
  /\ up /\ call[j].awaited /\ call[j].phase \in {"sent", "accepted"}
  /\ UpdateStatus(j, FailedRow(j))
  /\ Settled(j)
  /\ interrupted' = interrupted \cup {j}
  /\ UNCHANGED <<created, up, queue, answer, failures, provVars, envVars,
                 unwritten, unseen, overrun>>

\* The database refuses the write after the call.  The one that stores the
\* task id is inside the try block, so the job is then marked failed; when
\* that write is refused as well the row stays as it was.
WriteRefused(j) ==
  /\ up /\ call[j].awaited
  /\ dbFaults < MaxDbFaults
  /\ dbFaults' = dbFaults + 1
  /\ \/ call[j].phase = "accepted" /\ UpdateStatus(j, FailedRow(j))
     \/ UNCHANGED row
  /\ Settled(j)
  /\ interrupted' = interrupted \cup {j}
  /\ unwritten' = unwritten \cup {j}
  /\ UNCHANGED <<created, up, queue, answer, failures, provVars, startVars,
                 crashes, intruders, unseen, overrun>>

\* Mutant: an expired job is resumed too.
ResumeExpired(j) ==
  /\ up
  /\ row[j].status \in {"tracking_exhausted", "expired"}
  /\ row[j].task # None
  /\ row' = [row EXCEPT ![j].status = "running", ![j].error = FALSE]
  /\ UNCHANGED <<created, procVars, provVars, envVars, history>>

\* Resume a stalled job: the poller takes its stored task up again.
Resume(j) ==
  /\ up
  /\ row[j].status = "tracking_exhausted" /\ row[j].task # None
  /\ row' = [row EXCEPT ![j].status = "running", ![j].error = FALSE]
  /\ UNCHANGED <<created, procVars, provVars, envVars, history>>

-----------------------------------------------------------------------------
(* The poller.  A tick runs only while no other does; it polls the rows it *)
(* listed one after the other, oldest first, and awaits each query.        *)

Listed == {<<j, row[j].task>> : j \in {i \in Jobs :
             row[i].status \in Pollable /\ row[i].task # None}}

IsHead(j, t) == <<j, t>> \in queue /\ \A p \in queue : j <= p[1]

\* Mutant: each tick counts failures anew.
TickStartForgetful ==
  /\ up /\ queue = {}
  /\ Listed # {}
  /\ queue' = Listed
  /\ failures' = [j \in Jobs |-> 0]
  /\ UNCHANGED <<created, row, up, call, answer, provVars, envVars, history>>

TickStart ==
  /\ up /\ queue = {}
  /\ Listed # {}
  /\ queue' = Listed
  /\ UNCHANGED <<created, row, up, call, answer, failures, provVars, envVars,
                 history>>

\* What the query of task t may give: its progress or its outcome; a failure
\* to read it, which throws; a definitive error, which reads as failed; or,
\* from a reply the mapping does not know, "running".
Readings(t) ==
  {"throws", "failed"}
    \cup (IF task[t].state = "active" THEN Pollable ELSE {task[t].state})
    \cup (IF Unreadable THEN {"running"} ELSE {})

QueryAnswered(j, t, a) ==
  /\ up /\ IsHead(j, t) /\ answer = "none"
  /\ a \in Readings(t)
  /\ answer' = a
  /\ task' = IF a \in Verdicts
               THEN [task EXCEPT ![t].told = @ \cup {a}] ELSE task
  /\ UNCHANGED <<created, row, up, call, queue, failures, started, envVars,
                 history>>

\* The row pollOne writes for a status the query returned.
AnsweredRow(j, a) ==
  [row[j] EXCEPT !.status = a,
                 !.result = IF a = "succeeded" THEN TRUE ELSE @,
                 !.error = CASE a \in {"failed", "expired"} -> TRUE
                             [] a = "succeeded" -> FALSE
                             [] OTHER -> @]

\* Mutant: an exhausted budget closes the job.
StalledRowFailed(j) == FailedRow(j)

StalledRow(j) ==
  [row[j] EXCEPT !.status = "tracking_exhausted", !.error = TRUE]

\* The n-th consecutive failure uses up the budget.
Exhausts(n) == n >= MaxAttempts

PolledOne(j, t) == queue' = queue \ {<<j, t>>} /\ answer' = "none"

ApplyAnswer(j, t) ==
  /\ up /\ IsHead(j, t) /\ answer \in Pollable \cup Verdicts
  /\ UpdateStatus(j, AnsweredRow(j, answer))
  /\ failures' = [failures EXCEPT ![j] = 0]
  /\ PolledOne(j, t)
  /\ UNCHANGED <<created, up, call, provVars, envVars, history>>

\* The catch block, for the n-th consecutive failure of job j.
PollFailed(j, n) ==
  IF Exhausts(n)
    THEN /\ UpdateStatus(j, StalledRow(j))
         /\ failures' = [failures EXCEPT ![j] = 0]
    ELSE /\ UNCHANGED row
         /\ failures' = [failures EXCEPT ![j] = n]

CountFailure(j, t) ==
  /\ up /\ IsHead(j, t) /\ answer = "throws"
  /\ PollFailed(j, failures[j] + 1)
  /\ PolledOne(j, t)
  /\ UNCHANGED <<created, up, call, provVars, envVars, history>>

\* The database refuses the poller's write.  Storing an answer is inside the
\* try block, after the reset, so its failure counts as the first of a new
\* series; the write that stalls a job is not, and its failure ends the tick.
PollWriteRefused(j, t) ==
  /\ up /\ IsHead(j, t) /\ answer # "none"
  /\ dbFaults < MaxDbFaults
  /\ dbFaults' = dbFaults + 1
  /\ \/ /\ answer # "throws"
        /\ PollFailed(j, 1)
        /\ PolledOne(j, t)
     \/ /\ Exhausts(IF answer = "throws" THEN failures[j] + 1 ELSE 1)
        /\ failures' = [failures EXCEPT ![j] = 0]
        /\ queue' = {} /\ answer' = "none"
        /\ UNCHANGED row
  /\ UNCHANGED <<created, up, call, provVars, startVars, crashes, intruders,
                 history>>

-----------------------------------------------------------------------------
(* Process life cycle.                                                     *)

Awaited == {j \in Jobs : call[j].awaited}

\* Everything in memory is lost; a request already sent is not.
Crash ==
  /\ up /\ crashes < MaxCrashes
  /\ crashes' = crashes + 1
  /\ up' = FALSE
  /\ call' = [j \in Jobs |-> [call[j] EXCEPT !.awaited = FALSE]]
  /\ queue' = {} /\ answer' = "none"
  /\ failures' = [j \in Jobs |-> 0]
  /\ interrupted' = interrupted \cup Awaited
  /\ UNCHANGED <<created, row, provVars, startVars, dbFaults, intruders,
                 unwritten, unseen, overrun>>

\* The platform restarts the server, or somebody starts another.
Starts ==
  /\ ~starting
  /\ \/ ~up /\ UNCHANGED intruders
     \/ /\ up /\ intruders < MaxIntruders
        /\ intruders' = intruders + 1
  /\ starting' = TRUE

\* Mutant: no recovery at start-up.
StartBlindly ==
  /\ Starts
  /\ UNCHANGED <<created, row, procVars, provVars, doomed, crashes, dbFaults,
                 history>>

\* recoverUnsubmitted lists the unsubmitted rows, in one statement.
Start ==
  /\ Starts
  /\ doomed' = Unsubmitted
  /\ UNCHANGED <<created, row, procVars, provVars, crashes, dbFaults, history>>

\* It fails each of them, in a statement of its own that looks at nothing but
\* the id: a server running meanwhile may have stored the job's task by now.
RecoverRow(j) ==
  /\ j \in doomed
  /\ doomed' = doomed \ {j}
  /\ row' = [row EXCEPT ![j] = FailedRow(j)]
  /\ interrupted' = interrupted \cup ({j} \cap Unsubmitted)
  /\ overrun' = IF row[j].task = None THEN overrun ELSE overrun \cup {j}
  /\ UNCHANGED <<created, procVars, provVars, starting, faultVars, unwritten,
                 unseen>>

\* The process binds and starts the poller; or the port is taken and it exits.
Bind ==
  /\ starting /\ doomed = {}
  /\ starting' = FALSE
  /\ up' = TRUE
  /\ UNCHANGED <<created, row, call, queue, answer, failures, provVars, doomed,
                 faultVars, history>>

\* The process dies before it binds, as it does of a statement that throws.
StarterDies ==
  /\ starting /\ crashes < MaxCrashes
  /\ crashes' = crashes + 1
  /\ starting' = FALSE /\ doomed' = {}
  /\ UNCHANGED <<created, row, procVars, provVars, dbFaults, intruders, history>>

-----------------------------------------------------------------------------
(* The provider, which is external: it takes or refuses each request once, *)
(* even when nobody awaits the reply any more, and each task ends.         *)

ProviderAccepts(j) ==
  LET t == started + 1 IN
  /\ call[j].phase = "sent"
  /\ started < MaxTasks
  /\ started' = t
  /\ task' = [task EXCEPT ![t] = [job |-> j, state |-> "active", told |-> {}]]
  /\ call' = [call EXCEPT ![j].phase = "accepted", ![j].task = t]
  /\ UNCHANGED <<created, row, up, queue, answer, failures, envVars,
                 history>>

ProviderRejects(j) ==
  /\ call[j].phase = "sent"
  /\ call' = [call EXCEPT ![j].phase = "rejected"]
  /\ UNCHANGED <<created, row, up, queue, answer, failures, provVars,
                 envVars, history>>

TaskEnds(t, v) ==
  /\ task[t].state = "active"
  /\ task' = [task EXCEPT ![t].state = v]
  /\ UNCHANGED <<created, row, procVars, started, envVars, history>>

-----------------------------------------------------------------------------
Settle(j) == RecordTask(j) \/ RecordRejection(j) \/ ReplyLost(j)

Poll(j, t) ==
  \/ \E a \in Answers : QueryAnswered(j, t, a)
  \/ ApplyAnswer(j, t)
  \/ CountFailure(j, t)

Next ==
  \/ \E k \in Keys \cup {Minted} : Create(k)
  \/ \E j \in Jobs, k \in Keys \cup {Minted} : Retry(j, k)
  \/ \E j \in Jobs : Settle(j) \/ WriteRefused(j) \/ Resume(j)
  \/ TickStart
  \/ \E j \in Jobs, t \in Tasks : Poll(j, t) \/ PollWriteRefused(j, t)
  \/ Crash \/ Start \/ Bind \/ StarterDies
  \/ \E j \in Jobs : RecoverRow(j)
  \/ \E j \in Jobs : ProviderAccepts(j) \/ ProviderRejects(j)
  \/ \E t \in Tasks, v \in Verdicts : TaskEnds(t, v)

Spec == Init /\ [][Next]_vars

(***************************************************************************)
(* The interval timer keeps ticking, a call and a query always settle (the *)
(* transport aborts after its timeout), the platform restarts a process    *)
(* that is gone, start-up runs to its end, and a task the provider has     *)
(* started ends.  No request is ever owed.                                 *)
(***************************************************************************)
Fairness ==
  /\ WF_vars(~up /\ Start)
  /\ WF_vars(Bind \/ \E j \in Jobs : RecoverRow(j))
  /\ WF_vars(TickStart)
  /\ \A j \in Jobs : WF_vars(Settle(j))
  /\ \A j \in Jobs, t \in Tasks : WF_vars(Poll(j, t))
  /\ \A t \in Tasks : WF_vars(\E v \in Verdicts : TaskEnds(t, v))

FairSpec == Spec /\ Fairness

-----------------------------------------------------------------------------
(* Safety.                                                                 *)

(* An idempotency key buys one generation: whatever clients repeat, retry  *)
(* or regenerate under it, and whatever crashes in between, the provider   *)
(* starts at most one task for it (generationService.create, the UNIQUE    *)
(* column idempotency_key).                                                *)
OneGenerationPerKey ==
  \A t, u \in 1..started :
     /\ row[task[t].job].key = row[task[u].job].key
     /\ row[task[t].job].key \in Keys
     => t = u

(* The task a row stores, and the poller follows, is the one the provider  *)
(* started for that very row: two submissions awaited together never cross *)
(* (generationService.create, the await at lines 161-174).                 *)
OwnTask ==
  \A j \in Jobs : row[j].task # None => task[row[j].task].job = j

(* A job whose task is known is closed only by what the provider said of   *)
(* that task: no crash, no unreadable or failing query, no refused write   *)
(* and no restart ends a paid job (poller.pollOne, updateStatus).  The one *)
(* exception is the recovery of a second start, which may fail a row whose *)
(* task came to be known after it had listed it (recoverUnsubmitted).      *)
VerdictIsTheProviders ==
  \A j \in Jobs :
     row[j].task # None /\ row[j].status \in Terminal
       => \/ row[j].status \in task[row[j].task].told
          \/ row[j].status = "failed" /\ j \in overrun

(* Recovery overruns no job unless the server was started while it ran:    *)
(* the list of a restart is still right when its rows are failed, however  *)
(* long that takes and however often it dies (boot, recoverUnsubmitted).   *)
OverrunsNeedASecondStart == overrun # {} => intruders > 0

(* A row a tick listed is still queued or running, with the same task,     *)
(* when its turn comes, however long the queries before it took, unless a  *)
(* second start failed it meanwhile: short of that the poller's            *)
(* unconditional terminal write never hits a closed row (poller.tick,      *)
(* updateStatus).                                                          *)
ListingStaysValid ==
  \A p \in queue :
     /\ row[p[1]].status \in Pollable \/ p[1] \in overrun
     /\ row[p[1]].task = p[2]

(* The error columns tell a failed, expired or stalled row from any other, *)
(* also after a resume and after a poll that succeeds at last; a succeeded *)
(* row has a result, and no other has unless a second start failed it      *)
(* (pollOne, resumeTracking, toFailure, recoverUnsubmitted).               *)
ErrorMatchesStatus ==
  \A j \in Jobs :
     /\ row[j].error <=> row[j].status \in {"failed", "expired",
                                            "tracking_exhausted"}
     /\ row[j].status = "succeeded" => row[j].result
     /\ row[j].result => row[j].status = "succeeded" \/ j \in overrun

(* Only a row the poller follows has failures on its account, so a resumed *)
(* job, like a new one, starts with the whole attempt budget (the failures *)
(* map of JobPoller against the rows it is keyed by).  A row failed by a   *)
(* second start while a tick polled it is never followed again.            *)
BudgetStartsFresh ==
  \A j \in Jobs :
     failures[j] > 0 =>
       \/ row[j].status \in Pollable /\ row[j].task # None
       \/ j \in overrun /\ row[j].status \in Terminal

(* The provider runs a paid task that no row knows only when the job's     *)
(* submission was cut off: by a crash, a lost reply, a refused write or a  *)
(* second start of the server (the boundary server.ts:76-81 describes).    *)
OrphansAreExplained ==
  \A t \in 1..started :
     LET j == task[t].job IN
     row[j].task = t \/ call[j].awaited \/ j \in interrupted

(* While the server runs, a queued or running row with no task is being    *)
(* submitted, so it is not stuck where neither the poller (which skips it) *)
(* nor a resume can reach it; the exceptions are a row whose last write    *)
(* the database refused, and one created behind the back of a process that *)
(* was starting and took over after a crash (tick's skip, create,          *)
(* recoverUnsubmitted).                                                    *)
SubmittingIsAwaited ==
  \A j \in Unsubmitted :
     up => call[j].awaited \/ j \in unwritten \/ j \in unseen

(* A closed job stays closed, and a stored task id is never lost or        *)
(* replaced (updateStatus, resumeTracking); only a row that the recovery   *)
(* of a second start has failed over its task may change once more         *)
(* (recoverUnsubmitted).                                                   *)
ClosedStaysClosed ==
  [][\A j \in Jobs :
       /\ row[j].status \in Terminal /\ j \notin overrun'
            => row'[j].status = row[j].status
       /\ row[j].task # None => row'[j].task = row[j].task]_vars

-----------------------------------------------------------------------------
(* Liveness.                                                               *)

\* The write that would have ended the submission was refused, or the start
\* that would have recovered the row had listed its rows before.
Stranded(j) == j \in Unsubmitted /\ (j \in unwritten \/ j \in unseen)

(* Every job leaves queued/running: it is given up, closed or stalled,     *)
(* across crashes, resumes and the queries of other jobs that throw.  Left *)
(* out are the rows a refused write or a takeover stranded, until the next *)
(* start.                                                                  *)
EveryJobSettles ==
  \A j \in Jobs :
     (row[j].status \in Pollable)
       ~> (row[j].status \notin Pollable \/ Stranded(j))

-----------------------------------------------------------------------------
(* Refinement.                                                             *)

\* The life of job j, as the contract tells it.
Life(j) ==
  IF j \in overrun THEN "overrun"
  ELSE IF row[j].status \notin Pollable
    THEN IF row[j].status = "tracking_exhausted" THEN "stalled"
                                                 ELSE row[j].status
    ELSE IF row[j].task = None THEN "submitting" ELSE "tracked"

Contract == INSTANCE JobContract WITH
  SecondStarts <- MaxIntruders > 0,
  state <- [j \in Jobs |-> Life(j)],
  charged <- [j \in Jobs |-> call[j].phase = "accepted"],
  ruled <- [j \in Jobs |-> IF row[j].task = None THEN {}
                           ELSE task[row[j].task].told]

(* The whole of it - lookups, awaits, ticks, faults - keeps the promise of *)
(* JobContract: each step is a step of one job's life there, or nothing.   *)
KeepsContract == Contract!Spec

-----------------------------------------------------------------------------
(* What comments in the code say and the code does not do.                 *)

(* "a queued/running row with no provider task means the process was       *)
(* interrupted before/during submission", server.ts:72-73: recovery never  *)
(* fails a job whose submission a live process is awaiting.                *)
RecoversOnlyInterrupted ==
  \A j \in Jobs : call[j].awaited => row[j].status \in Pollable
=============================================================================
