------------------------------ MODULE PaidJob ------------------------------
(***************************************************************************)
(* One job from its submission to its end over the MiniMax wire: the       *)
(* generation service and the poller on top of MinimaxAdapter.  It shows   *)
(* what the wire's replies make of a paid job's row; GenerationJobs shows  *)
(* what many jobs, clients and faults of the server do to each other.      *)
(***************************************************************************)
EXTENDS MinimaxAdapter

CONSTANTS
  MaxAttempts,   \* config.pollMaxAttempts
  MaxRestarts    \* bound: restarts of the server process

ASSUME BudgetAssumption == MaxAttempts \in Nat \ {0} /\ MaxRestarts \in Nat

Pollable == {"queued", "running"}
Closed == {"succeeded", "failed"}

VARIABLES
  status,     \* the row's status, or "absent"
  tracked,    \* the row has its provider_task_id
  error,      \* the row's error_code, or "none"
  awaiting,   \* the handler awaiting the adapter: "submit", "poll" or "none"
  failures,   \* JobPoller's count for the job
  restarts,   \* restarts so far
  streak,     \* history: consecutive polls that threw since the job was
              \* submitted or resumed, counted up to MaxAttempts
  told        \* history: the ends that replies to the job's polls told of

jobVars == <<status, tracked, error, awaiting, failures, restarts,
             streak>>
vars == <<adapterVars, jobVars, told>>

TypeOK ==
  /\ AdapterTypeOK
  /\ status \in Pollable \cup Closed \cup {"absent", "tracking_exhausted"}
  /\ tracked \in BOOLEAN
  /\ error \in Categories \cup {"none"}
  /\ awaiting \in {"none", "submit", "poll"}
  /\ failures \in 0..(MaxAttempts - 1)
  /\ restarts \in 0..MaxRestarts
  /\ streak \in 0..MaxAttempts
  /\ told \in SUBSET Closed

Init ==
  /\ AdapterInit
  /\ status = "absent" /\ tracked = FALSE /\ error = "none"
  /\ awaiting = "none" /\ failures = 0 /\ restarts = 0 /\ streak = 0
  /\ told = {}

-----------------------------------------------------------------------------
(* The generation service.                                                 *)

Submit ==
  /\ status = "absent" /\ Create
  /\ status' = "queued" /\ awaiting' = "submit"
  /\ UNCHANGED <<tracked, error, failures, restarts, streak, told>>

\* The awaiting handler goes on with the adapter's outcome.
Continue(handler) ==
  /\ awaiting = handler /\ outcome # NoOutcome
  /\ awaiting' = "none" /\ outcome' = NoOutcome
  /\ UNCHANGED <<task, call, said>>

\* The submission is settled: the task is stored, or the job has failed.
SubmitEnds ==
  /\ Continue("submit")
  /\ IF outcome.kind = "returned"
       THEN status' = outcome.status /\ tracked' = TRUE /\ UNCHANGED error
       ELSE status' = "failed" /\ error' = outcome.category /\ UNCHANGED tracked
  /\ UNCHANGED <<failures, restarts, streak, told>>

Resume ==
  /\ status = "tracking_exhausted" /\ tracked
  /\ status' = "running" /\ error' = "none"
  /\ streak' = 0
  /\ UNCHANGED <<adapterVars, tracked, awaiting, failures, restarts, told>>

-----------------------------------------------------------------------------
(* The poller.                                                             *)

Poll ==
  /\ status \in Pollable /\ tracked /\ awaiting = "none" /\ Query
  /\ awaiting' = "poll"
  /\ UNCHANGED <<status, tracked, error, failures, restarts, streak, told>>

\* Mutant: the count survives a poll that could be read.
PollReturnsNoReset ==
  /\ Continue("poll") /\ outcome.kind = "returned"
  /\ status' = outcome.status
  /\ error' = CASE outcome.category # "none" -> outcome.category
                [] outcome.category = "none" /\ outcome.status = "succeeded"
                     -> "none"
                [] OTHER -> error
  /\ streak' = 0
  /\ UNCHANGED <<tracked, failures, restarts, told>>

PollReturns ==
  /\ Continue("poll") /\ outcome.kind = "returned"
  /\ status' = outcome.status
  /\ error' = CASE outcome.category # "none" -> outcome.category
                [] outcome.category = "none" /\ outcome.status = "succeeded"
                     -> "none"
                [] OTHER -> error
  /\ failures' = 0 /\ streak' = 0
  /\ UNCHANGED <<tracked, restarts, told>>

\* Mutant: the count is not kept from one poll to the next.
PollThrowsUncounted ==
  /\ Continue("poll") /\ outcome.kind = "threw"
  /\ IF failures + 1 >= MaxAttempts
       THEN /\ status' = "tracking_exhausted"
            /\ error' = outcome.category
       ELSE UNCHANGED <<status, error>>
  /\ streak' = IF streak < MaxAttempts THEN streak + 1 ELSE streak
  /\ UNCHANGED <<tracked, failures, restarts, told>>

PollThrows ==
  /\ Continue("poll") /\ outcome.kind = "threw"
  /\ IF failures + 1 >= MaxAttempts
       THEN /\ status' = "tracking_exhausted"
            /\ error' = outcome.category
            /\ failures' = 0
       ELSE /\ failures' = failures + 1
            /\ UNCHANGED <<status, error>>
  /\ streak' = IF streak < MaxAttempts THEN streak + 1 ELSE streak
  /\ UNCHANGED <<tracked, restarts, told>>

-----------------------------------------------------------------------------
(* The wire and the provider.                                              *)

\* The ends that replies which said so much told of.
Ruling(s) ==
  {v \in Closed : IF v = "failed" THEN s \cap {"fail", "definitive"} # {}
                                 ELSE {"success", "url"} \subseteq s}

Replied == Exchange /\ told' = told \cup Ruling(said') /\ UNCHANGED jobVars

Provided == (Takes \/ Refuses \/ TaskEnds) /\ UNCHANGED <<jobVars, told>>

-----------------------------------------------------------------------------
\* The process crashes and starts again; start-up fails the row that has no
\* task.  A request on the wire is not called back: task may be "active".
Restart ==
  /\ status # "absent" /\ restarts < MaxRestarts
  /\ restarts' = restarts + 1
  /\ call' = "idle" /\ outcome' = NoOutcome
  /\ awaiting' = "none" /\ failures' = 0
  /\ IF status \in Pollable /\ ~tracked
       THEN status' = "failed" /\ error' = "provider_failure"
       ELSE UNCHANGED <<status, error>>
  /\ UNCHANGED <<task, said, tracked, streak, told>>

Next ==
  \/ Submit \/ SubmitEnds \/ Resume
  \/ Poll \/ PollReturns \/ PollThrows
  \/ Replied \/ Provided \/ Restart

Spec == Init /\ [][Next]_vars

(***************************************************************************)
(* The poller's timer fires while the row is queued or running, an         *)
(* exchange ends at the latest with the transport's timeout, the awaiting  *)
(* handler then goes on, and a task ends.                                  *)
(***************************************************************************)
Fairness ==
  /\ WF_vars(Poll)
  /\ WF_vars(Replied)
  /\ WF_vars(SubmitEnds \/ PollReturns \/ PollThrows)
  /\ WF_vars(TaskEnds /\ UNCHANGED <<jobVars, told>>)

FairSpec == Spec /\ Fairness

-----------------------------------------------------------------------------
(* A paid job is failed only on what a readable reply of its last poll     *)
(* said: the task's own failure or a definitive base_resp, however many    *)
(* timeouts, HTTP errors, rate limits, missing files, missing URLs and     *)
(* restarts came before (mapQueryResult, pollOne).                         *)
FailedOnEvidence ==
  status = "failed" /\ tracked => said \cap {"fail", "definitive"} # {}

(* A job succeeds only when its task did and its file was retrieved, with  *)
(* a URL and no base_resp error in either of the two exchanges             *)
(* (mapQueryResult).                                                       *)
SucceededIsUsable ==
  status = "succeeded"
    => /\ task = "succeeded"
       /\ {"success", "url"} \subseteq said
       /\ said \cap {"transient", "definitive"} = {}

(* A poll reads a finished task as queued or running only when the reply   *)
(* named no status the mapping knows (mapTaskStatus).                      *)
PendingMeansActive ==
  [][call = "query" /\ outcome'.status \in Pollable
       => task = "active" \/ "unknown" \in said']_vars

(* A job failed at its submission for a definitive reason (credentials,    *)
(* balance, moderation, the request) was never charged: the ambiguous ends *)
(* of a create - timeout, broken reply, no task id, restart - are all      *)
(* provider_failure (MinimaxProvider.create, toFailure).                   *)
RefusedIsFree ==
  status = "failed" /\ ~tracked /\ error \in Definitive => task = "refused"

(* Tracking stops only after MaxAttempts polls in a row threw: a poll that *)
(* could be read, and a resume, give the whole budget back, and a restart  *)
(* never shortens it (JobPoller.failures).                                 *)
StallIsEarned ==
  /\ failures <= streak
  /\ status = "tracking_exhausted" => streak = MaxAttempts

(* Nothing but a reply that names no known status keeps a paid job from    *)
(* its end: if from some time on no reply is of that kind, a tracked job   *)
(* is closed or stalled, whatever else the wire does (pollOne's bounded    *)
(* budget).                                                                *)
TrackingEnds ==
  <>[]("unknown" \notin said)
    => (tracked ~> status \in Closed \cup {"tracking_exhausted"})

-----------------------------------------------------------------------------
(* Refinement.                                                             *)

\* The life of the job, as the contract tells it.
Life ==
  IF status \notin Pollable
    THEN IF status = "tracking_exhausted" THEN "stalled" ELSE status
    ELSE IF tracked THEN "tracked" ELSE "submitting"

Contract == INSTANCE JobContract WITH
  SecondStarts <- FALSE,
  Jobs <- {1},
  Verdicts <- Closed,
  state <- [j \in {1} |-> Life],
  charged <- [j \in {1} |-> task \in {"active"} \cup Closed],
  ruled <- [j \in {1} |-> told]

(* Over the wire, too, the promise of JobContract is kept: a followed job  *)
(* is closed only as a reply told, with what the reply takes to tell it;   *)
(* whatever else comes - a base_resp that passes, an HTTP error, a timeout,*)
(* a file that is missing, a restart - leaves it tracked or stalled, and   *)
(* only a job whose create brought no task id is given up (pollOne,        *)
(* mapQueryResult, MinimaxProvider.create).                                *)
PaidJobKeepsContract == Contract!Spec
=============================================================================
