---------------------------- MODULE JobContract ----------------------------
(***************************************************************************)
(* What the generation service promises about a job, seen from outside:    *)
(* nothing of idempotency lookups, database writes, polling or restarts.   *)
(* A job is opened, the provider may charge for it once, and it is then    *)
(* either followed to the provider's verdict or given up while nobody      *)
(* knows a task for it.  A job that is followed can stall and resume, but  *)
(* only a verdict closes it, and a closed job stays closed.  The promise   *)
(* about a job ends when the server is started a second time while it runs *)
(* and the start takes the job for an interrupted one.                     *)
(***************************************************************************)
CONSTANTS Jobs,      \* the jobs that can ever be opened
          Verdicts,  \* what the provider can finally say of a task
          SecondStarts   \* may the server be started while it runs?
                         \* (a boolean)

VARIABLES state,     \* state[j]: the life of job j
          charged,   \* charged[j]: the provider runs a paid task for job j
          ruled      \* ruled[j]: the verdicts the provider has given on j

vars == <<state, charged, ruled>>

TypeOK ==
  /\ state \in [Jobs -> {"absent", "submitting", "tracked", "stalled",
                         "failed", "overrun"} \cup Verdicts]
  /\ charged \in [Jobs -> BOOLEAN]
  /\ ruled \in [Jobs -> SUBSET Verdicts]

Init ==
  /\ state = [j \in Jobs |-> "absent"]
  /\ charged = [j \in Jobs |-> FALSE]
  /\ ruled = [j \in Jobs |-> {}]

(* A new job is opened for a request. *)
Open(j) ==
  /\ state[j] = "absent"
  /\ state' = [state EXCEPT ![j] = "submitting"]
  /\ UNCHANGED <<charged, ruled>>

(* The provider takes the job's one request.  It may do so after the job
   was given up: nothing can call a request back. *)
Charge(j) ==
  /\ state[j] \in {"submitting", "failed"}
  /\ ~charged[j]
  /\ charged' = [charged EXCEPT ![j] = TRUE]
  /\ UNCHANGED <<state, ruled>>

(* The job's own task becomes known and is followed from here on. *)
Track(j) ==
  /\ state[j] = "submitting"
  /\ charged[j]
  /\ state' = [state EXCEPT ![j] = "tracked"]
  /\ UNCHANGED <<charged, ruled>>

(* A job with no known task is given up, by a refused or lost submission or
   by the recovery at start-up. *)
GiveUp(j) ==
  /\ state[j] = "submitting"
  /\ state' = [state EXCEPT ![j] = "failed"]
  /\ UNCHANGED <<charged, ruled>>

(* The provider rules on a task that is followed. *)
Rule(j, v) ==
  /\ state[j] \in {"tracked", "overrun"}
  /\ ruled' = [ruled EXCEPT ![j] = @ \cup {v}]
  /\ UNCHANGED <<state, charged>>

(* The ruling closes the job. *)
Close(j, v) ==
  /\ state[j] = "tracked"
  /\ v \in ruled[j]
  /\ state' = [state EXCEPT ![j] = v]
  /\ UNCHANGED <<charged, ruled>>

(* The provider could not be read: the job pauses, it is not closed. *)
Stall(j) ==
  /\ state[j] = "tracked"
  /\ state' = [state EXCEPT ![j] = "stalled"]
  /\ UNCHANGED <<charged, ruled>>

(* The same task is followed again; nothing is charged. *)
Resume(j) ==
  /\ state[j] = "stalled"
  /\ state' = [state EXCEPT ![j] = "tracked"]
  /\ UNCHANGED <<charged, ruled>>

(* A second start gives up a job it wrongly takes for one with no task,
   whatever has become of it: all that is promised of it from now on is that
   it is not charged again. *)
Overrun(j) ==
  /\ SecondStarts
  /\ charged[j]
  /\ state[j] \in {"tracked", "stalled"} \cup ruled[j]
  /\ state' = [state EXCEPT ![j] = "overrun"]
  /\ UNCHANGED <<charged, ruled>>

Next ==
  \/ \E j \in Jobs : Open(j) \/ Charge(j) \/ Track(j) \/ GiveUp(j)
                       \/ Stall(j) \/ Resume(j) \/ Overrun(j)
  \/ \E j \in Jobs, v \in Verdicts : Rule(j, v) \/ Close(j, v)

Spec == Init /\ [][Next]_vars
=============================================================================
