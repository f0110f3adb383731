----------------------------- MODULE Submissions -----------------------------
(***************************************************************************)
(* What is in a submission, and what becomes of it in mock mode: requests  *)
(* are validated, rendered and compared by key and payload; the mock       *)
(* provider follows a script and forgets everything at a restart; a closed *)
(* job is regenerated from the parameters its row keeps.  The mock answers *)
(* at once, so a submission and a poll are one step each (GenerationJobs   *)
(* splits both at their awaits).                                           *)
(***************************************************************************)
EXTENDS Naturals

CONSTANTS
  Values,       \* what the template's variables may be given
  Incomplete,   \* the values that leave a variable of the template blank
  Cued,         \* overrides: texts with camera cues, within the limit
  Keys,         \* idempotency keys
  Durations, Resolutions,   \* of the clips clients ask for
  Asked,        \* the scenarios they may name, or None
  None,         \* nothing
  Jobs,         \* bound: rows; job 1 may be a row of the first build
  MaxRestarts   \* bound: restarts

ASSUME ConstantsAssumption ==
  /\ Incomplete \subseteq Values /\ None \notin Values \cup Cued \cup Keys \cup Jobs
  /\ "blank" \notin Cued /\ Jobs \subseteq Nat /\ MaxRestarts \in Nat
ASSUME ScenariosAssumption ==
  Asked \subseteq {"success", "failure", "expired", "slow", "provider_error", None}

Blank == "blank"   \* an override of white space, or empty
Scenarios == {"success", "failure", "expired", "slow", "provider_error"}

\* A clip's duration and resolution.
MINIMAX_DURATIONS == {6, 10}
MINIMAX_RESOLUTIONS == {"768P", "1080P"}

Requests == [values : Values, prompt : Cued \cup {Blank, None},
             clip : Durations \X Resolutions, mockScenario : Asked]

\* The first build made clips the model of today does not.
LegacyRequests == [values : Values \ Incomplete, prompt : {None},
                   clip : {<<5, "720P">>}, mockScenario : {None}]

Texts == Values \cup Cued   \* the template rendered, or the override
Ids == (0..MaxRestarts) \X (Nat \ {0})   \* of tasks: the process, and a number

VARIABLES
  rows,            \* the rows of generation_jobs
  instancePrefix,  \* of the provider of the running process
  counter, tasks,  \* its memory
  defaultScenario,
  reply,           \* the last job answered, and the text that was asked for
  took             \* history: what each task was taken with

provider == <<instancePrefix, counter, tasks, defaultScenario, took>>
vars == <<rows, provider, reply>>

\* from: history, the job a job regenerates.
Row == [status : {"queued", "running", "succeeded", "failed", "expired"},
        key : Keys \cup {None}, parameters : Requests \cup LegacyRequests,
        renderedPrompt : Texts, task : Ids \cup {None},
        resultUrl : Texts \cup {None}, from : Jobs \cup {None}]

Absent == [status |-> "absent"]

Task == [scenario : Scenarios \ {"provider_error"}, queries : Nat,
         renderedPrompt : Texts]

TypeOK ==
  /\ rows \in [Jobs -> Row \cup {Absent}]
  /\ reply \in {[job |-> None]} \cup [job : Jobs, text : Texts]
  /\ instancePrefix \in 0..MaxRestarts /\ counter \in Nat
  /\ tasks \in [{instancePrefix} \X (1..counter) -> Task]
  /\ defaultScenario \in Scenarios
  /\ DOMAIN took \subseteq Ids

LegacyRow(r) ==
  [status |-> "failed", key |-> None, parameters |-> r,
   renderedPrompt |-> r.values, task |-> None, resultUrl |-> None, from |-> None]

Init ==
  /\ rows \in {[j \in Jobs |-> IF j = 1 THEN r ELSE Absent] :
                 r \in {Absent} \cup {LegacyRow(r) : r \in LegacyRequests}}
  /\ instancePrefix = 0 /\ counter = 0 /\ tasks = <<>>
  /\ defaultScenario = "success"
  /\ reply = [job |-> None] /\ took = <<>>

-----------------------------------------------------------------------------
(* The request.                                                            *)

isDurationResolutionCompatible(duration, resolution) ==
  ~(duration = 10 /\ resolution = "1080P")

\* createGenerationSchema
Valid(r) ==
  /\ r.clip[1] \in MINIMAX_DURATIONS /\ r.clip[2] \in MINIMAX_RESOLUTIONS
  /\ isDurationResolutionCompatible(r.clip[1], r.clip[2])

\* The template is rendered even where an override replaces it.
Renders(r) == r.values \notin Incomplete

resolveRenderedPrompt(r) == IF r.prompt \in Cued THEN r.prompt ELSE r.values

\* Mutant: the texts are not part of what is compared.
computePayloadHashNoPrompt(r) == <<r.values, r.clip>>

\* No override and a blank one are the same; the scenario is left out.
computePayloadHash(r) ==
  <<r.values, IF r.prompt = None THEN Blank ELSE r.prompt, r.clip>>

\* Mutant: the override is lost.
buildRetryRequestNoPrompt(row) == [row.parameters EXCEPT !.prompt = None]

\* A blank override is not carried over.
buildRetryRequest(row) ==
  [row.parameters EXCEPT !.prompt = IF @ = Blank THEN None ELSE @]

-----------------------------------------------------------------------------
(* The mock provider.                                                      *)

NewId == <<instancePrefix, counter + 1>>

With(f, id, x) == [i \in DOMAIN f \cup {id} |-> IF i = id THEN x ELSE f[i]]

Scenario(r) == IF r.mockScenario = None THEN defaultScenario ELSE r.mockScenario

\* The task the provider takes for the request, or the refusal.
Takes(r) ==
  /\ counter' = counter + 1
  /\ tasks' = With(tasks, NewId, [scenario |-> Scenario(r), queries |-> 0,
                                 renderedPrompt |-> resolveRenderedPrompt(r)])
  /\ took' = With(took, NewId, [scenario |-> Scenario(r), clip |-> r.clip])

Refuses(r) == Scenario(r) = "provider_error"

nextState(scenario, queries) ==
  IF queries = 1 \/ (scenario = "slow" /\ queries < 4) THEN "running" ELSE "done"

Verdict(scenario) ==
  CASE scenario \in {"success", "slow"} -> "succeeded"
    [] scenario = "expired" -> "expired"
    [] OTHER -> "failed"

-----------------------------------------------------------------------------
(* generationService.create and retry.                                     *)

WithKey(k) == {j \in Jobs : rows[j] # Absent /\ rows[j].key = k}

\* The key is known and the payload is the same: its job is the answer.  (With
\* another payload the answer is 409 and nothing changes.)
Reuse(k, r) ==
  \E j \in WithKey(k) :
    /\ computePayloadHash(rows[j].parameters) = computePayloadHash(r)
    /\ reply' = [job |-> j, text |-> resolveRenderedPrompt(r)]
    /\ UNCHANGED <<rows, provider>>

\* A new row, and what the provider makes of it.
NewJob(k, r, from) ==
  /\ WithKey(k) = {}
  /\ \E j \in Jobs :
       /\ rows[j] = Absent /\ \A i \in Jobs : i < j => rows[i] # Absent
       /\ rows' = [rows EXCEPT ![j] =
            [status |-> IF Refuses(r) THEN "failed" ELSE "queued", key |-> k,
             parameters |-> r, renderedPrompt |-> resolveRenderedPrompt(r),
             task |-> IF Refuses(r) THEN None ELSE NewId,
             resultUrl |-> None, from |-> from]]
       /\ reply' = [job |-> j, text |-> resolveRenderedPrompt(r)]
  /\ \/ Refuses(r) /\ UNCHANGED <<counter, tasks, took>>
     \/ ~Refuses(r) /\ Takes(r)
  /\ UNCHANGED <<instancePrefix, defaultScenario>>

Create(k, r, from) == Renders(r) /\ (Reuse(k, r) \/ NewJob(k, r, from))

Submit(k, r) == Valid(r) /\ Create(k, r, None)

\* Mutant: the stored parameters are trusted.
RetryTrusting(k, j) ==
  /\ rows[j].status \in {"failed", "expired"}
  /\ Create(k, buildRetryRequest(rows[j]), j)

Retry(k, j) ==
  /\ rows[j].status \in {"failed", "expired"}
  /\ Valid(buildRetryRequest(rows[j]))
  /\ Create(k, buildRetryRequest(rows[j]), j)

-----------------------------------------------------------------------------
(* The poller asks for one job; the scenario control; a restart.           *)

Pollable(j) == rows[j].status \in {"queued", "running"}

\* Mutant: a task of an earlier process counts as running.
PollForgottenRunning(j) ==
  /\ Pollable(j) /\ rows[j].task \notin DOMAIN tasks
  /\ rows' = [rows EXCEPT ![j].status = "running"]
  /\ UNCHANGED <<provider, reply>>

\* The task is of an earlier process.
PollForgotten(j) ==
  /\ Pollable(j) /\ rows[j].task \notin DOMAIN tasks
  /\ rows' = [rows EXCEPT ![j].status = "failed"]
  /\ UNCHANGED <<provider, reply>>

\* Mutant: the scenario control also decides about tasks under way.
ScriptOfNow(task) == defaultScenario

ScriptOf(task) == task.scenario

PollKnown(j) ==
  /\ Pollable(j) /\ rows[j].task \in DOMAIN tasks
  /\ LET id == rows[j].task
         n == tasks[id].queries + 1
         s == ScriptOf(tasks[id])
     IN /\ tasks' = [tasks EXCEPT ![id].queries = n]
        /\ rows' = [rows EXCEPT
             ![j].status = IF nextState(s, n) = "running" THEN "running" ELSE Verdict(s),
             ![j].resultUrl =
               IF nextState(s, n) = "done" /\ Verdict(s) = "succeeded"
                 THEN tasks[id].renderedPrompt ELSE @]
  /\ UNCHANGED <<instancePrefix, counter, defaultScenario, took, reply>>

setDefaultScenario(s) ==
  /\ defaultScenario' = s
  /\ UNCHANGED <<rows, instancePrefix, counter, tasks, took, reply>>

\* A new process: a new prefix, and nothing remembered.
Restart ==
  /\ instancePrefix < MaxRestarts /\ instancePrefix' = instancePrefix + 1
  /\ counter' = 0 /\ tasks' = <<>> /\ defaultScenario' = "success"
  /\ UNCHANGED <<rows, reply, took>>

Next ==
  \/ \E k \in Keys, r \in Requests : Submit(k, r)
  \/ \E k \in Keys, j \in Jobs : Retry(k, j)
  \/ \E j \in Jobs : PollForgotten(j) \/ PollKnown(j)
  \/ \E s \in Asked \ {None} : setDefaultScenario(s)
  \/ Restart

Spec == Init /\ [][Next]_vars

\* Every tick asks for every job under way.
FairSpec == Spec /\ \A j \in Jobs : WF_vars(PollForgotten(j) \/ PollKnown(j))

-----------------------------------------------------------------------------
\* The job a client is answered with generates the text its request meant,
\* whatever was sent with the key before (create, computePayloadHash).
AnswersWhatWasAsked ==
  reply.job # None => rows[reply.job].renderedPrompt = reply.text

\* A regenerated job repeats its source: text, clip and scenario
\* (buildRetryRequest).
RegenerateRepeats ==
  \A j \in Jobs :
    rows[j] # Absent /\ rows[j].from # None =>
      LET source == rows[rows[j].from]
      IN /\ rows[j].renderedPrompt = source.renderedPrompt
         /\ rows[j].parameters.clip = source.parameters.clip
         /\ rows[j].parameters.mockScenario = source.parameters.mockScenario

\* No provider is ever asked for a clip the model does not make, though old
\* rows hold such parameters (retry validates again).
OnlySupportedClips ==
  \A id \in DOMAIN took :
    took[id].clip \in {<<6, "768P">>, <<6, "1080P">>, <<10, "768P">>}

\* How a job ends is decided when the provider takes it: by its scenario, with
\* its own video, or as failed when the process that took it is gone.  Neither
\* the scenario control nor the jobs of a later process, whose numbering starts
\* anew while old rows keep their task ids, change it (mockProvider.ts:77-83).
EndsByItsScenario ==
  \A j \in Jobs :
    (rows[j].status \in {"succeeded", "failed", "expired"} /\ rows[j].task # None) =>
      \/ /\ rows[j].status = Verdict(took[rows[j].task].scenario)
         /\ rows[j].status = "succeeded" => rows[j].resultUrl = rows[j].renderedPrompt
      \/ rows[j].status = "failed" /\ rows[j].task[1] < instancePrefix

\* "The poller never spins forever" (mockProvider.ts:8-10): every job ends,
\* also when the process that knew its task is gone.
EveryMockJobEnds == \A j \in Jobs : Pollable(j) ~> ~Pollable(j)
=============================================================================
