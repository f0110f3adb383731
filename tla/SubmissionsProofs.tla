--------------------------- MODULE SubmissionsProofs ---------------------------
(***************************************************************************)
(* Submissions in mock mode, for any values, texts, keys and clips, any    *)
(* number of jobs and of restarts.  That a job ends as its scenario says   *)
(* is not inductive: what a task was taken with has to be tied to the      *)
(* provider's memory of it and to the row that names it, and the ids of    *)
(* earlier processes kept apart from those of this one.                    *)
(***************************************************************************)
EXTENDS Submissions, TLAPS

USE ConstantsAssumption, ScenariosAssumption

AnyRequest == Requests \cup LegacyRequests

\* A row keeps the text its parameters mean, and the job it regenerates.
RowsInv ==
  /\ \A j \in Jobs : rows[j] # Absent =>
       /\ rows[j].renderedPrompt = resolveRenderedPrompt(rows[j].parameters)
       /\ rows[j].from # None => rows[rows[j].from] # Absent
  /\ reply.job # None => rows[reply.job] # Absent

\* The tasks of this process are in its memory, as they were taken.
TasksInv ==
  /\ \A id \in DOMAIN took : /\ id[1] <= instancePrefix
                             /\ id[1] = instancePrefix => id \in DOMAIN tasks
  /\ \A id \in DOMAIN tasks : /\ id \in DOMAIN took
                              /\ took[id].scenario = tasks[id].scenario

\* A row names a task that was taken, and that has the row's text.
NamesInv ==
  \A j \in Jobs : rows[j] # Absent /\ (rows[j].task # None \/ Pollable(j)) =>
    /\ rows[j].task \in DOMAIN took
    /\ rows[j].task \in DOMAIN tasks =>
         tasks[rows[j].task].renderedPrompt = rows[j].renderedPrompt

IInv ==
  /\ TypeOK /\ RowsInv /\ TasksInv /\ NamesInv
  /\ AnswersWhatWasAsked /\ RegenerateRepeats /\ OnlySupportedClips
  /\ EndsByItsScenario

-----------------------------------------------------------------------------
(* Requests.                                                               *)

LEMMA RequestTypes ==
  ASSUME TypeOK, NEW r \in AnyRequest
  PROVE  resolveRenderedPrompt(r) \in Texts /\ Scenario(r) \in Scenarios
BY DEF TypeOK, AnyRequest, Requests, LegacyRequests, resolveRenderedPrompt, Texts,
       Scenario, Scenarios

\* Requests with the same hash mean the same text.
LEMMA HashIsText ==
  ASSUME NEW r \in AnyRequest, NEW s \in AnyRequest,
         computePayloadHash(r) = computePayloadHash(s)
  PROVE  resolveRenderedPrompt(r) = resolveRenderedPrompt(s)
<1> DEFINE canonical(q) == IF q.prompt = None THEN Blank ELSE q.prompt
<1>1. r.values = s.values /\ canonical(r) = canonical(s)
  BY DEF computePayloadHash
<1>2. \A q \in AnyRequest :
        resolveRenderedPrompt(q) = IF canonical(q) \in Cued THEN canonical(q) ELSE q.values
  BY DEF AnyRequest, Requests, LegacyRequests, resolveRenderedPrompt, Blank
<1> QED
  BY <1>1, <1>2

LEMMA RetryRepeats ==
  ASSUME NEW row \in Row
  PROVE  LET r == buildRetryRequest(row) IN
         /\ r \in AnyRequest /\ r.clip = row.parameters.clip
         /\ r.mockScenario = row.parameters.mockScenario
         /\ resolveRenderedPrompt(r) = resolveRenderedPrompt(row.parameters)
<1> DEFINE p == row.parameters
           r == buildRetryRequest(row)
<1>1. p \in AnyRequest
  BY DEF Row, AnyRequest
<1>2. r = [p EXCEPT !.prompt = IF p.prompt = Blank THEN None ELSE p.prompt]
  BY DEF buildRetryRequest
<1>3. CASE p \in Requests
  BY <1>2, <1>3 DEF Requests, AnyRequest, resolveRenderedPrompt, Blank
<1>4. CASE p \in LegacyRequests
  BY <1>2, <1>4 DEF LegacyRequests, AnyRequest, resolveRenderedPrompt, Blank
<1> QED
  BY <1>1, <1>3, <1>4 DEF AnyRequest

-----------------------------------------------------------------------------

LEMMA InitInvariant == Init => IInv
<1> SUFFICES ASSUME Init PROVE IInv
  OBVIOUS
<1>1. PICK r \in {Absent} \cup {LegacyRow(q) : q \in LegacyRequests} :
        rows = [j \in Jobs |-> IF j = 1 THEN r ELSE Absent]
  BY DEF Init
<1>2. r = Absent \/ /\ r \in Row /\ r.status = "failed" /\ r.task = None
                    /\ r.from = None
                    /\ r.renderedPrompt = resolveRenderedPrompt(r.parameters)
  <2>1. ASSUME NEW q \in LegacyRequests, r = LegacyRow(q)
        PROVE  /\ r \in Row /\ r.status = "failed" /\ r.task = None
               /\ r.from = None
               /\ r.renderedPrompt = resolveRenderedPrompt(r.parameters)
    BY <2>1 DEF LegacyRow, Row, LegacyRequests, Texts, resolveRenderedPrompt
  <2>2. QED
    BY <1>1, <2>1
<1>3. /\ instancePrefix = 0 /\ counter = 0 /\ tasks = <<>> /\ took = <<>>
      /\ defaultScenario = "success" /\ reply = [job |-> None]
  BY DEF Init
<1>4. DOMAIN tasks = {} /\ DOMAIN took = {} /\ 1..counter = {}
  BY <1>3
<1>5. tasks \in [{instancePrefix} \X (1..counter) -> Task]
  <2>1. {instancePrefix} \X (1..counter) = {}
    BY <1>4
  <2>2. QED
    BY <1>3, <1>4, <2>1
<1>6. rows \in [Jobs -> Row \cup {Absent}]
  BY <1>1, <1>2
<1>7. TypeOK
  BY <1>3, <1>4, <1>5, <1>6 DEF TypeOK, Scenarios
<1>8. \A j \in Jobs : rows[j] = Absent \/ rows[j] = r
  BY <1>1
<1>9. Absent.status = "absent"
  BY DEF Absent
<1>10. RowsInv /\ TasksInv /\ NamesInv
  BY <1>2, <1>3, <1>4, <1>8 DEF RowsInv, TasksInv, NamesInv, Pollable
<1>11. AnswersWhatWasAsked /\ RegenerateRepeats /\ OnlySupportedClips
  BY <1>2, <1>3, <1>4, <1>8
     DEF AnswersWhatWasAsked, RegenerateRepeats, OnlySupportedClips
<1>12. EndsByItsScenario
  BY <1>2, <1>8, <1>9 DEF EndsByItsScenario
<1> QED
  BY <1>7, <1>10, <1>11, <1>12 DEF IInv

-----------------------------------------------------------------------------
(* Creating a job.                                                         *)

LEMMA ReuseStep ==
  ASSUME IInv, NEW k \in Keys, NEW r \in AnyRequest, Reuse(k, r)
  PROVE  IInv'
<1>1. PICK j \in WithKey(k) :
        /\ computePayloadHash(rows[j].parameters) = computePayloadHash(r)
        /\ reply' = [job |-> j, text |-> resolveRenderedPrompt(r)]
  BY DEF Reuse
<1>2. rows' = rows /\ UNCHANGED <<instancePrefix, counter, tasks, defaultScenario, took>>
  BY DEF Reuse, provider
<1>3. j \in Jobs /\ rows[j] # Absent /\ rows[j] \in Row
  BY DEF WithKey, IInv, TypeOK
<1>4. rows[j].parameters \in AnyRequest
  BY <1>3 DEF Row, AnyRequest
<1>5. rows[j].renderedPrompt = resolveRenderedPrompt(r)
  BY <1>1, <1>3, <1>4, HashIsText DEF IInv, RowsInv
<1>6. reply' \in [job : Jobs, text : Texts] /\ reply'.job = j
      /\ reply'.text = resolveRenderedPrompt(r)
  BY <1>1, <1>3, RequestTypes DEF IInv
<1>7. TypeOK'
  BY <1>2, <1>6 DEF IInv, TypeOK
<1>8. RowsInv' /\ TasksInv' /\ NamesInv'
  BY <1>2, <1>3, <1>6 DEF IInv, RowsInv, TasksInv, NamesInv, Pollable
<1>9. AnswersWhatWasAsked'
  BY <1>2, <1>5, <1>6 DEF AnswersWhatWasAsked
<1>10. RegenerateRepeats' /\ OnlySupportedClips' /\ EndsByItsScenario'
  BY <1>2 DEF IInv, RegenerateRepeats, OnlySupportedClips, EndsByItsScenario
<1> QED
  BY <1>7, <1>8, <1>9, <1>10 DEF IInv

\* What the provider's memory is after a request, taken or refused.
LEMMA TakesFacts ==
  ASSUME IInv, NEW r \in AnyRequest, Valid(r), ~Refuses(r), Takes(r),
         UNCHANGED <<instancePrefix, defaultScenario>>
  PROVE  /\ counter' \in Nat /\ tasks' \in [{instancePrefix} \X (1..counter') -> Task]
         /\ DOMAIN took' \subseteq Ids /\ TasksInv' /\ OnlySupportedClips'
         /\ NewId \notin DOMAIN took /\ NewId[1] = instancePrefix
         /\ NewId \in DOMAIN took' /\ tasks'[NewId].renderedPrompt = resolveRenderedPrompt(r)
         /\ DOMAIN tasks' = DOMAIN tasks \cup {NewId}
         /\ DOMAIN took' = DOMAIN took \cup {NewId}
         /\ \A id \in DOMAIN tasks : tasks'[id] = tasks[id]
         /\ \A id \in DOMAIN took : took'[id] = took[id]
<1> DEFINE t == [scenario |-> Scenario(r), queries |-> 0,
                 renderedPrompt |-> resolveRenderedPrompt(r)]
           o == [scenario |-> Scenario(r), clip |-> r.clip]
<1>1. /\ counter' = counter + 1 /\ tasks' = With(tasks, NewId, t)
      /\ took' = With(took, NewId, o)
  BY DEF Takes
<1>2. Scenario(r) \in Scenarios \ {"provider_error"} /\ resolveRenderedPrompt(r) \in Texts
  BY RequestTypes DEF IInv, Refuses
<1>3. t \in Task
  BY <1>2 DEF Task
<1>4. /\ o.scenario = t.scenario /\ o.clip = r.clip
      /\ t.renderedPrompt = resolveRenderedPrompt(r)
  OBVIOUS
<1> HIDE DEF t, o
<1>5. /\ counter \in Nat /\ instancePrefix \in 0..MaxRestarts
      /\ tasks \in [{instancePrefix} \X (1..counter) -> Task]
      /\ DOMAIN took \subseteq Ids
  BY DEF IInv, TypeOK
<1>6. NewId = <<instancePrefix, counter + 1>> /\ NewId[1] = instancePrefix
  BY DEF NewId
<1>7. NewId \notin DOMAIN tasks
  BY <1>5, <1>6
<1>8. NewId \notin DOMAIN took
  BY <1>6, <1>7 DEF IInv, TasksInv
<1>9. /\ DOMAIN tasks' = DOMAIN tasks \cup {NewId} /\ tasks'[NewId] = t
      /\ \A id \in DOMAIN tasks : tasks'[id] = tasks[id]
  BY <1>1, <1>7 DEF With
<1>10. /\ DOMAIN took' = DOMAIN took \cup {NewId} /\ took'[NewId] = o
       /\ \A id \in DOMAIN took : took'[id] = took[id]
  BY <1>1, <1>8 DEF With
<1>11. counter' \in Nat /\ 1..counter' = (1..counter) \cup {counter + 1}
  BY <1>1, <1>5
<1>12. {instancePrefix} \X (1..counter')
         = ({instancePrefix} \X (1..counter)) \cup {NewId}
  BY <1>6, <1>11
<1>13. tasks' \in [{instancePrefix} \X (1..counter') -> Task]
  <2>1. DOMAIN tasks' = {instancePrefix} \X (1..counter')
    BY <1>5, <1>9, <1>12
  <2>2. \A id \in DOMAIN tasks' : tasks'[id] \in Task
    BY <1>3, <1>5, <1>9
  <2>3. tasks' = [id \in DOMAIN tasks' |-> tasks'[id]]
    BY <1>1 DEF With
  <2>4. QED
    BY <2>1, <2>2, <2>3
<1>14. DOMAIN took' \subseteq Ids
  <2>1. NewId \in Ids
    BY <1>5, <1>6 DEF Ids
  <2>2. QED
    BY <1>5, <1>10, <2>1
<1>15. TasksInv'
  BY <1>4, <1>6, <1>7, <1>8, <1>9, <1>10 DEF IInv, TasksInv, TypeOK
<1>16. OnlySupportedClips'
  <2>1. r.clip \in {<<6, "768P">>, <<6, "1080P">>, <<10, "768P">>}
    <3>1. PICK d \in Durations \cup {5}, x \in Resolutions \cup {"720P"} : r.clip = <<d, x>>
      BY DEF AnyRequest, Requests, LegacyRequests
    <3>2. QED
      BY <3>1 DEF Valid, MINIMAX_DURATIONS, MINIMAX_RESOLUTIONS,
                  isDurationResolutionCompatible
  <2>2. QED
    BY <1>4, <1>8, <1>10, <2>1 DEF IInv, OnlySupportedClips
<1> QED
  BY <1>4, <1>6, <1>8, <1>9, <1>10, <1>11, <1>13, <1>14, <1>15, <1>16

LEMMA NewJobStep ==
  ASSUME IInv, NEW k \in Keys, NEW r \in AnyRequest, NEW from \in Jobs \cup {None},
         Valid(r), NewJob(k, r, from),
         from # None =>
           /\ rows[from] # Absent
           /\ resolveRenderedPrompt(r) = rows[from].renderedPrompt
           /\ r.clip = rows[from].parameters.clip
           /\ r.mockScenario = rows[from].parameters.mockScenario
  PROVE  IInv'
<1> DEFINE row == [status |-> IF Refuses(r) THEN "failed" ELSE "queued", key |-> k,
                   parameters |-> r, renderedPrompt |-> resolveRenderedPrompt(r),
                   task |-> IF Refuses(r) THEN None ELSE NewId,
                   resultUrl |-> None, from |-> from]
<1>1. PICK j \in Jobs : /\ rows[j] = Absent /\ rows' = [rows EXCEPT ![j] = row]
                       /\ reply' = [job |-> j, text |-> resolveRenderedPrompt(r)]
  BY DEF NewJob
<1>2. instancePrefix' = instancePrefix /\ defaultScenario' = defaultScenario
  BY DEF NewJob
<1>3. /\ Refuses(r) => UNCHANGED <<counter, tasks, took>>
      /\ ~Refuses(r) => Takes(r)
  BY DEF NewJob
<1>4. /\ row.parameters = r /\ row.renderedPrompt = resolveRenderedPrompt(r)
      /\ row.from = from /\ row.status \in {"failed", "queued"}
      /\ Refuses(r) => row.task = None /\ row.status = "failed"
      /\ ~Refuses(r) => row.task = NewId /\ row.status = "queued"
  OBVIOUS
<1>5. resolveRenderedPrompt(r) \in Texts
  BY RequestTypes DEF IInv
<1>6. NewId \in Ids
  BY DEF IInv, TypeOK, NewId, Ids
<1>7. row \in Row
  BY <1>5, <1>6 DEF Row, AnyRequest
<1>8. row # Absent
  BY DEF Absent
<1> HIDE DEF row
<1>9. /\ rows' \in [Jobs -> Row \cup {Absent}] /\ rows'[j] = row
      /\ \A i \in Jobs : i # j => rows'[i] = rows[i]
  BY <1>1, <1>7 DEF IInv, TypeOK
<1>10. reply' \in [job : Jobs, text : Texts] /\ reply'.job = j
       /\ reply'.text = resolveRenderedPrompt(r)
  BY <1>1, <1>5
<1>11. /\ counter' \in Nat /\ tasks' \in [{instancePrefix} \X (1..counter') -> Task]
       /\ DOMAIN took' \subseteq Ids /\ TasksInv' /\ OnlySupportedClips'
  <2>1. CASE Refuses(r)
    BY <1>2, <1>3, <2>1 DEF IInv, TypeOK, TasksInv, OnlySupportedClips
  <2>2. CASE ~Refuses(r)
    BY <1>2, <1>3, <2>2, TakesFacts
  <2>3. QED
    BY <2>1, <2>2
<1>12. TypeOK'
  BY <1>2, <1>9, <1>10, <1>11 DEF IInv, TypeOK
<1>13. RowsInv'
  <2>1. j # None
    OBVIOUS
  <2>2. \A i \in Jobs : rows[i] # Absent => i # j /\ rows'[i] = rows[i] /\ rows'[i] # Absent
    BY <1>1, <1>9
  <2>3. from # None => rows'[from] # Absent
    BY <2>2
  <2>4. \A i \in Jobs : rows'[i] # Absent =>
          rows'[i].renderedPrompt = resolveRenderedPrompt(rows'[i].parameters)
    BY <1>4, <1>9 DEF IInv, RowsInv
  <2>5. ASSUME NEW i \in Jobs, rows'[i] # Absent, rows'[i].from # None
        PROVE  rows'[rows'[i].from] # Absent
    <3>1. CASE i = j
      BY <1>4, <1>9, <2>3, <2>5, <3>1
    <3>2. CASE i # j
      <4>1. rows[i] # Absent /\ rows[i] \in Row /\ rows'[i] = rows[i]
        BY <1>9, <2>5, <3>2 DEF IInv, TypeOK
      <4>2. rows[i].from \in Jobs /\ rows[rows[i].from] # Absent
        BY <2>5, <4>1 DEF IInv, RowsInv, Row
      <4>3. QED
        BY <2>2, <4>1, <4>2
    <3>3. QED
      BY <3>1, <3>2
  <2>6. QED
    BY <1>8, <1>9, <1>10, <2>4, <2>5 DEF RowsInv
<1>14. NamesInv' /\ EndsByItsScenario'
  <2>1. /\ DOMAIN took \subseteq DOMAIN took'
        /\ \A id \in DOMAIN took : took'[id] = took[id]
        /\ \A id \in DOMAIN took : id \in DOMAIN tasks' =>
              id \in DOMAIN tasks /\ tasks'[id] = tasks[id]
    <3>1. CASE Refuses(r)
      BY <1>3, <3>1
    <3>2. CASE ~Refuses(r)
      <4>1. /\ NewId \notin DOMAIN took
            /\ DOMAIN tasks' = DOMAIN tasks \cup {NewId}
            /\ DOMAIN took' = DOMAIN took \cup {NewId}
            /\ \A id \in DOMAIN tasks : tasks'[id] = tasks[id]
            /\ \A id \in DOMAIN took : took'[id] = took[id]
        BY <1>2, <1>3, <3>2, TakesFacts
      <4>2. QED
        BY <4>1
    <3>3. QED
      BY <3>1, <3>2
  <2>2. ASSUME NEW i \in Jobs, i # j, rows[i] # Absent,
               rows[i].task # None \/ Pollable(i)
        PROVE  /\ rows[i].task \in DOMAIN took'
               /\ rows[i].task \in DOMAIN tasks' =>
                    tasks'[rows[i].task].renderedPrompt = rows[i].renderedPrompt
    BY <2>1, <2>2 DEF IInv, NamesInv
  <2>3. ASSUME rows'[j].task # None \/ Pollable(j)'
        PROVE  /\ rows'[j].task \in DOMAIN took'
               /\ tasks'[rows'[j].task].renderedPrompt = rows'[j].renderedPrompt
    <3>1. ~Refuses(r)
      BY <1>4, <1>9, <2>3 DEF Pollable
    <3>2. QED
      BY <1>2, <1>3, <1>4, <1>9, <3>1, TakesFacts
  <2>4. ASSUME NEW i \in Jobs, rows'[i] # Absent,
               rows'[i].task # None \/ Pollable(i)'
        PROVE  /\ rows'[i].task \in DOMAIN took'
               /\ rows'[i].task \in DOMAIN tasks' =>
                    tasks'[rows'[i].task].renderedPrompt = rows'[i].renderedPrompt
    <3>1. CASE i = j
      BY <2>3, <2>4, <3>1
    <3>2. CASE i # j
      BY <1>9, <2>2, <2>4, <3>2 DEF Pollable
    <3>3. QED
      BY <3>1, <3>2
  <2>5. NamesInv'
    BY <2>4 DEF NamesInv
  <2>6. ASSUME NEW i \in Jobs, rows'[i].task # None,
               rows'[i].status \in {"succeeded", "failed", "expired"}
        PROVE  \/ /\ rows'[i].status = Verdict(took'[rows'[i].task].scenario)
                  /\ rows'[i].status = "succeeded" =>
                       rows'[i].resultUrl = rows'[i].renderedPrompt
               \/ rows'[i].status = "failed" /\ rows'[i].task[1] < instancePrefix'
    <3>1. i # j
      BY <1>4, <1>9, <2>6
    <3>2. rows'[i] = rows[i] /\ rows[i] # Absent
      BY <1>9, <2>6, <3>1 DEF Absent
    <3>3. took'[rows[i].task] = took[rows[i].task]
      BY <2>1, <2>6, <3>2 DEF IInv, NamesInv
    <3>4. QED
      BY <1>2, <2>6, <3>2, <3>3 DEF IInv, EndsByItsScenario
  <2>7. QED
    BY <2>5, <2>6 DEF EndsByItsScenario
<1>15. AnswersWhatWasAsked'
  BY <1>4, <1>9, <1>10 DEF AnswersWhatWasAsked
<1>16. RegenerateRepeats'
  <2>1. ASSUME NEW i \in Jobs, rows'[i] # Absent, rows'[i].from # None
        PROVE  LET source == rows'[rows'[i].from]
               IN /\ rows'[i].renderedPrompt = source.renderedPrompt
                  /\ rows'[i].parameters.clip = source.parameters.clip
                  /\ rows'[i].parameters.mockScenario = source.parameters.mockScenario
    <3>1. CASE i = j
      <4>1. /\ rows'[i] = row /\ row.from = from /\ from # None /\ from # j
            /\ rows'[from] = rows[from]
        BY <1>1, <1>4, <1>9, <2>1, <3>1
      <4>2. QED
        BY <1>4, <2>1, <4>1
    <3>2. CASE i # j
      <4>1. rows[i] # Absent /\ rows[i] \in Row /\ rows'[i] = rows[i]
        BY <1>9, <2>1, <3>2 DEF IInv, TypeOK
      <4>2. /\ rows[i].from \in Jobs /\ rows[i].from # j
            /\ rows'[rows[i].from] = rows[rows[i].from]
        BY <1>1, <1>9, <2>1, <4>1 DEF IInv, RowsInv, Row
      <4>3. QED
        BY <2>1, <4>1, <4>2 DEF IInv, RegenerateRepeats
    <3>3. QED
      BY <3>1, <3>2
  <2>2. QED
    BY <2>1 DEF RegenerateRepeats
<1> QED
  BY <1>11, <1>12, <1>13, <1>14, <1>15, <1>16 DEF IInv

LEMMA CreateStep ==
  ASSUME IInv, NEW k \in Keys, NEW r \in AnyRequest, NEW from \in Jobs \cup {None},
         Valid(r), Create(k, r, from),
         from # None =>
           /\ rows[from] # Absent
           /\ resolveRenderedPrompt(r) = rows[from].renderedPrompt
           /\ r.clip = rows[from].parameters.clip
           /\ r.mockScenario = rows[from].parameters.mockScenario
  PROVE  IInv'
BY ReuseStep, NewJobStep DEF Create

LEMMA SubmitStep ==
  ASSUME IInv, NEW k \in Keys, NEW r \in Requests, Submit(k, r)
  PROVE  IInv'
BY CreateStep DEF Submit, AnyRequest

LEMMA RetryStep ==
  ASSUME IInv, NEW k \in Keys, NEW j \in Jobs, Retry(k, j)
  PROVE  IInv'
<1> DEFINE r == buildRetryRequest(rows[j])
<1>1. rows[j].status \in {"failed", "expired"} /\ Valid(r) /\ Create(k, r, j)
  BY DEF Retry
<1>2. rows[j] # Absent
  <2>1. rows[j].status # "absent"
    BY <1>1
  <2>2. QED
    BY <2>1 DEF Absent
<1>3. rows[j] # Absent /\ rows[j] \in Row
  BY <1>2 DEF IInv, TypeOK
<1>4. /\ r \in AnyRequest /\ r.clip = rows[j].parameters.clip
      /\ r.mockScenario = rows[j].parameters.mockScenario
      /\ resolveRenderedPrompt(r) = resolveRenderedPrompt(rows[j].parameters)
  BY <1>3, RetryRepeats
<1>5. resolveRenderedPrompt(r) = rows[j].renderedPrompt
  BY <1>3, <1>4 DEF IInv, RowsInv
<1> HIDE DEF r
<1> QED
  BY <1>1, <1>3, <1>4, <1>5, CreateStep

-----------------------------------------------------------------------------
(* The poller, the scenario control, a restart.                            *)

\* Only a row's status and result change.
LEMMA RowsStep ==
  ASSUME IInv, NEW j \in Jobs, Pollable(j),
         rows' \in [Jobs -> Row \cup {Absent}], rows'[j] # Absent,
         \A i \in Jobs : i # j => rows'[i] = rows[i],
         rows'[j].parameters = rows[j].parameters, rows'[j].from = rows[j].from,
         rows'[j].renderedPrompt = rows[j].renderedPrompt, reply' = reply
  PROVE  /\ RowsInv' /\ AnswersWhatWasAsked' /\ RegenerateRepeats'
         /\ \A i \in Jobs : rows'[i] = Absent <=> rows[i] = Absent
<1>1. rows[j] # Absent
  BY DEF Pollable, Absent
<1>2. \A i \in Jobs : /\ rows'[i] = Absent <=> rows[i] = Absent
                      /\ rows'[i].parameters = rows[i].parameters
                      /\ rows'[i].from = rows[i].from
                      /\ rows'[i].renderedPrompt = rows[i].renderedPrompt
  BY <1>1
<1>3. \A i \in Jobs : rows[i] # Absent => rows[i].from \in Jobs \cup {None}
  BY DEF IInv, TypeOK, Row
<1>4. reply.job # None => reply.job \in Jobs
  BY DEF IInv, TypeOK
<1>5. RowsInv'
  <2>1. ASSUME NEW i \in Jobs, rows'[i] # Absent
        PROVE  /\ rows'[i].renderedPrompt = resolveRenderedPrompt(rows'[i].parameters)
               /\ rows'[i].from # None => rows'[rows'[i].from] # Absent
    <3>1. rows[i] # Absent
      BY <1>2, <2>1
    <3>2. /\ rows[i].renderedPrompt = resolveRenderedPrompt(rows[i].parameters)
          /\ rows[i].from # None => rows[rows[i].from] # Absent
      BY <3>1 DEF IInv, RowsInv
    <3>3. rows[i].from # None => rows'[rows[i].from] # Absent
      BY <1>2, <1>3, <3>1, <3>2
    <3>4. QED
      BY <1>2, <3>2, <3>3
  <2>2. reply'.job # None => rows'[reply'.job] # Absent
    BY <1>2, <1>4 DEF IInv, RowsInv
  <2>3. QED
    BY <2>1, <2>2 DEF RowsInv
<1>6. AnswersWhatWasAsked'
  BY <1>2, <1>4 DEF IInv, AnswersWhatWasAsked
<1>7. RegenerateRepeats'
  <2>1. ASSUME NEW i \in Jobs, rows'[i] # Absent, rows'[i].from # None
        PROVE  LET source == rows'[rows'[i].from]
               IN /\ rows'[i].renderedPrompt = source.renderedPrompt
                  /\ rows'[i].parameters.clip = source.parameters.clip
                  /\ rows'[i].parameters.mockScenario = source.parameters.mockScenario
    <3>1. rows[i] # Absent /\ rows[i].from # None /\ rows[i].from \in Jobs
      BY <1>2, <1>3, <2>1
    <3>2. LET source == rows[rows[i].from]
          IN /\ rows[i].renderedPrompt = source.renderedPrompt
             /\ rows[i].parameters.clip = source.parameters.clip
             /\ rows[i].parameters.mockScenario = source.parameters.mockScenario
      BY <3>1 DEF IInv, RegenerateRepeats
    <3>3. rows'[i].from = rows[i].from
      BY <1>2
    <3>4. /\ rows'[i].renderedPrompt = rows[i].renderedPrompt
          /\ rows'[i].parameters = rows[i].parameters
          /\ rows'[rows[i].from].renderedPrompt = rows[rows[i].from].renderedPrompt
          /\ rows'[rows[i].from].parameters = rows[rows[i].from].parameters
      BY <1>2, <3>1
    <3>5. QED
      BY <3>2, <3>3, <3>4
  <2>2. QED
    BY <2>1 DEF RegenerateRepeats
<1> QED
  BY <1>2, <1>5, <1>6, <1>7

LEMMA ForgottenStep ==
  ASSUME IInv, NEW j \in Jobs, PollForgotten(j)
  PROVE  IInv'
<1>1. /\ Pollable(j) /\ rows[j].task \notin DOMAIN tasks
      /\ rows' = [rows EXCEPT ![j].status = "failed"]
      /\ UNCHANGED <<instancePrefix, counter, tasks, defaultScenario, took, reply>>
  BY DEF PollForgotten, provider
<1>2. rows[j] # Absent /\ rows[j] \in Row
  BY <1>1 DEF Pollable, Absent, IInv, TypeOK
<1>3. /\ rows' \in [Jobs -> Row \cup {Absent}]
      /\ \A i \in Jobs : i # j => rows'[i] = rows[i]
      /\ rows'[j].parameters = rows[j].parameters /\ rows'[j].from = rows[j].from
      /\ rows'[j].renderedPrompt = rows[j].renderedPrompt
      /\ rows'[j].status = "failed" /\ rows'[j].task = rows[j].task
  BY <1>1, <1>2 DEF IInv, TypeOK, Row
<1>4. rows'[j] # Absent
  BY <1>3 DEF Absent
<1>5. /\ RowsInv' /\ AnswersWhatWasAsked' /\ RegenerateRepeats'
      /\ \A i \in Jobs : rows'[i] = Absent <=> rows[i] = Absent
  BY <1>1, <1>3, <1>4, RowsStep
<1>6. TypeOK' /\ TasksInv' /\ OnlySupportedClips'
  BY <1>1, <1>3 DEF IInv, TypeOK, TasksInv, OnlySupportedClips
<1>7. rows[j].task \in DOMAIN took
  BY <1>1, <1>2 DEF IInv, NamesInv
<1>8. NamesInv'
  BY <1>1, <1>3, <1>5 DEF IInv, NamesInv, Pollable
<1>9. rows[j].task[1] < instancePrefix
  <2>1. rows[j].task[1] \in Nat /\ instancePrefix \in Nat
    BY <1>7 DEF IInv, TypeOK, Ids
  <2>2. QED
    BY <1>1, <1>7, <2>1 DEF IInv, TasksInv
<1>10. EndsByItsScenario'
  BY <1>1, <1>3, <1>9 DEF IInv, EndsByItsScenario
<1> QED
  BY <1>5, <1>6, <1>8, <1>10 DEF IInv

LEMMA KnownStep ==
  ASSUME IInv, NEW j \in Jobs, PollKnown(j)
  PROVE  IInv'
<1> DEFINE id == rows[j].task
           n == tasks[id].queries + 1
           s == ScriptOf(tasks[id])
           done == nextState(s, n) # "running"
           won == nextState(s, n) = "done" /\ Verdict(s) = "succeeded"
<1>1. /\ Pollable(j) /\ id \in DOMAIN tasks
      /\ tasks' = [tasks EXCEPT ![id].queries = n]
      /\ rows' = [rows EXCEPT
                   ![j].status = IF nextState(s, n) = "running" THEN "running"
                                                               ELSE Verdict(s),
                   ![j].resultUrl = IF won THEN tasks[id].renderedPrompt ELSE @]
      /\ UNCHANGED <<instancePrefix, counter, defaultScenario, took, reply>>
  BY DEF PollKnown
<1>2. rows[j] # Absent /\ rows[j] \in Row
  BY <1>1 DEF Pollable, Absent, IInv, TypeOK
<1>3. tasks[id] \in Task /\ n \in Nat /\ s = tasks[id].scenario
  BY <1>1 DEF IInv, TypeOK, Task, ScriptOf
<1>4. nextState(s, n) \in {"running", "done"}
  BY DEF nextState
<1>5. Verdict(s) \in {"succeeded", "failed", "expired"}
  BY DEF Verdict
<1>6. tasks[id].renderedPrompt \in Texts
  BY <1>3 DEF Task
<1> HIDE DEF n, s
<1>7. /\ rows' \in [Jobs -> Row \cup {Absent}]
      /\ \A i \in Jobs : i # j => rows'[i] = rows[i]
      /\ rows'[j].parameters = rows[j].parameters /\ rows'[j].from = rows[j].from
      /\ rows'[j].renderedPrompt = rows[j].renderedPrompt
      /\ rows'[j].status = IF nextState(s, n) = "running" THEN "running" ELSE Verdict(s)
      /\ won => rows'[j].resultUrl = tasks[id].renderedPrompt
      /\ rows'[j].task = id /\ rows'[j].status # "absent"
  BY <1>1, <1>2, <1>5, <1>6 DEF IInv, TypeOK, Row
<1>8. rows'[j] # Absent
  BY <1>7 DEF Absent
<1>9. /\ RowsInv' /\ AnswersWhatWasAsked' /\ RegenerateRepeats'
      /\ \A i \in Jobs : rows'[i] = Absent <=> rows[i] = Absent
  BY <1>1, <1>7, <1>8, RowsStep
<1>10. /\ tasks' \in [{instancePrefix} \X (1..counter) -> Task]
       /\ DOMAIN tasks' = DOMAIN tasks
       /\ \A i \in DOMAIN tasks : /\ tasks'[i].scenario = tasks[i].scenario
                                  /\ tasks'[i].renderedPrompt = tasks[i].renderedPrompt
  BY <1>1, <1>3 DEF IInv, TypeOK, Task
<1>11. TypeOK' /\ OnlySupportedClips'
  BY <1>1, <1>7, <1>10 DEF IInv, TypeOK, OnlySupportedClips
<1>12. TasksInv'
  BY <1>1, <1>10 DEF IInv, TasksInv
<1>13. /\ id \in DOMAIN took /\ took[id].scenario = s
       /\ tasks[id].renderedPrompt = rows[j].renderedPrompt
  BY <1>1, <1>2, <1>3 DEF IInv, TasksInv, NamesInv
<1>14. NamesInv'
  <2>1. ASSUME NEW i \in Jobs, rows'[i] # Absent,
               rows'[i].task # None \/ Pollable(i)'
        PROVE  /\ rows'[i].task \in DOMAIN took'
               /\ rows'[i].task \in DOMAIN tasks' =>
                    tasks'[rows'[i].task].renderedPrompt = rows'[i].renderedPrompt
    <3>1. CASE i = j
      BY <1>1, <1>7, <1>10, <1>13, <3>1
    <3>2. CASE i # j
      BY <1>1, <1>7, <1>10, <2>1, <3>2 DEF IInv, NamesInv, Pollable
    <3>3. QED
      BY <3>1, <3>2
  <2>2. QED
    BY <2>1 DEF NamesInv
<1>15. EndsByItsScenario'
  <2>1. ASSUME rows'[j].status \in {"succeeded", "failed", "expired"}
        PROVE  /\ rows'[j].status = Verdict(took'[rows'[j].task].scenario)
               /\ rows'[j].status = "succeeded" =>
                    rows'[j].resultUrl = rows'[j].renderedPrompt
    <3>1. nextState(s, n) = "done"
      BY <1>4, <1>7, <2>1
    <3>2. rows'[j].status = Verdict(s)
      BY <1>7, <3>1
    <3>3. QED
      BY <1>1, <1>7, <1>13, <3>1, <3>2
  <2>2. QED
    BY <1>1, <1>7, <2>1 DEF IInv, EndsByItsScenario
<1> QED
  BY <1>9, <1>11, <1>12, <1>14, <1>15 DEF IInv

LEMMA ControlStep ==
  ASSUME IInv, NEW s \in Asked \ {None}, setDefaultScenario(s)
  PROVE  IInv'
<1>1. s \in Scenarios
  BY DEF Scenarios
<1>2. TypeOK'
  BY <1>1 DEF IInv, TypeOK, setDefaultScenario
<1>3. RowsInv' /\ TasksInv' /\ NamesInv' /\ AnswersWhatWasAsked'
  BY DEF IInv, RowsInv, TasksInv, NamesInv, Pollable, AnswersWhatWasAsked,
         setDefaultScenario
<1>4. RegenerateRepeats' /\ OnlySupportedClips' /\ EndsByItsScenario'
  BY DEF IInv, RegenerateRepeats, OnlySupportedClips, EndsByItsScenario,
         setDefaultScenario
<1> QED
  BY <1>2, <1>3, <1>4 DEF IInv

LEMMA RestartStep ==
  ASSUME IInv, Restart
  PROVE  IInv'
<1>1. /\ instancePrefix < MaxRestarts /\ instancePrefix' = instancePrefix + 1
      /\ counter' = 0 /\ tasks' = <<>> /\ defaultScenario' = "success"
      /\ rows' = rows /\ reply' = reply /\ took' = took
  BY DEF Restart
<1>2. instancePrefix \in 0..MaxRestarts /\ DOMAIN took \subseteq Ids
  BY DEF IInv, TypeOK
<1>3. DOMAIN tasks' = {} /\ {instancePrefix'} \X (1..counter') = {}
  BY <1>1
<1>4. tasks' \in [{instancePrefix'} \X (1..counter') -> Task]
  BY <1>1, <1>3
<1>5. TypeOK'
  BY <1>1, <1>2, <1>4 DEF IInv, TypeOK, Scenarios
<1>6. \A id \in DOMAIN took : id[1] \in Nat
  BY <1>2 DEF Ids
<1>7. TasksInv'
  BY <1>1, <1>2, <1>3, <1>6 DEF IInv, TasksInv
<1>8. RowsInv' /\ AnswersWhatWasAsked' /\ RegenerateRepeats' /\ OnlySupportedClips'
  BY <1>1 DEF IInv, RowsInv, AnswersWhatWasAsked, RegenerateRepeats, OnlySupportedClips
<1>9. NamesInv'
  BY <1>1, <1>3 DEF IInv, NamesInv, Pollable
<1>10. EndsByItsScenario'
  <2>1. ASSUME NEW j \in Jobs, rows[j].task # None,
               rows[j].status \in {"succeeded", "failed", "expired"}
        PROVE  rows[j].task[1] < instancePrefix => rows[j].task[1] < instancePrefix + 1
    <3>1. rows[j] # Absent
      BY <2>1 DEF Absent
    <3>2. rows[j].task \in DOMAIN took
      BY <2>1, <3>1 DEF IInv, NamesInv
    <3>3. QED
      BY <1>2, <1>6, <3>2
  <2>2. QED
    BY <1>1, <2>1 DEF IInv, EndsByItsScenario
<1> QED
  BY <1>5, <1>7, <1>8, <1>9, <1>10 DEF IInv

LEMMA StutterStep == ASSUME IInv, UNCHANGED vars PROVE IInv'
<1>1. UNCHANGED <<rows, instancePrefix, counter, tasks, defaultScenario, took, reply>>
  BY DEF vars, provider
<1>2. TypeOK' /\ RowsInv' /\ TasksInv' /\ NamesInv' /\ AnswersWhatWasAsked'
  BY <1>1 DEF IInv, TypeOK, RowsInv, TasksInv, NamesInv, Pollable, AnswersWhatWasAsked
<1>3. RegenerateRepeats' /\ OnlySupportedClips' /\ EndsByItsScenario'
  BY <1>1 DEF IInv, RegenerateRepeats, OnlySupportedClips, EndsByItsScenario
<1> QED
  BY <1>2, <1>3 DEF IInv

LEMMA StepInvariant == ASSUME IInv, [Next]_vars PROVE IInv'
<1>1. ASSUME NEW k \in Keys, NEW r \in Requests, Submit(k, r) PROVE IInv'
  BY <1>1, SubmitStep
<1>2. ASSUME NEW k \in Keys, NEW j \in Jobs, Retry(k, j) PROVE IInv'
  BY <1>2, RetryStep
<1>3. ASSUME NEW j \in Jobs, PollForgotten(j) \/ PollKnown(j) PROVE IInv'
  BY <1>3, ForgottenStep, KnownStep
<1>4. ASSUME NEW s \in Asked \ {None}, setDefaultScenario(s) PROVE IInv'
  BY <1>4, ControlStep
<1>5. CASE Restart
  BY <1>5, RestartStep
<1>6. CASE UNCHANGED vars
  BY <1>6, StutterStep
<1> QED
  BY <1>1, <1>2, <1>3, <1>4, <1>5, <1>6 DEF Next

(* What rows, tasks and answers have in common holds in every state of the *)
(* mock-mode server (generationService.ts, mockProvider.ts).               *)
THEOREM Inductive == Spec => []IInv
<1>1. Init => IInv
  BY InitInvariant
<1>2. IInv /\ [Next]_vars => IInv'
  BY StepInvariant
<1> QED
  BY <1>1, <1>2, PTL DEF Spec

(* Every variable keeps its type.                                          *)
THEOREM TypeCorrect == Spec => []TypeOK
<1>1. IInv => TypeOK
  BY DEF IInv
<1> QED
  BY <1>1, Inductive, PTL

(* The job a client is answered with generates the text its request meant  *)
(* (generationService.ts create, computePayloadHash).                      *)
THEOREM AnswersFit == Spec => []AnswersWhatWasAsked
<1>1. IInv => AnswersWhatWasAsked
  BY DEF IInv
<1> QED
  BY <1>1, Inductive, PTL

(* A regenerated job repeats its source (generationService.ts              *)
(* buildRetryRequest).                                                     *)
THEOREM RegenerationsRepeat == Spec => []RegenerateRepeats
<1>1. IInv => RegenerateRepeats
  BY DEF IInv
<1> QED
  BY <1>1, Inductive, PTL

(* No provider is asked for a clip the model does not make, whatever old   *)
(* rows hold (generationService.ts retry, videoPolicy.ts).                 *)
THEOREM ClipsAreSupported == Spec => []OnlySupportedClips
<1>1. IInv => OnlySupportedClips
  BY DEF IInv
<1> QED
  BY <1>1, Inductive, PTL

(* A job ends as its task was taken, with its own video, or as failed once *)
(* the process that took it is gone (mockProvider.ts).                     *)
THEOREM ScenariosDecide == Spec => []EndsByItsScenario
<1>1. IInv => EndsByItsScenario
  BY DEF IInv
<1> QED
  BY <1>1, Inductive, PTL
=============================================================================
