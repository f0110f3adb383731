--------------------------- MODULE PaidJobProofs ---------------------------
(***************************************************************************)
(* Proofs about PaidJob: what a row's end says about the paid task, for    *)
(* every set of HTTP errors, budget of failures and number of restarts.    *)
(***************************************************************************)
EXTENDS PaidJob, TLAPS

-----------------------------------------------------------------------------
(* The inductive invariant.                                                *)

\* A handler awaits the adapter exactly while a call has not been taken up.
AwaitInv ==
  /\ outcome.kind = "none" <=> outcome = NoOutcome
  /\ outcome.kind = "returned" => outcome.status # "none"
  /\ outcome.kind = "threw" => outcome.status = "none"
  /\ awaiting = "none" => call = "idle" /\ outcome = NoOutcome
  /\ awaiting # "none" => (call = "idle" <=> outcome # NoOutcome)
  /\ awaiting = "submit" => call \in {"create", "idle"}
  /\ awaiting = "poll" => call \in {"query", "retrieve", "idle"}

\* What the row looks like meanwhile.
RowInv ==
  /\ status = "absent" => ~tracked /\ awaiting = "none"
  /\ status = "tracking_exhausted" => tracked
  /\ awaiting = "submit" => status = "queued" /\ ~tracked
  /\ awaiting = "poll" => status \in Pollable /\ tracked

\* What the outcome that is awaited says of the task.
EvidenceInv ==
  /\ awaiting = "submit" =>
       /\ outcome.kind = "returned" => outcome.status = "queued"
       /\ outcome.category \in Definitive => task = "refused"
  /\ call = "retrieve" => task = "succeeded" /\ said = {"success"}
  /\ awaiting = "poll" /\ outcome.status = "failed" =>
       said \cap {"fail", "definitive"} # {}
  /\ awaiting = "poll" /\ outcome.status = "succeeded" =>
       /\ task = "succeeded" /\ {"success", "url"} \subseteq said
       /\ said \cap {"transient", "definitive"} = {}

StallInv == StallIsEarned /\ (status = "tracking_exhausted" => failures = 0)

IInv ==
  /\ TypeOK /\ AwaitInv /\ RowInv /\ EvidenceInv
  /\ FailedOnEvidence /\ SucceededIsUsable /\ RefusedIsFree /\ StallInv

-----------------------------------------------------------------------------
(* The mapping.                                                            *)

LEMMA BaseRespCategory ==
  \A c : classifyBaseResp(c) \in Categories
BY DEF classifyBaseResp, Categories, Transient, Definitive

LEMMA HttpCategory ==
  ASSUME NEW http \in Nat, NEW b
  PROVE  classifyHttpFailure(http, b) \in Categories
BY BaseRespCategory
   DEF classifyHttpFailure, classifyWords, Categories, Transient, Definitive

\* A gateway's error refuses nothing.
LEMMA GatewayCategory ==
  ASSUME NEW http \in Nat, http >= 500
  PROVE  classifyHttpFailure(http, EmptyBody) = "provider_failure"
BY DEF classifyHttpFailure, IsFailure, EmptyBody

LEMMA CategoriesDiffer == Transient \cap Definitive = {}
BY DEF Transient, Definitive

\* What can be read in the replies.
LEMMA CreateReplyFacts ==
  ASSUME NEW b \in CreateReplies
  PROVE  /\ b.code \in Codes /\ b.task_id \in BOOLEAN
         /\ IsFailure(b) => task = "refused"
<1>1. b \in CreateBodies /\ (IsFailure(b) => task = "refused")
  BY DEF CreateReplies
<1> QED BY <1>1 DEF CreateBodies, Bodies, No

LEMMA QueryReplyFacts ==
  ASSUME NEW b \in QueryReplies
  PROVE  /\ b.code \in Codes /\ b.status \in WireStatuses
         /\ b.file_id \in BOOLEAN /\ b.url = FALSE
         /\ ~IsFailure(b) =>
              \/ b.status = "unknown"
              \/ b.status = "success" /\ task = "succeeded"
              \/ b.status = "fail" /\ task = "failed"
              \/ b.status \in Progress /\ task = "active"
<1>1. b \in QueryBodies
  BY DEF QueryReplies
<1>2. ~IsFailure(b) =>
         \/ b.status = "unknown"
         \/ task = "active" /\ b.status \in Progress
         \/ task = "succeeded" /\ b.status = "success"
         \/ task = "failed" /\ b.status = "fail"
  BY DEF QueryReplies
<1> QED BY <1>1, <1>2 DEF QueryBodies, Bodies, No

LEMMA FileReplyFacts ==
  ASSUME NEW b \in FileBodies
  PROVE  /\ b.code \in Codes /\ b.url \in BOOLEAN
         /\ [b EXCEPT !.status = "success"].status = "success"
         /\ [b EXCEPT !.status = "success"].url = b.url
         /\ [b EXCEPT !.status = "success"].code = b.code
BY DEF FileBodies, Bodies, No

LEMMA SaysType ==
  ASSUME NEW b
  PROVE  Says(b) \subseteq {"success", "fail", "transient", "definitive",
                           "unknown", "url"}
BY DEF Says

LEMMA SaysDefinitive ==
  ASSUME NEW b, IsFailure(b), classifyBaseResp(b.code) \in Definitive
  PROVE  Says(b) = {"definitive"}
BY CategoriesDiffer DEF Says

LEMMA SaysStatus ==
  ASSUME NEW b, ~IsFailure(b), b.status \in {"success", "fail", "unknown"}
  PROVE  /\ b.url => Says(b) = {b.status, "url"}
         /\ ~b.url => Says(b) = {b.status}
BY DEF Says

-----------------------------------------------------------------------------
(* The invariant holds at first, and every step keeps it.                  *)

LEMMA InitInv == Init => IInv
<1> SUFFICES ASSUME Init PROVE IInv
  OBVIOUS
<1>1. TypeOK
  <2>1. AdapterTypeOK
    BY DEF Init, AdapterInit, AdapterTypeOK, NoOutcome, Outcome
  <2>2. 0 \in 0..(MaxAttempts - 1) /\ 0 \in 0..MaxAttempts /\ 0 \in 0..MaxRestarts
    BY BudgetAssumption
  <2> QED BY <2>1, <2>2 DEF Init, TypeOK
<1>2. AwaitInv /\ RowInv
  BY DEF Init, AdapterInit, AwaitInv, RowInv, NoOutcome
<1>3. EvidenceInv
  BY DEF Init, AdapterInit, EvidenceInv, NoOutcome
<1>4. FailedOnEvidence /\ SucceededIsUsable /\ RefusedIsFree /\ StallInv
  BY DEF Init, FailedOnEvidence, SucceededIsUsable, RefusedIsFree, StallInv,
         StallIsEarned
<1> QED BY <1>1, <1>2, <1>3, <1>4 DEF IInv

\* An exchange that ends a call leaves the rest of the row's story as it is.
LEMMA EndInv ==
  ASSUME IInv, told' \in SUBSET Closed, UNCHANGED jobVars, UNCHANGED task, call # "idle",
         NEW o \in Outcome, End(o), o.kind # "none",
         said' \in SUBSET {"success", "fail", "transient", "definitive",
                          "unknown", "url"},
         o.kind = "returned" => o.status # "none",
         o.kind = "threw" => o.status = "none",
         awaiting = "submit" =>
           /\ o.kind = "returned" => o.status = "queued"
           /\ o.category \in Definitive => task = "refused",
         awaiting = "poll" /\ o.status = "failed" =>
           said' \cap {"fail", "definitive"} # {},
         awaiting = "poll" /\ o.status = "succeeded" =>
           /\ task = "succeeded" /\ {"success", "url"} \subseteq said'
           /\ said' \cap {"transient", "definitive"} = {}
  PROVE  IInv'
<1>1. awaiting \in {"submit", "poll"}
  BY DEF IInv, TypeOK, AwaitInv
<1>2. o # NoOutcome
  BY DEF NoOutcome
<1>3. TypeOK'
  BY DEF IInv, TypeOK, AdapterTypeOK, End, jobVars
<1>4. AwaitInv' /\ RowInv'
  BY <1>1, <1>2 DEF IInv, AwaitInv, RowInv, End, jobVars
<1>5. EvidenceInv'
  BY <1>1 DEF IInv, EvidenceInv, AwaitInv, End, jobVars
<1>6. FailedOnEvidence' /\ SucceededIsUsable' /\ RefusedIsFree' /\ StallInv'
  BY <1>1 DEF IInv, RowInv, FailedOnEvidence, SucceededIsUsable, RefusedIsFree,
              StallInv, StallIsEarned, Pollable, jobVars
<1> QED BY <1>3, <1>4, <1>5, <1>6 DEF IInv

LEMMA CreateRepliedInv ==
  ASSUME IInv, told' \in SUBSET Closed, UNCHANGED jobVars, NEW b \in CreateReplies, CreateReplied(b)
  PROVE  IInv'
<1>1. call = "create" /\ awaiting = "submit"
  BY DEF CreateReplied, IInv, TypeOK, AwaitInv
<1>2. said' \in SUBSET {"success", "fail", "transient", "definitive", "unknown",
                       "url"}
  BY DEF CreateReplied, IInv, TypeOK, AdapterTypeOK
<1>3. CASE IsFailure(b)
  <2>1. task = "refused"
    BY <1>3, CreateReplyFacts
  <2>2. End(Threw(classifyBaseResp(b.code)))
    BY <1>3 DEF CreateReplied
  <2>3. Threw(classifyBaseResp(b.code)) \in Outcome
    BY BaseRespCategory DEF Threw, Outcome
  <2> QED BY <1>1, <1>2, <2>1, <2>2, <2>3, EndInv DEF CreateReplied, Threw
<1>4. CASE ~IsFailure(b) /\ ~b.task_id
  <2>1. End(Threw("provider_failure"))
    BY <1>4 DEF CreateReplied
  <2>2. Threw("provider_failure") \in Outcome /\ "provider_failure" \notin Definitive
    BY DEF Threw, Outcome, Categories, Transient, Definitive
  <2> QED BY <1>1, <1>2, <2>1, <2>2, EndInv DEF CreateReplied, Threw
<1>5. CASE ~IsFailure(b) /\ b.task_id
  <2>1. End(Returned("queued", "none"))
    BY <1>5 DEF CreateReplied
  <2>2. Returned("queued", "none") \in Outcome /\ "none" \notin Definitive
    BY DEF Returned, Outcome, Definitive
  <2> QED BY <1>1, <1>2, <2>1, <2>2, EndInv DEF CreateReplied, Returned
<1>6. b.task_id \in BOOLEAN
  BY CreateReplyFacts
<1> QED BY <1>3, <1>4, <1>5, <1>6

\* A base_resp error on the read path: thrown, or on record as definitive.
LEMMA ReadFailedInv ==
  ASSUME IInv, told' \in SUBSET Closed, UNCHANGED jobVars, UNCHANGED task, call \in {"query", "retrieve"},
         NEW c \in Categories, End(ReadFailed(c)),
         said' \in SUBSET {"success", "fail", "transient", "definitive",
                          "unknown", "url"},
         c \in Definitive => "definitive" \in said'
  PROVE  IInv'
<1>1. awaiting = "poll"
  BY DEF IInv, TypeOK, AwaitInv
<1>2. CASE c \in Transient
  <2>1. ReadFailed(c) = Threw(c) /\ Threw(c) \in Outcome
    BY <1>2 DEF ReadFailed, isRetryableProviderCategory, Threw, Outcome
  <2> QED BY <1>1, <2>1, EndInv DEF Threw
<1>3. CASE c \in Definitive
  <2>1. ReadFailed(c) = Returned("failed", c) /\ Returned("failed", c) \in Outcome
    BY <1>3, CategoriesDiffer
       DEF ReadFailed, isRetryableProviderCategory, Returned, Outcome
  <2> QED BY <1>1, <1>3, <2>1, EndInv DEF Returned
<1> QED BY <1>2, <1>3 DEF Categories

LEMMA QueryRepliedInv ==
  ASSUME IInv, told' \in SUBSET Closed, UNCHANGED jobVars, NEW b \in QueryReplies, QueryReplied(b)
  PROVE  IInv'
<1> DEFINE s == mapTaskStatus(b.status)
<1>1. call = "query" /\ awaiting = "poll" /\ outcome = NoOutcome
  BY DEF QueryReplied, IInv, TypeOK, AwaitInv
<1>2. said' = Says(b) /\ said' \in SUBSET {"success", "fail", "transient",
                                        "definitive", "unknown", "url"}
  BY SaysType DEF QueryReplied
<1>3. CASE IsFailure(b)
  <2>1. End(ReadFailed(classifyBaseResp(b.code)))
    BY <1>3 DEF QueryReplied
  <2>2. classifyBaseResp(b.code) \in Definitive => "definitive" \in said'
    BY <1>2, <1>3, SaysDefinitive
  <2> QED BY <1>1, <1>2, <2>1, <2>2, BaseRespCategory, ReadFailedInv DEF QueryReplied
<1>4. CASE ~IsFailure(b) /\ s = "succeeded" /\ b.file_id
  <2>1. call' = "retrieve" /\ outcome' = outcome /\ task' = task
    BY <1>4 DEF QueryReplied, mapTaskStatus
  <2>2. b.status = "success"
    BY <1>4 DEF mapTaskStatus
  <2>3. task = "succeeded" /\ said' = {"success"}
    <3>1. task = "succeeded"
      BY <1>4, <2>2, QueryReplyFacts DEF Progress
    <3>2. ~b.url
      BY QueryReplyFacts
    <3>3. Says(b) = {"success"}
      BY <1>4, <2>2, <3>2, SaysStatus
    <3> QED BY <1>2, <3>1, <3>3
  <2>4. TypeOK'
    BY <1>2, <2>1 DEF IInv, TypeOK, AdapterTypeOK, jobVars
  <2>5. AwaitInv' /\ RowInv'
    BY <1>1, <2>1 DEF IInv, AwaitInv, RowInv, jobVars
  <2>6. EvidenceInv'
    BY <1>1, <2>1, <2>3 DEF IInv, EvidenceInv, NoOutcome, jobVars
  <2>7. FailedOnEvidence' /\ SucceededIsUsable' /\ RefusedIsFree' /\ StallInv'
    BY <1>1, <2>1 DEF IInv, RowInv, FailedOnEvidence, SucceededIsUsable,
              RefusedIsFree, StallInv, StallIsEarned, Pollable, jobVars
  <2> QED BY <2>4, <2>5, <2>6, <2>7 DEF IInv
<1>5. CASE ~IsFailure(b) /\ s = "succeeded" /\ ~b.file_id
  <2>1. End(Threw("provider_failure"))
    BY <1>5 DEF QueryReplied, mapTaskStatus
  <2>2. Threw("provider_failure") \in Outcome
    BY DEF Threw, Outcome, Categories, Transient
  <2> QED BY <1>1, <1>2, <2>1, <2>2, EndInv DEF QueryReplied, Threw
<1>6. CASE ~IsFailure(b) /\ s = "failed"
  <2>1. End(Returned("failed", "provider_failure"))
    BY <1>6 DEF QueryReplied, mapTaskStatus
  <2>2. Returned("failed", "provider_failure") \in Outcome
    BY DEF Returned, Outcome, Categories, Transient
  <2>3. b.status = "fail"
    BY <1>6 DEF mapTaskStatus
  <2>4. "fail" \in said'
    <3>1. ~b.url
      BY QueryReplyFacts
    <3>2. Says(b) = {"fail"}
      BY <1>6, <2>3, <3>1, SaysStatus
    <3> QED BY <1>2, <3>2
  <2> QED BY <1>1, <1>2, <2>1, <2>2, <2>4, EndInv DEF QueryReplied, Returned
<1>7. CASE ~IsFailure(b) /\ s \in {"queued", "running"}
  <2>1. End(Returned(s, "none"))
    BY <1>7 DEF QueryReplied, mapTaskStatus
  <2>2. Returned(s, "none") \in Outcome
    BY <1>7 DEF Returned, Outcome
  <2> QED BY <1>1, <1>2, <1>7, <2>1, <2>2, EndInv DEF QueryReplied, Returned
<1>8. s \in {"queued", "running", "succeeded", "failed"} /\ b.file_id \in BOOLEAN
  BY QueryReplyFacts DEF mapTaskStatus
<1> QED BY <1>3, <1>4, <1>5, <1>6, <1>7, <1>8

LEMMA RetrieveRepliedInv ==
  ASSUME IInv, told' \in SUBSET Closed, UNCHANGED jobVars, NEW b \in FileBodies, RetrieveReplied(b)
  PROVE  IInv'
<1> DEFINE c == [b EXCEPT !.status = "success"]
<1>1. call = "retrieve" /\ awaiting = "poll" /\ task = "succeeded" /\ said = {"success"}
  BY DEF RetrieveReplied, IInv, TypeOK, AwaitInv, EvidenceInv
<1>2. /\ b.code \in Codes /\ b.url \in BOOLEAN /\ c.status = "success"
      /\ c.url = b.url /\ c.code = b.code
  BY FileReplyFacts
<1>3. IsFailure(c) = IsFailure(b)
  BY <1>2 DEF IsFailure
<1>4. said' = {"success"} \cup Says(c)
  BY <1>1 DEF RetrieveReplied
<1> HIDE DEF c
<1>5. Says(c) \subseteq {"success", "fail", "transient", "definitive", "unknown",
                        "url"}
  BY SaysType
<1>6. CASE IsFailure(b)
  <2>1. End(ReadFailed(classifyBaseResp(b.code)))
    BY <1>6 DEF RetrieveReplied
  <2>2. classifyBaseResp(b.code) \in Definitive => "definitive" \in said'
    <3> SUFFICES ASSUME classifyBaseResp(b.code) \in Definitive
                 PROVE  "definitive" \in said'
      OBVIOUS
    <3>1. Says(c) = {"definitive"}
      <4>1. IsFailure(c) /\ classifyBaseResp(c.code) \in Definitive
        BY <1>2, <1>3, <1>6
      <4> QED BY <4>1, SaysDefinitive
    <3> QED BY <1>4, <3>1
  <2> QED BY <1>1, <1>4, <1>5, <2>1, <2>2, BaseRespCategory, ReadFailedInv
          DEF RetrieveReplied
<1>7. CASE ~IsFailure(b) /\ ~b.url
  <2>1. End(Threw("provider_failure"))
    BY <1>7 DEF RetrieveReplied
  <2>2. Threw("provider_failure") \in Outcome
    BY DEF Threw, Outcome, Categories, Transient
  <2> QED BY <1>1, <1>4, <1>5, <2>1, <2>2, EndInv DEF RetrieveReplied, Threw
<1>8. CASE ~IsFailure(b) /\ b.url
  <2>1. End(Returned("succeeded", "none"))
    BY <1>8 DEF RetrieveReplied
  <2>2. Returned("succeeded", "none") \in Outcome
    BY DEF Returned, Outcome
  <2>3. said' = {"success", "url"}
    <3>1. ~IsFailure(c) /\ c.status = "success" /\ c.url
      BY <1>2, <1>3, <1>8
    <3>2. Says(c) = {"success", "url"}
      BY <3>1, SaysStatus
    <3> QED BY <1>4, <3>2
  <2> QED BY <1>1, <2>1, <2>2, <2>3, EndInv DEF RetrieveReplied, Returned
<1> QED BY <1>2, <1>6, <1>7, <1>8

\* An exchange without a readable 2xx reply throws; only a refused create is
\* told a definitive reason.
LEMMA NoReplyInv ==
  ASSUME IInv, told' \in SUBSET Closed, UNCHANGED jobVars,
         \/ \E http \in HttpErrors : \E b \in HttpReplies(http) : HttpFailed(http, b)
         \/ TransportFailed
  PROVE  IInv'
<1>1. PICK c \in Categories :
        /\ End(Threw(c)) /\ call # "idle" /\ UNCHANGED <<task, said>>
        /\ call = "create" /\ c \in Definitive => task = "refused"
  <2>1. CASE TransportFailed
    BY <2>1 DEF TransportFailed, Categories, Transient, Definitive
  <2>2. ASSUME NEW http \in HttpErrors, NEW b \in HttpReplies(http),
               HttpFailed(http, b)
        PROVE  \E c \in Categories :
                 /\ End(Threw(c)) /\ call # "idle" /\ UNCHANGED <<task, said>>
                 /\ call = "create" /\ c \in Definitive => task = "refused"
    <3>1. http \in Nat
      BY HttpErrorsAssumption
    <3>2. classifyHttpFailure(http, b) \in Categories
      BY <3>1, HttpCategory
    <3>3. ASSUME call = "create", task # "refused"
          PROVE  classifyHttpFailure(http, b) \notin Definitive
      <4>1. http >= 500 /\ b = EmptyBody
        BY <3>3 DEF HttpReplies
      <4> QED BY <3>1, <4>1, GatewayCategory DEF Definitive
    <3> QED BY <2>2, <3>2, <3>3 DEF HttpFailed
  <2> QED BY <2>1, <2>2
<1>2. awaiting = "submit" => call = "create"
  BY <1>1 DEF IInv, AwaitInv
<1>3. Threw(c) \in Outcome
  BY DEF Threw, Outcome
<1>4. said' \in SUBSET {"success", "fail", "transient", "definitive", "unknown",
                       "url"}
  BY <1>1 DEF IInv, TypeOK, AdapterTypeOK
<1> QED BY <1>1, <1>2, <1>3, <1>4, EndInv DEF Threw

LEMMA ExchangeInv ==
  ASSUME IInv, told' \in SUBSET Closed, UNCHANGED jobVars, Exchange
  PROVE  IInv'
BY CreateRepliedInv, QueryRepliedInv, RetrieveRepliedInv, NoReplyInv DEF Exchange

LEMMA RepliedInv ==
  ASSUME IInv, Replied
  PROVE  IInv'
<1>1. told' \in SUBSET Closed
  BY DEF IInv, TypeOK, Replied, Ruling
<1> QED BY <1>1, ExchangeInv DEF Replied

\* What happens at the provider; a task that ended stays so.
LEMMA ProviderInv ==
  ASSUME IInv, Provided
  PROVE  IInv'
<1>1. /\ UNCHANGED <<call, outcome, said, told>> /\ UNCHANGED jobVars
      /\ task \in {"requested", "active"}
      /\ task' \in {"refused", "active", "succeeded", "failed"}
  BY DEF Provided, Takes, Refuses, TaskEnds, Ends
<1>2. TypeOK' /\ AwaitInv' /\ RowInv'
  BY <1>1 DEF IInv, TypeOK, AdapterTypeOK, AwaitInv, RowInv, jobVars
<1>3. EvidenceInv'
  BY <1>1 DEF IInv, EvidenceInv, jobVars
<1>4. FailedOnEvidence' /\ SucceededIsUsable' /\ RefusedIsFree' /\ StallInv'
  BY <1>1 DEF IInv, FailedOnEvidence, SucceededIsUsable, RefusedIsFree, StallInv,
              StallIsEarned, jobVars
<1> QED BY <1>2, <1>3, <1>4 DEF IInv

LEMMA SubmitInv ==
  ASSUME IInv, Submit \/ SubmitEnds
  PROVE  IInv'
<1>1. CASE Submit
  <2>1. TypeOK' /\ AwaitInv' /\ RowInv'
    BY <1>1 DEF IInv, TypeOK, AdapterTypeOK, AwaitInv, RowInv, Submit, Create, Pollable
  <2>2. EvidenceInv'
    BY <1>1 DEF IInv, AwaitInv, RowInv, EvidenceInv, Submit, Create, NoOutcome,
                Definitive
  <2>3. FailedOnEvidence' /\ SucceededIsUsable' /\ RefusedIsFree' /\ StallInv'
    BY <1>1 DEF IInv, FailedOnEvidence, SucceededIsUsable, RefusedIsFree, StallInv,
                StallIsEarned, Submit, Create
  <2> QED BY <2>1, <2>2, <2>3 DEF IInv
<1>2. CASE SubmitEnds
  <2>1. /\ awaiting = "submit" /\ outcome # NoOutcome /\ call = "idle"
        /\ awaiting' = "none" /\ outcome' = NoOutcome
        /\ UNCHANGED <<task, call, said, failures, restarts, streak, told>>
    BY <1>2 DEF SubmitEnds, Continue, IInv, AwaitInv
  <2>2. outcome.kind \in {"returned", "threw"}
    BY <2>1 DEF IInv, TypeOK, AdapterTypeOK, Outcome, AwaitInv
  <2>3. NoOutcome \in Outcome /\ NoOutcome.kind = "none"
    BY DEF NoOutcome, Outcome
  <2>4. CASE outcome.kind = "returned"
    <3>1. status' = "queued" /\ tracked' = TRUE /\ error' = error
      BY <1>2, <2>1, <2>4 DEF SubmitEnds, IInv, EvidenceInv
    <3>2. TypeOK' /\ AwaitInv' /\ RowInv'
      BY <2>1, <2>3, <3>1 DEF IInv, TypeOK, AdapterTypeOK, AwaitInv, RowInv, Pollable
    <3> QED BY <2>1, <3>1, <3>2 DEF IInv, EvidenceInv, FailedOnEvidence,
              SucceededIsUsable, RefusedIsFree, StallInv, StallIsEarned
  <2>5. CASE outcome.kind = "threw"
    <3>1. /\ status' = "failed" /\ tracked' = FALSE /\ error' = outcome.category
          /\ error' \in Categories \cup {"none"}
      BY <1>2, <2>1, <2>5 DEF SubmitEnds, IInv, TypeOK, AdapterTypeOK, RowInv, Outcome
    <3>2. TypeOK' /\ AwaitInv' /\ RowInv'
      BY <2>1, <2>3, <3>1 DEF IInv, TypeOK, AdapterTypeOK, AwaitInv, RowInv, Closed
    <3> QED BY <2>1, <3>1, <3>2 DEF IInv, EvidenceInv, FailedOnEvidence,
              SucceededIsUsable, RefusedIsFree, StallInv, StallIsEarned
  <2> QED BY <2>2, <2>4, <2>5
<1> QED BY <1>1, <1>2

LEMMA ResumeInv ==
  ASSUME IInv, Resume
  PROVE  IInv'
<1>1. awaiting = "none"
  BY DEF IInv, TypeOK, RowInv, Resume, Pollable
<1>2. TypeOK' /\ AwaitInv' /\ RowInv'
  BY <1>1, BudgetAssumption
     DEF IInv, TypeOK, AdapterTypeOK, AwaitInv, RowInv, Resume, Pollable, adapterVars
<1>3. EvidenceInv'
  BY <1>1 DEF IInv, EvidenceInv, Resume, adapterVars
<1>4. FailedOnEvidence' /\ SucceededIsUsable' /\ RefusedIsFree'
  BY DEF FailedOnEvidence, SucceededIsUsable, RefusedIsFree, Resume
<1>5. StallInv'
  BY DEF IInv, StallInv, StallIsEarned, Resume
<1> QED BY <1>2, <1>3, <1>4, <1>5 DEF IInv

LEMMA PollInv ==
  ASSUME IInv, Poll
  PROVE  IInv'
<1>1. TypeOK' /\ AwaitInv' /\ RowInv'
  BY DEF IInv, TypeOK, AdapterTypeOK, AwaitInv, RowInv, Poll, Query
<1>2. EvidenceInv'
  BY DEF IInv, AwaitInv, EvidenceInv, Poll, Query, NoOutcome
<1>3. FailedOnEvidence' /\ SucceededIsUsable' /\ RefusedIsFree' /\ StallInv'
  BY DEF IInv, FailedOnEvidence, SucceededIsUsable, RefusedIsFree, StallInv,
         StallIsEarned, Poll, Query, Pollable
<1> QED BY <1>1, <1>2, <1>3 DEF IInv

\* The row takes over what the outcome says; the budget is counted.
LEMMA PollEndsInv ==
  ASSUME IInv, PollReturns \/ PollThrows
  PROVE  IInv'
<1>1. /\ awaiting = "poll" /\ outcome # NoOutcome /\ call = "idle"
      /\ awaiting' = "none" /\ outcome' = NoOutcome /\ status \in Pollable
      /\ tracked /\ UNCHANGED <<task, call, said, tracked, restarts, told>>
  BY DEF PollReturns, PollThrows, Continue, IInv, AwaitInv, RowInv
<1>2. NoOutcome \in Outcome /\ NoOutcome.kind = "none"
  BY DEF NoOutcome, Outcome
<1>3. CASE PollReturns
  <2>1. /\ status' = outcome.status
        /\ status' \in {"queued", "running", "succeeded", "failed"}
    BY <1>3 DEF PollReturns, IInv, TypeOK, AdapterTypeOK, AwaitInv, Outcome
  <2>2. error' \in Categories \cup {"none"}
    BY <1>3 DEF PollReturns, IInv, TypeOK, AdapterTypeOK, Outcome
  <2>3. failures' = 0 /\ streak' = 0
    BY <1>3 DEF PollReturns
  <2>4. TypeOK'
    BY <1>1, <1>2, <2>1, <2>2, <2>3, BudgetAssumption
       DEF IInv, TypeOK, AdapterTypeOK, Pollable, Closed
  <2>5. AwaitInv' /\ RowInv'
    BY <1>1, <1>2, <2>1 DEF AwaitInv, RowInv
  <2>6. EvidenceInv'
    BY <1>1 DEF EvidenceInv
  <2>7. FailedOnEvidence' /\ SucceededIsUsable'
    BY <1>1, <2>1 DEF IInv, EvidenceInv, FailedOnEvidence, SucceededIsUsable
  <2>8. RefusedIsFree' /\ StallInv'
    BY <1>1, <2>1, <2>3 DEF RefusedIsFree, StallInv, StallIsEarned
  <2> QED BY <2>4, <2>5, <2>6, <2>7, <2>8 DEF IInv
<1>4. CASE PollThrows
  <2>1. /\ failures \in 0..(MaxAttempts - 1) /\ streak \in 0..MaxAttempts
        /\ failures <= streak /\ MaxAttempts \in Nat \ {0}
    BY BudgetAssumption DEF IInv, TypeOK, StallInv, StallIsEarned
  <2>2. /\ streak' \in 0..MaxAttempts
        /\ streak' = IF streak < MaxAttempts THEN streak + 1 ELSE streak
    BY <1>4, <2>1 DEF PollThrows
  <2>3. \/ /\ status' = "tracking_exhausted" /\ error' \in Categories \cup {"none"}
           /\ failures' = 0 /\ streak' = MaxAttempts
        \/ /\ status' = status /\ error' = error
           /\ failures' \in 0..(MaxAttempts - 1) /\ failures' <= streak'
    <3>1. CASE failures + 1 >= MaxAttempts
      <4>1. streak' = MaxAttempts
        BY <2>1, <2>2, <3>1
      <4>2. /\ status' = "tracking_exhausted" /\ error' = outcome.category
            /\ failures' = 0
        BY <1>4, <3>1 DEF PollThrows
      <4> QED BY <4>1, <4>2 DEF IInv, TypeOK, AdapterTypeOK, Outcome
    <3>2. CASE ~(failures + 1 >= MaxAttempts)
      <4>1. failures' = failures + 1 /\ UNCHANGED <<status, error>>
        BY <1>4, <3>2 DEF PollThrows
      <4> QED BY <2>1, <2>2, <3>2, <4>1
    <3> QED BY <3>1, <3>2
  <2>4. TypeOK'
    BY <1>1, <1>2, <2>1, <2>2, <2>3 DEF IInv, TypeOK, AdapterTypeOK
  <2>5. AwaitInv' /\ RowInv'
    BY <1>1, <1>2, <2>3 DEF AwaitInv, RowInv, Pollable
  <2>6. EvidenceInv'
    BY <1>1 DEF EvidenceInv
  <2>7. FailedOnEvidence' /\ SucceededIsUsable' /\ RefusedIsFree'
    BY <1>1, <2>3 DEF FailedOnEvidence, SucceededIsUsable, RefusedIsFree, Pollable
  <2>8. StallInv'
    BY <1>1, <2>1, <2>3 DEF StallInv, StallIsEarned, Pollable
  <2> QED BY <2>4, <2>5, <2>6, <2>7, <2>8 DEF IInv
<1> QED BY <1>3, <1>4

LEMMA RestartInv ==
  ASSUME IInv, Restart
  PROVE  IInv'
<1>1. NoOutcome \in Outcome /\ NoOutcome.kind = "none"
  BY DEF NoOutcome, Outcome
<1>2. \/ /\ status' = "failed" /\ error' = "provider_failure" /\ ~tracked
      \/ UNCHANGED <<status, error>>
  BY DEF Restart
<1>3. "provider_failure" \in Categories \ Definitive
  BY DEF Categories, Transient, Definitive
<1>4. TypeOK'
  BY <1>1, <1>2, <1>3, BudgetAssumption
     DEF IInv, TypeOK, AdapterTypeOK, Restart, Closed
<1>5. AwaitInv' /\ RowInv'
  BY <1>1, <1>2 DEF IInv, AwaitInv, RowInv, Restart
<1>6. EvidenceInv'
  BY DEF EvidenceInv, Restart
<1>7. FailedOnEvidence' /\ SucceededIsUsable' /\ RefusedIsFree'
  BY <1>2, <1>3 DEF IInv, FailedOnEvidence, SucceededIsUsable, RefusedIsFree, Restart
<1>8. StallInv'
  BY <1>2 DEF IInv, TypeOK, StallInv, StallIsEarned, Restart
<1> QED BY <1>4, <1>5, <1>6, <1>7, <1>8 DEF IInv

LEMMA StepInv == IInv /\ [Next]_vars => IInv'
<1> SUFFICES ASSUME IInv, [Next]_vars PROVE IInv'
  OBVIOUS
<1>1. CASE UNCHANGED vars
  BY <1>1 DEF vars, adapterVars, jobVars, IInv, TypeOK, AdapterTypeOK, AwaitInv,
              RowInv, EvidenceInv, FailedOnEvidence, SucceededIsUsable,
              RefusedIsFree, StallInv, StallIsEarned
<1>2. CASE Next
  BY <1>2, SubmitInv, ResumeInv, PollInv, PollEndsInv, RepliedInv, ProviderInv,
     RestartInv DEF Next
<1> QED BY <1>1, <1>2

THEOREM Inductive == Spec => []IInv
<1> QED BY InitInv, StepInv, PTL DEF Spec

-----------------------------------------------------------------------------
(* What follows.                                                           *)

(* Every variable of the row, its handlers and the adapter stays in range. *)
THEOREM TypeCorrect == Spec => []TypeOK
<1>1. IInv => TypeOK
  BY DEF IInv
<1> QED BY <1>1, Inductive, PTL

(* A paid job is failed only on what its last poll read (mapQueryResult).  *)
THEOREM FailuresAreEvident == Spec => []FailedOnEvidence
<1>1. IInv => FailedOnEvidence
  BY DEF IInv
<1> QED BY <1>1, Inductive, PTL

(* A job that succeeded has a task that did, and a URL (mapQueryResult).   *)
THEOREM SuccessIsUsable == Spec => []SucceededIsUsable
<1>1. IInv => SucceededIsUsable
  BY DEF IInv
<1> QED BY <1>1, Inductive, PTL

(* A job failed for a definitive reason at its submission cost nothing     *)
(* (MinimaxProvider.create, toFailure).                                    *)
THEOREM RefusalsAreFree == Spec => []RefusedIsFree
<1>1. IInv => RefusedIsFree
  BY DEF IInv
<1> QED BY <1>1, Inductive, PTL

(* Only a full budget of failed polls in a row stops the tracking          *)
(* (JobPoller.failures).                                                   *)
THEOREM StallsAreEarned == Spec => []StallIsEarned
<1>1. IInv => StallIsEarned
  BY DEF IInv, StallInv
<1> QED BY <1>1, Inductive, PTL

(* A poll reads a finished task as pending only from a status the mapping  *)
(* does not know (mapTaskStatus).                                          *)
THEOREM PendingIsActive == Spec => PendingMeansActive
<1> DEFINE A == call = "query" /\ outcome'.status \in Pollable
                  => task = "active" \/ "unknown" \in said'
<1>1. IInv /\ [Next]_vars => [A]_vars
  <2> SUFFICES ASSUME IInv, Next, call = "query", outcome'.status \in Pollable
               PROVE  task = "active" \/ "unknown" \in said'
    OBVIOUS
  <2>1. outcome = NoOutcome /\ NoOutcome.status \notin Pollable
    BY DEF IInv, TypeOK, AwaitInv, NoOutcome, Pollable
  <2>2. outcome' # NoOutcome /\ ~UNCHANGED outcome
    BY <2>1
  <2>3. Exchange
    BY <2>1, <2>2 DEF Next, Submit, SubmitEnds, Resume, Poll, PollReturns,
       PollThrows, Continue, Replied, Provided, Takes, Refuses, TaskEnds, Ends,
       Restart, Create, Query, adapterVars
  <2>4. ASSUME NEW c PROVE Threw(c).status \notin Pollable
    BY DEF Threw, Pollable
  <2>5. PICK b \in QueryReplies : QueryReplied(b)
    BY <2>3, <2>4 DEF Exchange, CreateReplied, RetrieveReplied, HttpFailed,
       TransportFailed, End
  <2>6. ~IsFailure(b) /\ mapTaskStatus(b.status) \in {"queued", "running"}
    <3>1. ASSUME NEW c PROVE ReadFailed(c).status \notin Pollable
      BY DEF ReadFailed, Threw, Returned, Pollable
    <3>2. Returned("failed", "provider_failure").status \notin Pollable
      BY DEF Returned, Pollable
    <3> QED BY <2>2, <2>4, <2>5, <3>1, <3>2 DEF QueryReplied, End
  <2>7. said' = Says(b)
    BY <2>5 DEF QueryReplied
  <2>8. CASE b.status = "unknown"
    BY <2>6, <2>7, <2>8, SaysStatus, QueryReplyFacts
  <2>9. CASE b.status # "unknown"
    BY <2>6, <2>9, QueryReplyFacts DEF mapTaskStatus
  <2> QED BY <2>8, <2>9
<1> QED BY <1>1, Inductive, PTL DEF Spec, PendingMeansActive
-----------------------------------------------------------------------------
(* The refinement of JobContract.                                          *)

Charged == task \in {"active"} \cup Closed

\* A task is known only when the provider took the request, a request that
\* nobody answered yet is of a job in submission or given up, and what the
\* replies to a poll told of is on record.
ContractInv ==
  /\ IInv
  /\ tracked => Charged
  /\ awaiting = "submit" /\ outcome.kind = "returned" => Charged
  /\ task = "none" => status = "absent"
  /\ task = "requested" => ~tracked /\ status \in {"queued", "failed"}
  /\ Ruling(said) \subseteq told

StateOf == [j \in {1} |-> Life]
ChargedOf == [j \in {1} |-> Charged]
ToldOf == [j \in {1} |-> told]

ContractStep == Contract!Next \/ UNCHANGED <<StateOf, ChargedOf, ToldOf>>

LEMMA ContractInit == Init => ContractInv /\ Contract!Init
<1> SUFFICES ASSUME Init PROVE ContractInv /\ Contract!Init
  OBVIOUS
<1>1. /\ task = "none" /\ said = {} /\ told = {} /\ outcome = NoOutcome
      /\ status = "absent" /\ ~tracked /\ awaiting = "none"
  BY DEF Init, AdapterInit
<1>2. Ruling(said) = {} /\ ~Charged
  BY <1>1 DEF Ruling, Charged, Closed
<1>3. ContractInv
  BY <1>1, <1>2, InitInv DEF ContractInv
<1>4. Life = "absent"
  BY <1>1 DEF Life, Pollable
<1>5. Contract!Init
  <2>1. (task \in {"active"} \cup Closed) = FALSE
    BY <1>1 DEF Closed
  <2>2. [j \in {1} |-> task \in {"active"} \cup Closed] = [j \in {1} |-> FALSE]
    BY <2>1, Zenon
  <2>3. [j \in {1} |-> Life] = [j \in {1} |-> "absent"]
    BY <1>4
  <2>4. [j \in {1} |-> told] = [j \in {1} |-> {}]
    BY <1>1
  <2> QED BY <2>2, <2>3, <2>4 DEF Contract!Init
<1> QED BY <1>3, <1>5

\* What the mapping shows when the row and the task are left alone.
LEMMA SameLife ==
  ASSUME UNCHANGED <<status, tracked, told>>, Charged' = Charged
  PROVE  UNCHANGED <<StateOf, ChargedOf, ToldOf>>
<1>1. Life' = Life
  BY DEF Life
<1> QED BY <1>1 DEF StateOf, ChargedOf, ToldOf

-----------------------------------------------------------------------------
(* The service's steps.                                                    *)

LEMMA SubmitContract ==
  ASSUME ContractInv, Submit
  PROVE  ContractStep /\ ContractInv'
<1>1. /\ task = "none" /\ task' = "requested" /\ status = "absent"
      /\ status' = "queued" /\ awaiting' = "submit" /\ ~tracked
      /\ UNCHANGED <<tracked, outcome, said, told>>
  BY DEF Submit, Create, ContractInv, IInv, RowInv
<1>2. outcome.kind = "none"
  BY <1>1 DEF ContractInv, IInv, AwaitInv, RowInv, NoOutcome
<1>3. IInv'
  BY SubmitInv DEF ContractInv
<1>4. ~Charged /\ ~Charged'
  BY <1>1 DEF Charged, Closed
<1>5. ContractInv'
  BY <1>1, <1>2, <1>3, <1>4 DEF ContractInv, Ruling
<1>6. Life = "absent" /\ Life' = "submitting"
  BY <1>1 DEF Life, Pollable
<1>7. Contract!Open(1)
  BY <1>1, <1>4, <1>6 DEF Contract!Open, Charged
<1> QED BY <1>5, <1>7 DEF ContractStep, Contract!Next

LEMMA SubmitEndsContract ==
  ASSUME ContractInv, SubmitEnds
  PROVE  ContractStep /\ ContractInv'
<1>1. /\ status = "queued" /\ ~tracked /\ outcome # NoOutcome
      /\ awaiting = "submit" /\ awaiting' = "none"
      /\ UNCHANGED <<task, said, told>>
  BY DEF SubmitEnds, Continue, ContractInv, IInv, RowInv
<1>2. IInv'
  BY SubmitInv DEF ContractInv
<1>3. Charged' = Charged /\ Ruling(said)' = Ruling(said)
  BY <1>1 DEF Charged, Ruling
<1>4. Life = "submitting"
  BY <1>1 DEF Life, Pollable
<1>5. CASE outcome.kind = "returned"
  <2>1. status' = "queued" /\ tracked' = TRUE
    BY <1>1, <1>5 DEF SubmitEnds, ContractInv, IInv, EvidenceInv
  <2>2. Charged /\ task # "requested" /\ task # "none"
    BY <1>1, <1>5 DEF ContractInv, Charged, Closed
  <2>3. ContractInv'
    BY <1>1, <1>2, <1>3, <2>1, <2>2 DEF ContractInv
  <2>4. Life' = "tracked"
    BY <2>1 DEF Life, Pollable
  <2>5. Contract!Track(1)
    BY <1>1, <1>3, <1>4, <2>2, <2>4 DEF Contract!Track, Charged
  <2> QED BY <2>3, <2>5 DEF ContractStep, Contract!Next
<1>6. CASE outcome.kind # "returned"
  <2>1. status' = "failed" /\ tracked' = tracked
    BY <1>6 DEF SubmitEnds
  <2>2. ContractInv'
    BY <1>1, <1>2, <1>3, <2>1 DEF ContractInv
  <2>3. Life' = "failed"
    BY <2>1 DEF Life, Pollable
  <2>4. Contract!GiveUp(1)
    BY <1>1, <1>3, <1>4, <2>3 DEF Contract!GiveUp, Charged
  <2> QED BY <2>2, <2>4 DEF ContractStep, Contract!Next
<1> QED BY <1>5, <1>6

LEMMA ResumeContract ==
  ASSUME ContractInv, Resume
  PROVE  ContractStep /\ ContractInv'
<1>1. /\ status = "tracking_exhausted" /\ tracked /\ status' = "running"
      /\ UNCHANGED <<task, said, told, tracked, awaiting, outcome>>
  BY DEF Resume, adapterVars
<1>2. IInv'
  BY ResumeInv DEF ContractInv
<1>3. Charged' = Charged /\ Ruling(said)' = Ruling(said)
  BY <1>1 DEF Charged, Ruling
<1>4. Charged /\ task # "requested" /\ task # "none"
  BY <1>1 DEF ContractInv, Charged, Closed
<1>5. ContractInv'
  BY <1>1, <1>2, <1>3, <1>4 DEF ContractInv
<1>6. Life = "stalled" /\ Life' = "tracked"
  BY <1>1 DEF Life, Pollable
<1>7. Contract!Resume(1)
  BY <1>1, <1>3, <1>6 DEF Contract!Resume, Charged
<1> QED BY <1>5, <1>7 DEF ContractStep, Contract!Next

-----------------------------------------------------------------------------
(* The poller's steps.                                                     *)

LEMMA PollContract ==
  ASSUME ContractInv, Poll
  PROVE  ContractStep /\ ContractInv'
<1>1. /\ tracked /\ UNCHANGED <<status, tracked, told, task>>
      /\ awaiting' = "poll" /\ said' = {}
  BY DEF Poll, Query
<1>2. IInv'
  BY PollInv DEF ContractInv
<1>3. Charged' = Charged /\ Ruling(said)' = {}
  BY <1>1 DEF Charged, Ruling, Closed
<1>4. ContractInv'
  BY <1>1, <1>2, <1>3 DEF ContractInv
<1> QED BY <1>1, <1>3, <1>4, SameLife DEF ContractStep

LEMMA PollEndsContract ==
  ASSUME ContractInv, PollReturns \/ PollThrows
  PROVE  ContractStep /\ ContractInv'
<1>1. /\ awaiting = "poll" /\ awaiting' = "none"
      /\ status \in Pollable /\ tracked
      /\ UNCHANGED <<task, said, told, tracked>>
  BY DEF PollReturns, PollThrows, Continue, ContractInv, IInv, RowInv
<1>2. IInv'
  BY PollEndsInv DEF ContractInv
<1>3. Charged' = Charged /\ Ruling(said)' = Ruling(said)
  BY <1>1 DEF Charged, Ruling
<1>4. Charged /\ task # "requested" /\ task # "none"
  BY <1>1 DEF ContractInv, Charged, Closed
<1>5. ContractInv'
  BY <1>1, <1>2, <1>3, <1>4 DEF ContractInv
<1>6. Life = "tracked"
  BY <1>1 DEF Life
<1>7. CASE PollReturns
  <2>1. /\ status' = outcome.status
        /\ status' \in {"queued", "running", "succeeded", "failed"}
    BY <1>7 DEF PollReturns, ContractInv, IInv, TypeOK, AdapterTypeOK, AwaitInv,
                Outcome
  <2>2. CASE status' \in Pollable
    <3>1. Life' = "tracked"
      BY <1>1, <2>2 DEF Life
    <3> QED BY <1>1, <1>3, <1>5, <1>6, <3>1
            DEF ContractStep, StateOf, ChargedOf, ToldOf
  <2>3. CASE status' \in Closed
    <3>1. Life' = status'
      BY <2>3 DEF Life, Pollable, Closed
    <3>2. status' \in Ruling(said)
      BY <1>1, <2>1, <2>3 DEF ContractInv, IInv, EvidenceInv, Ruling, Closed
    <3>3. status' \in told
      BY <3>2 DEF ContractInv
    <3>4. Contract!Close(1, status')
      BY <1>1, <1>3, <1>6, <3>1, <3>3 DEF Contract!Close, Charged
    <3> QED BY <1>5, <2>3, <3>4 DEF ContractStep, Contract!Next
  <2> QED BY <2>1, <2>2, <2>3 DEF Pollable, Closed
<1>8. CASE PollThrows
  <2>1. CASE failures + 1 >= MaxAttempts
    <3>1. status' = "tracking_exhausted"
      BY <1>8, <2>1 DEF PollThrows
    <3>2. Life' = "stalled"
      BY <3>1 DEF Life, Pollable
    <3>3. Contract!Stall(1)
      BY <1>1, <1>3, <1>6, <3>2 DEF Contract!Stall, Charged
    <3> QED BY <1>5, <3>3 DEF ContractStep, Contract!Next
  <2>2. CASE ~(failures + 1 >= MaxAttempts)
    <3>1. status' = status
      BY <1>8, <2>2 DEF PollThrows
    <3> QED BY <1>1, <1>3, <1>5, <3>1, SameLife DEF ContractStep
  <2> QED BY <2>1, <2>2
<1> QED BY <1>7, <1>8

-----------------------------------------------------------------------------
(* The wire's steps and the provider's.                                    *)

\* A reply tells of one end at most.
LEMMA OneRuling ==
  ASSUME ContractInv, Exchange
  PROVE  \/ said' = said
         \/ /\ awaiting = "poll"
            /\ ~({"succeeded", "failed"} \subseteq Ruling(said'))
<1>1. CASE \E b \in QueryReplies : QueryReplied(b)
  <2>1. PICK b \in QueryReplies : QueryReplied(b)
    BY <1>1
  <2>2. awaiting = "poll" /\ said' = Says(b)
    BY <2>1 DEF QueryReplied, ContractInv, IInv, TypeOK, AwaitInv
  <2>3. "url" \notin Says(b)
    <3>1. b.url = FALSE
      BY QueryReplyFacts
    <3> QED BY <3>1 DEF Says
  <2> QED BY <2>2, <2>3 DEF Ruling
<1>2. CASE \E b \in FileBodies : RetrieveReplied(b)
  <2>1. PICK b \in FileBodies : RetrieveReplied(b)
    BY <1>2
  <2> DEFINE c == [b EXCEPT !.status = "success"]
  <2>2. /\ awaiting = "poll" /\ said' = {"success"} \cup Says(c)
    BY <2>1 DEF RetrieveReplied, ContractInv, IInv, TypeOK, AwaitInv, EvidenceInv
  <2>3. c.status = "success"
    BY FileReplyFacts
  <2> HIDE DEF c
  <2>4. CASE IsFailure(c)
    <3>1. "url" \notin said'
      BY <2>2, <2>4 DEF Says
    <3> QED BY <2>2, <3>1 DEF Ruling
  <2>5. CASE ~IsFailure(c)
    <3>1. said' \subseteq {"success", "url"}
      BY <2>2, <2>3, <2>5 DEF Says
    <3> QED BY <2>2, <3>1 DEF Ruling
  <2> QED BY <2>4, <2>5
<1>3. ASSUME NEW b, CreateReplied(b) PROVE said' = said
  BY <1>3 DEF CreateReplied
<1>4. ASSUME NEW http, NEW b, HttpFailed(http, b) PROVE said' = said
  BY <1>4 DEF HttpFailed
<1>5. TransportFailed => said' = said
  BY DEF TransportFailed
<1> QED BY <1>1, <1>2, <1>3, <1>4, <1>5 DEF Exchange

\* The adapter returns a task id only for a request the provider took.
LEMMA ReturnedIsCharged ==
  ASSUME ContractInv, Replied, awaiting = "submit", outcome'.kind = "returned"
  PROVE  Charged
<1>1. call \in {"create", "idle"} /\ status = "queued" /\ outcome # outcome'
  <2>1. call \in {"create", "idle"} /\ status = "queued"
    BY DEF ContractInv, IInv, AwaitInv, RowInv
  <2>2. call # "idle"
    BY DEF Replied, Exchange, CreateReplied, QueryReplied, RetrieveReplied,
           HttpFailed, TransportFailed
  <2>3. outcome.kind = "none"
    BY <2>2 DEF ContractInv, IInv, AwaitInv
  <2> QED BY <2>1, <2>3
<1>2. ASSUME NEW c PROVE Threw(c).kind # "returned"
  BY DEF Threw
<1>3. PICK b \in CreateReplies : CreateReplied(b)
  BY <1>1, <1>2 DEF Replied, Exchange, QueryReplied, RetrieveReplied, HttpFailed,
     TransportFailed, End
<1>4. ~IsFailure(b) /\ b.task_id
  <2>1. b.task_id \in BOOLEAN
    BY CreateReplyFacts
  <2> QED BY <1>2, <1>3, <2>1 DEF CreateReplied, End
<1>5. task \notin {"requested", "refused"}
  BY <1>4 DEF CreateReplies
<1> QED BY <1>1, <1>5 DEF ContractInv, IInv, TypeOK, AdapterTypeOK, Charged, Closed

LEMMA RepliedContract ==
  ASSUME ContractInv, Replied
  PROVE  ContractStep /\ ContractInv'
<1>1. /\ UNCHANGED <<status, tracked, awaiting, task>>
      /\ told' = told \cup Ruling(said')
  BY DEF Replied, jobVars, Exchange, CreateReplied, QueryReplied, RetrieveReplied,
         HttpFailed, TransportFailed
<1>2. IInv'
  BY RepliedInv DEF ContractInv
<1>3. Charged' = Charged /\ Ruling(said)' = Ruling(said')
  BY <1>1 DEF Charged, Ruling
<1>4. ContractInv'
  BY <1>1, <1>2, <1>3, ReturnedIsCharged DEF ContractInv
<1>5. CASE told' = told
  BY <1>1, <1>3, <1>4, <1>5, SameLife DEF ContractStep
<1>6. CASE told' # told
  <2>1. said' # said
    BY <1>1, <1>6 DEF ContractInv
  <2>2. awaiting = "poll" /\ ~({"succeeded", "failed"} \subseteq Ruling(said'))
    BY <2>1, OneRuling DEF Replied
  <2>3. PICK v \in Closed : told' = told \cup {v}
    <3>1. Ruling(said') \subseteq Closed /\ Ruling(said') # {}
      BY <1>1, <1>6 DEF Ruling
    <3>2. Ruling(said') = {"succeeded"} \/ Ruling(said') = {"failed"}
      BY <2>2, <3>1 DEF Closed
    <3> QED BY <1>1, <3>2 DEF Closed
  <2>4. Life = "tracked" /\ Life' = Life
    BY <1>1, <2>2 DEF ContractInv, IInv, RowInv, Life
  <2>5. Contract!Rule(1, v)
    BY <1>3, <2>3, <2>4 DEF Contract!Rule, Charged
  <2> QED BY <1>4, <2>5 DEF ContractStep, Contract!Next
<1> QED BY <1>5, <1>6

LEMMA ProvidedContract ==
  ASSUME ContractInv, Provided
  PROVE  ContractStep /\ ContractInv'
<1>1. UNCHANGED <<status, tracked, awaiting, told, outcome, said>>
  BY DEF Provided, Takes, Refuses, TaskEnds, Ends, jobVars
<1>2. IInv'
  BY ProviderInv DEF ContractInv
<1>3. Life' = Life /\ Ruling(said)' = Ruling(said)
  BY <1>1 DEF Life, Ruling
<1>4. CASE Takes
  <2>1. task = "requested" /\ task' = "active" /\ ~Charged /\ Charged'
    BY <1>4 DEF Takes, Charged, Closed
  <2>2. ContractInv'
    BY <1>1, <1>2, <1>3, <2>1 DEF ContractInv
  <2>3. Life \in {"submitting", "failed"}
    BY <2>1 DEF ContractInv, Life, Pollable
  <2>4. Contract!Charge(1)
    BY <1>1, <1>3, <2>1, <2>3 DEF Contract!Charge, Charged
  <2> QED BY <2>2, <2>4 DEF ContractStep, Contract!Next
<1>5. CASE Refuses \/ TaskEnds
  <2>1. /\ Charged' = Charged /\ task' \notin {"none", "requested"}
    BY <1>5 DEF Refuses, TaskEnds, Ends, Charged, Closed
  <2>2. ContractInv'
    BY <1>1, <1>2, <1>3, <2>1 DEF ContractInv
  <2> QED BY <1>1, <2>1, <2>2, SameLife DEF ContractStep
<1> QED BY <1>4, <1>5 DEF Provided

LEMMA RestartContract ==
  ASSUME ContractInv, Restart
  PROVE  ContractStep /\ ContractInv'
<1>1. /\ status # "absent" /\ awaiting' = "none"
      /\ UNCHANGED <<task, said, told, tracked>>
  BY DEF Restart
<1>2. IInv'
  BY RestartInv DEF ContractInv
<1>3. Charged' = Charged /\ Ruling(said)' = Ruling(said)
  BY <1>1 DEF Charged, Ruling
<1>4. CASE status \in Pollable /\ ~tracked
  <2>1. status' = "failed"
    BY <1>4 DEF Restart
  <2>2. ContractInv'
    BY <1>1, <1>2, <1>3, <1>4, <2>1 DEF ContractInv
  <2>3. Life = "submitting" /\ Life' = "failed"
    BY <1>4, <2>1 DEF Life, Pollable
  <2>4. Contract!GiveUp(1)
    BY <1>1, <1>3, <2>3 DEF Contract!GiveUp, Charged
  <2> QED BY <2>2, <2>4 DEF ContractStep, Contract!Next
<1>5. CASE ~(status \in Pollable /\ ~tracked)
  <2>1. status' = status
    BY <1>5 DEF Restart
  <2>2. ContractInv'
    BY <1>1, <1>2, <1>3, <2>1 DEF ContractInv
  <2> QED BY <1>1, <1>3, <2>1, <2>2, SameLife DEF ContractStep
<1> QED BY <1>4, <1>5

-----------------------------------------------------------------------------
LEMMA ContractSteps ==
  ASSUME ContractInv, [Next]_vars
  PROVE  ContractStep /\ ContractInv'
<1>1. CASE UNCHANGED vars
  <2>1. /\ UNCHANGED <<status, tracked, awaiting, told, task, outcome, said>>
        /\ IInv'
    BY <1>1, StepInv DEF vars, adapterVars, jobVars, ContractInv
  <2>2. Charged' = Charged /\ Ruling(said)' = Ruling(said)
    BY <2>1 DEF Charged, Ruling
  <2>3. ContractInv'
    BY <2>1, <2>2 DEF ContractInv
  <2> QED BY <2>1, <2>2, <2>3, SameLife DEF ContractStep
<1>2. CASE Next
  BY <1>2, SubmitContract, SubmitEndsContract, ResumeContract, PollContract,
     PollEndsContract, RepliedContract, ProvidedContract, RestartContract DEF Next
<1> QED BY <1>1, <1>2

(* Whatever the wire replies, a paid job keeps the promise of JobContract: *)
(* its row is closed only by an end that a readable reply told of, and is  *)
(* given up only while no task of it is known (pollOne, mapQueryResult,    *)
(* MinimaxProvider.create).                                                *)
THEOREM PaidJobsKeepTheContract == Spec => PaidJobKeepsContract
<1>1. ContractInv /\ [Next]_vars => [Contract!Next]_(Contract!vars)
  BY ContractSteps DEF ContractStep, Contract!vars, StateOf, ChargedOf, ToldOf,
     Charged
<1>2. ContractInv /\ [Next]_vars => ContractInv'
  BY ContractSteps
<1> QED BY ContractInit, <1>1, <1>2, PTL DEF Spec, PaidJobKeepsContract, Contract!Spec
=============================================================================
