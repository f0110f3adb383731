--------------------------- MODULE MinimaxAdapter ---------------------------
(***************************************************************************)
(* The MiniMax adapter between the generation service or the poller and    *)
(* the wire: one create, then any number of queries of the task it         *)
(* started, each of one or two HTTP exchanges.  What a call returns or     *)
(* throws decides whether a paid job is closed, waits or counts a failure; *)
(* module PaidJob says how.                                                *)
(*                                                                         *)
(* Calls share no state, so one job is enough.  A body is what the         *)
(* mapping's readers can find in it: a body that is no JSON object reads   *)
(* like an empty one.                                                      *)
(***************************************************************************)
EXTENDS Naturals

CONSTANT HttpErrors   \* the non-2xx statuses the wire may answer with

ASSUME HttpErrorsAssumption == HttpErrors \subseteq 300..599

Transient == {"rate_limit", "provider_failure"}
Definitive == {"auth", "insufficient_balance", "content_moderation",
               "invalid_request"}
Categories == Transient \cup Definitive

Codes == {"none", "ok", "1002", "1004", "1026", "other"}   \* base_resp
Words == {"balance", "moderation", "rate", "auth"}         \* in the message
Progress == {"preparing", "queueing", "processing"}
WireStatuses == Progress \cup {"success", "fail", "unknown"}

EmptyBody == [code |-> "none", status |-> "unknown", task_id |-> FALSE,
              file_id |-> FALSE, url |-> FALSE, words |-> {}]

\* Bodies with a code, a status, a task id, a file id, a URL, and such words.
Bodies(status, task_id, file_id, url, words) ==
  [code : Codes, status : status, task_id : task_id, file_id : file_id,
   url : url, words : words]
No == {FALSE}
ErrorBodies == Bodies({"unknown"}, No, No, No, SUBSET Words)
CreateBodies == Bodies({"unknown"}, BOOLEAN, No, No, {{}})
QueryBodies == Bodies(WireStatuses, No, BOOLEAN, No, {{}})
FileBodies == Bodies({"unknown"}, No, No, BOOLEAN, {{}})

VARIABLES
  task,      \* the create request at the provider ("none", "requested",
             \* "refused"), and the task it becomes ("active", how it ended)
  call,      \* the exchange whose reply is awaited, or "idle"
  outcome,   \* what the present or last call of the adapter gave
  said       \* history: what the 2xx replies of that call said

adapterVars == <<task, call, outcome, said>>

Outcome == [kind : {"none", "returned", "threw"},
            status : {"none", "queued", "running", "succeeded", "failed"},
            category : Categories \cup {"none"}]

AdapterTypeOK ==
  /\ task \in {"none", "requested", "refused", "active", "succeeded", "failed"}
  /\ call \in {"idle", "create", "query", "retrieve"}
  /\ outcome \in Outcome
  /\ said \in SUBSET {"success", "fail", "transient", "definitive", "unknown",
                      "url"}

NoOutcome == [kind |-> "none", status |-> "none", category |-> "none"]

AdapterInit ==
  /\ task = "none" /\ call = "idle"
  /\ outcome = NoOutcome /\ said = {}

-----------------------------------------------------------------------------
(* The mapping.                                                            *)

isRetryableProviderCategory(c) == c \in Transient

classifyBaseResp(code) ==
  CASE code = "1004" -> "auth"
    [] code = "1002" -> "rate_limit"
    [] code = "1026" -> "content_moderation"   \* and 1027
    [] OTHER         -> "provider_failure"

\* baseRespFailure: the body carries a nonzero numeric status_code.
IsFailure(b) == b.code \notin {"none", "ok"}

\* The first of the keyword patterns that matches.
classifyWords(w) ==
  CASE "balance" \in w    -> "insufficient_balance"
    [] "balance" \notin w /\ "moderation" \in w -> "content_moderation"
    [] w \cap {"balance", "moderation"} = {} /\ "rate" \in w -> "rate_limit"
    [] OTHER              -> "auth"

classifyHttpFailure(http, b) ==
  CASE IsFailure(b) -> classifyBaseResp(b.code)
    [] ~IsFailure(b) /\ http = 401 -> "auth"
    [] ~IsFailure(b) /\ http = 402 -> "insufficient_balance"
    [] ~IsFailure(b) /\ http = 429 -> "rate_limit"
    [] ~IsFailure(b) /\ http = 422 -> "content_moderation"
    [] ~IsFailure(b) /\ http \notin {401, 402, 422, 429} ->
         IF b.words # {} THEN classifyWords(b.words)
         ELSE IF http \in 400..499 THEN "invalid_request"
         ELSE "provider_failure"

mapTaskStatus(s) ==
  CASE s \in {"preparing", "queueing"} -> "queued"
    [] s = "success"                   -> "succeeded"
    [] s = "fail"                      -> "failed"
    [] OTHER                           -> "running"

-----------------------------------------------------------------------------
(* How a call ends.                                                        *)

Returned(s, c) == [kind |-> "returned", status |-> s, category |-> c]
Threw(c) == [kind |-> "threw", status |-> "none", category |-> c]

End(o) == call' = "idle" /\ outcome' = o

\* Mutant: any base_resp error on the read path ends the job.
ReadFailedAlways(c) == Returned("failed", c)

\* A base_resp error on the read path: thrown, so that the poller counts it
\* and keeps the row, or returned as the job's end.
ReadFailed(c) ==
  IF isRetryableProviderCategory(c) THEN Threw(c) ELSE Returned("failed", c)

\* What a 2xx read-path reply says, for the properties.
Says(b) ==
  IF IsFailure(b)
    THEN IF classifyBaseResp(b.code) \in Transient THEN {"transient"}
                                                  ELSE {"definitive"}
    ELSE (IF b.status \in {"success", "fail", "unknown"} THEN {b.status}
                                                         ELSE {})
           \cup (IF b.url THEN {"url"} ELSE {})

-----------------------------------------------------------------------------
(* The calls.                                                              *)

Create ==
  /\ call = "idle" /\ task = "none"
  /\ call' = "create" /\ task' = "requested"
  /\ UNCHANGED <<outcome, said>>

\* Mutant: a reply without a task id is taken for a refusal.
CreateRepliedInvalid(b) ==
  /\ call = "create"
  /\ End(CASE IsFailure(b) -> Threw(classifyBaseResp(b.code))
           [] ~IsFailure(b) /\ ~b.task_id -> Threw("invalid_request")
           [] ~IsFailure(b) /\ b.task_id -> Returned("queued", "none"))
  /\ UNCHANGED <<task, said>>

\* A 2xx reply to the create.
CreateReplied(b) ==
  /\ call = "create"
  /\ End(CASE IsFailure(b) -> Threw(classifyBaseResp(b.code))
           [] ~IsFailure(b) /\ ~b.task_id -> Threw("provider_failure")
           [] ~IsFailure(b) /\ b.task_id -> Returned("queued", "none"))
  /\ UNCHANGED <<task, said>>

Query ==
  /\ call = "idle" /\ outcome = NoOutcome
  /\ call' = "query"
  /\ said' = {}
  /\ UNCHANGED <<task, outcome>>

\* A 2xx reply to the query; a finished task with a file takes a second
\* exchange.
QueryReplied(b) ==
  /\ call = "query"
  /\ said' = Says(b)
  /\ LET s == mapTaskStatus(b.status) IN
       \/ IsFailure(b) /\ End(ReadFailed(classifyBaseResp(b.code)))
       \/ /\ ~IsFailure(b) /\ s = "succeeded" /\ b.file_id
          /\ call' = "retrieve"
          /\ UNCHANGED outcome
       \/ /\ ~IsFailure(b) /\ s = "succeeded" /\ ~b.file_id
          /\ End(Threw("provider_failure"))
       \/ /\ ~IsFailure(b) /\ s = "failed"
          /\ End(Returned("failed", "provider_failure"))
       \/ /\ ~IsFailure(b) /\ s \in {"queued", "running"}
          /\ End(Returned(s, "none"))
  /\ UNCHANGED task

\* A 2xx reply to the retrieval of the file.
RetrieveReplied(b) ==
  /\ call = "retrieve"
  /\ said' = said \cup Says([b EXCEPT !.status = "success"])
  /\ End(CASE IsFailure(b) -> ReadFailed(classifyBaseResp(b.code))
           [] ~IsFailure(b) /\ ~b.url -> Threw("provider_failure")
           [] ~IsFailure(b) /\ b.url -> Returned("succeeded", "none"))
  /\ UNCHANGED task

\* A reply with another HTTP status throws, whatever the exchange was.
HttpFailed(http, b) ==
  /\ call # "idle"
  /\ End(Threw(classifyHttpFailure(http, b)))
  /\ UNCHANGED <<task, said>>

\* The transport's timeout aborts the request, or the connection fails.
TransportFailed ==
  /\ call # "idle"
  /\ End(Threw("provider_failure"))
  /\ UNCHANGED <<task, said>>

-----------------------------------------------------------------------------
(* The provider, which is external.  It takes or refuses a request, also   *)
(* one whose caller has given up.  A request it took is answered with the  *)
(* task's id, with a body that was cut short, by a gateway that knows      *)
(* nothing of it, or never; one it refused, with an error.  The status it  *)
(* tells is the task's own, or one the mapping does not know.              *)

Takes ==
  /\ task = "requested"
  /\ task' = "active"
  /\ UNCHANGED <<call, outcome, said>>

Refuses ==
  /\ task = "requested"
  /\ task' = "refused"
  /\ UNCHANGED <<call, outcome, said>>

Ends(v) ==
  /\ task = "active"
  /\ task' = v
  /\ UNCHANGED <<call, outcome, said>>

CreateReplies ==
  {b \in CreateBodies :
     CASE task = "requested" -> FALSE
       [] task = "refused"   -> ~b.task_id
       [] OTHER              -> ~IsFailure(b) /\ (b.task_id \/ b = EmptyBody)}

QueryReplies ==
  {b \in QueryBodies :
     IsFailure(b) \/ b.status \in {"unknown"}
                       \cup (CASE task = "active"    -> Progress
                               [] task = "succeeded" -> {"success"}
                               [] task = "failed"    -> {"fail"}
                               [] OTHER              -> {})}

\* A gateway's error is a 5xx and no JSON; any other error is the provider's.
HttpReplies(http) ==
  IF call # "create" \/ task = "refused" THEN ErrorBodies
  ELSE IF http >= 500 THEN {EmptyBody} ELSE {}

-----------------------------------------------------------------------------
\* The exchange under way takes a step.
Exchange ==
  \/ \E b \in CreateReplies : CreateReplied(b)
  \/ \E b \in QueryReplies : QueryReplied(b)
  \/ \E b \in FileBodies : RetrieveReplied(b)
  \/ \E http \in HttpErrors : \E b \in HttpReplies(http) : HttpFailed(http, b)
  \/ TransportFailed

TaskEnds == \E v \in {"succeeded", "failed"} : Ends(v)
=============================================================================
