---------------------------- MODULE JobDetailView ----------------------------
(***************************************************************************)
(* The job detail page of the client (JobDetail in Jobs.tsx) and what it   *)
(* talks to: its requests, which may be lost or answered late, and a       *)
(* server that keeps the promise of JobContract and buys one generation    *)
(* per token.                                                              *)
(*                                                                         *)
(* The page is one React component that stays mounted while the user goes  *)
(* from job to job and is mounted anew after any other page.  A handler    *)
(* suspended at an await keeps what it closed over and, through refs, sees *)
(* what its own instance shows now.  A step is the code between two        *)
(* awaits, with the rendering and the effects it brings about.             *)
(***************************************************************************)
EXTENDS Naturals, FiniteSets

CONSTANTS
  MaxJobs,      \* bound: jobs
  MaxLoads,     \* bound: loads of the page under way at once
  MaxMounts,    \* bound: instances of the page
  MaxMoves,     \* bound: navigations by the user
  MaxRetries,   \* bound: clicks on Regenerate
  MaxResumes    \* bound: clicks on Resume tracking

ASSUME BoundsAssumption ==
  /\ MaxJobs \in Nat /\ MaxLoads \in Nat \ {0} /\ MaxMounts \in Nat /\ MaxMoves \in Nat
  /\ MaxRetries \in Nat /\ MaxResumes \in Nat

Jobs == 1..MaxJobs
Mounts == 1..MaxMounts
Retries == 1..MaxRetries   \* in the order of the clicks
Resumes == 1..MaxResumes
None == 0                  \* no job; as a page: any page but this one

\* "running" stands for queued too, "failed" for expired.
TERMINAL == {"succeeded", "failed"}
STOP_POLLING == TERMINAL \cup {"tracking_exhausted"}
Statuses == STOP_POLLING \cup {"running"}

\* A load is under way to the server, or its answer is on the way back.
Loads == {"asked"} \cup Statuses

VARIABLES
  (* the server *)
  status,      \* the job's status, or "absent"
  bought,      \* which job a token bought, as a set of pairs
  (* the browser *)
  page,        \* the job the page is about
  mounts,      \* instances mounted so far; the last one lives if page # None
  jobIdRef,    \* the job each instance was last rendered for
  tokens,      \* tokensByJobId: the number of the job's token; 0: none yet
  retryToken,  \* the token the next click on Regenerate sends
  job,         \* what is shown: a job and its status
  retrying, resuming,
  timer,       \* the page polls
  loads,       \* the loads under way, as a bag: how many of each kind
  retries,     \* the retry handlers, in the order of the clicks
  resumes,     \* the resume handlers
  moves,       \* navigations by the user so far
  straggler    \* history: what is shown came after another answer had
               \* stopped the polling, and would not have stopped it

server == <<status, bought>>
tokenVars == <<tokens, retryToken>>
shownVars == <<job, timer, loads, straggler>>
vars == <<server, page, mounts, jobIdRef, tokenVars, shownVars, retrying,
          resuming, retries, resumes, moves>>

-----------------------------------------------------------------------------
\* A token is told from all others by the instance that minted it, the job
\* it was minted for, and how many that job had before.
Token(m, j, n) == <<m, j, n>>

NoJob == [id |-> None, status |-> "absent"]

NoLoads == [l \in Loads |-> 0]

LoadsUnderWay ==
  Cardinality({p \in Loads \X (1..MaxLoads) : p[2] <= loads[p[1]]})

\* phase: what the client makes of the call ("open" until it knows); served:
\* the server has dealt with it; reply: the job it answers with, until the
\* client has heard it or given up; fresh: the reply says that this very call
\* created it; alone: history, whether no other retry of the job was open at
\* the click.
NoRetry == [phase |-> "none", job |-> None, mount |-> 0,
            token |-> Token(0, None, 0), served |-> FALSE, reply |-> NoJob,
            fresh |-> FALSE, alone |-> TRUE]

NoResume == [phase |-> "none", job |-> None, mount |-> 0, served |-> FALSE,
             reply |-> "none"]

Answered == {n \in Retries : retries[n].phase = "returned"}

JobRecords == [id : Jobs \cup {None}, status : Statuses \cup {"absent"}]
Tokens == (0..MaxMounts) \X (Jobs \cup {None}) \X (0..(MaxRetries + 1))
RetryRecords ==
  [phase : {"none", "open", "returned", "threw"}, job : Jobs \cup {None},
   mount : 0..MaxMounts, token : Tokens, served : BOOLEAN, reply : JobRecords,
   fresh : BOOLEAN, alone : BOOLEAN]
ResumeRecords ==
  [phase : {"none", "open", "settled"}, job : Jobs \cup {None},
   mount : 0..MaxMounts, served : BOOLEAN, reply : Statuses \cup {"none"}]

\* Beside the types: a token is minted by a job's first visit or an answer.
TypeOK ==
  /\ status \in [Jobs -> Statuses \cup {"absent"}]
  /\ bought \in SUBSET (Tokens \X Jobs)
  /\ page \in Jobs \cup {None}
  /\ mounts \in 0..MaxMounts
  /\ jobIdRef \in [Mounts -> Jobs \cup {None}]
  /\ tokens \in [Jobs -> 0..(Cardinality(Answered) + 1)]
  /\ retryToken \in Tokens
  /\ job \in JobRecords
  /\ retrying \in BOOLEAN /\ resuming \in BOOLEAN /\ timer \in BOOLEAN
  /\ straggler \in BOOLEAN
  /\ loads \in [Loads -> Nat]
  /\ retries \in [Retries -> RetryRecords]
  /\ resumes \in [Resumes -> ResumeRecords]
  /\ moves \in 0..MaxMoves

\* One or two jobs exist, in whatever state, and another page is open.
Init ==
  /\ status \in {s \in [Jobs -> Statuses \cup {"absent"}] :
                   \E k \in 1..2 : \A j \in Jobs : s[j] = "absent" <=> j > k}
  /\ bought = {}
  /\ page = None /\ mounts = 0 /\ jobIdRef = [m \in Mounts |-> None]
  /\ tokens = [j \in Jobs |-> 0] /\ retryToken = Token(0, None, 0)
  /\ job = NoJob /\ timer = FALSE /\ loads = NoLoads /\ straggler = FALSE
  /\ retrying = FALSE /\ resuming = FALSE
  /\ retries = [n \in Retries |-> NoRetry]
  /\ resumes = [n \in Resumes |-> NoResume]
  /\ moves = 0

-----------------------------------------------------------------------------
(* Rendering.                                                              *)

\* The job's token in the cache c, minted if it has none.
getRetryToken(c, j) == [c EXCEPT ![j] = IF @ = 0 THEN 1 ELSE @]

rotateRetryToken(j) == [tokens EXCEPT ![j] = @ + 1]

\* Mutant: the flag is not reset.
ResetRetryTokenOnly(j) ==
  /\ retryToken' = Token(mounts', j, tokens'[j])
  /\ retrying' = (retrying /\ page # None)

\* The effect of a change of job.
ResetRetry(j) ==
  /\ retryToken' = Token(mounts', j, tokens'[j])
  /\ retrying' = FALSE

\* The effect that polls starts: it loads at once and sets the timer; what
\* its predecessor has under way is ignored.
StartPolling ==
  /\ loads' = [NoLoads EXCEPT !["asked"] = 1]
  /\ timer' = TRUE
  /\ straggler' = FALSE

\* The page is rendered for job j, in a new instance if none is mounted, and
\* its effects run; c is the token cache.
Show(j, c) ==
  /\ page' = j
  /\ mounts' = IF page = None THEN mounts + 1 ELSE mounts
  /\ jobIdRef' = [jobIdRef EXCEPT ![mounts'] = j]
  /\ tokens' = getRetryToken(c, j)
  /\ ResetRetry(j)
  /\ StartPolling
  /\ UNCHANGED <<job, resuming>>

\* The user opens the page of job j, from a list, a link or the history.
Open(j) ==
  /\ page # j /\ status[j] # "absent"
  /\ page = None => mounts < MaxMounts
  /\ moves < MaxMoves
  /\ moves' = moves + 1
  /\ UNCHANGED <<server, retries, resumes>>
  /\ Show(j, tokens)

\* The user goes to another page: the instance is unmounted and its state is
\* gone, but not the ref its handlers hold.
Leave ==
  /\ page # None
  /\ page' = None
  /\ job' = NoJob /\ loads' = NoLoads /\ timer' = FALSE /\ straggler' = FALSE
  /\ tokens' = [j \in Jobs |-> 0] /\ retryToken' = Token(0, None, 0)
  /\ retrying' = FALSE /\ resuming' = FALSE
  /\ UNCHANGED <<server, mounts, jobIdRef, retries, resumes, moves>>

-----------------------------------------------------------------------------
(* Polling.                                                                *)

\* The timer fires, whatever loads are still under way.
Tick ==
  /\ page # None /\ timer
  /\ LoadsUnderWay < MaxLoads
  /\ loads' = [loads EXCEPT !["asked"] = @ + 1]
  /\ UNCHANGED <<server, page, mounts, jobIdRef, tokenVars, job, timer,
                 straggler, retrying, resuming, retries, resumes, moves>>

\* The server reads the job for a load (getJob).
LoadServed ==
  /\ loads["asked"] > 0
  /\ loads' = [loads EXCEPT !["asked"] = @ - 1, ![status[page]] = @ + 1]
  /\ UNCHANGED <<server, page, mounts, jobIdRef, tokenVars, job, timer,
                 straggler, retrying, resuming, retries, resumes, moves>>

\* Answers come in any order, also after one that stopped the polling.
LoadReturns(s) ==
  /\ loads[s] > 0
  /\ loads' = [loads EXCEPT ![s] = @ - 1]
  /\ job' = [id |-> page, status |-> s]
  /\ timer' = (timer /\ s \notin STOP_POLLING)
  /\ straggler' = (~timer /\ s \notin STOP_POLLING)
  /\ UNCHANGED <<server, page, mounts, jobIdRef, tokenVars, retrying, resuming,
                 retries, resumes, moves>>

\* A load fails.  One whose answer is lost is like one the server never saw,
\* which is not changed by being read.
LoadThrows ==
  /\ loads["asked"] > 0
  /\ loads' = [loads EXCEPT !["asked"] = @ - 1]
  /\ UNCHANGED <<server, page, mounts, jobIdRef, tokenVars, job, timer,
                 straggler, retrying, resuming, retries, resumes, moves>>

-----------------------------------------------------------------------------
(* Regenerate.                                                             *)

\* The handler of retry n ends.
RetryEnds(n, p) ==
  retries' = [retries EXCEPT ![n].phase = p, ![n].reply = NoJob,
                             ![n].fresh = FALSE]

OpenRetries(j) == {n \in Retries : retries[n].phase = "open"
                                     /\ retries[n].job = j}

\* The click: the button is there for the job that is shown, the request is
\* for the job the page is about.
retry(n) ==
  /\ page # None /\ job.status = "failed" /\ ~retrying
  /\ retries[n].phase = "none"
  /\ \A m \in Retries : m < n => retries[m].phase # "none"
  /\ retrying' = TRUE
  /\ retries' = [retries EXCEPT ![n] =
       [NoRetry EXCEPT !.phase = "open", !.job = page, !.mount = mounts,
                       !.token = retryToken,
                       !.alone = OpenRetries(page) = {}]]
  /\ UNCHANGED <<server, page, mounts, jobIdRef, tokenVars, shownVars, resuming,
                 resumes, moves>>

Alive(m) == m = mounts /\ page # None

\* Mutant: the handler looks at the job it closed over.
IsCurrentAlways(m, j) == TRUE

\* attemptJobId === jobIdRef.current, in a handler of instance m.
IsCurrent(m, j) == jobIdRef[m] = j

\* Mutant: a call that failed also rotates the token.
RetryThrowsRotating(n) ==
  LET r == retries[n] IN
  /\ r.phase = "open"
  /\ RetryEnds(n, "threw")
  /\ IF Alive(r.mount)
       THEN /\ tokens' = rotateRetryToken(r.job)
            /\ retryToken' = Token(mounts, page, tokens'[page])
            /\ retrying' = (retrying /\ ~IsCurrent(r.mount, r.job))
       ELSE UNCHANGED <<tokenVars, retrying>>
  /\ UNCHANGED <<server, page, mounts, jobIdRef, shownVars, resuming, resumes,
                 moves>>

\* The request or its answer is lost, or the server refused: the token stays.
RetryThrows(n) ==
  LET r == retries[n] IN
  /\ r.phase = "open"
  /\ RetryEnds(n, "threw")
  /\ retrying' = (retrying /\ ~(Alive(r.mount) /\ IsCurrent(r.mount, r.job)))
  /\ UNCHANGED <<server, page, mounts, jobIdRef, tokenVars, shownVars, resuming,
                 resumes, moves>>

\* The server answered: the token is rotated and, if the handler finds its
\* job current, the page of the new job is opened unless that is closed
\* already.  An unmounted instance still opens pages.
RetryReturns(n) ==
  LET r == retries[n]
      c == IF Alive(r.mount) THEN rotateRetryToken(r.job) ELSE tokens
      current == IsCurrent(r.mount, r.job)
      opens == current /\ (r.fresh \/ r.reply.status \notin TERMINAL)
  IN
  /\ r.phase = "open" /\ r.reply # NoJob
  /\ RetryEnds(n, "returned")
  /\ UNCHANGED server
  /\ \/ /\ opens /\ page # r.reply.id
        /\ page = None => mounts < MaxMounts
        /\ Show(r.reply.id, c)
     \/ /\ ~opens \/ page = r.reply.id
        /\ tokens' = c
        /\ IF Alive(r.mount) /\ current
             THEN /\ retryToken' = Token(mounts, r.job, c[r.job])
                  /\ retrying' = FALSE
             ELSE UNCHANGED <<retryToken, retrying>>
        /\ UNCHANGED <<page, mounts, jobIdRef, shownVars, resuming>>
  /\ UNCHANGED <<resumes, moves>>

-----------------------------------------------------------------------------
(* Resume tracking.                                                        *)

ResumeEnds(n) ==
  resumes' = [resumes EXCEPT ![n].phase = "settled", ![n].reply = "none"]

resumeTracking(n) ==
  /\ page # None /\ job.status = "tracking_exhausted" /\ ~resuming
  /\ resumes[n].phase = "none"
  /\ \A m \in Resumes : m < n => resumes[m].phase # "none"
  /\ resuming' = TRUE
  /\ resumes' = [resumes EXCEPT ![n] =
       [NoResume EXCEPT !.phase = "open", !.job = page, !.mount = mounts]]
  /\ UNCHANGED <<server, page, mounts, jobIdRef, tokenVars, shownVars, retrying,
                 retries, moves>>

\* Mutant: the polling is not started again.
ResumeReturnsOnly(n) ==
  LET r == resumes[n] IN
  /\ r.phase = "open" /\ r.reply \in Statuses
  /\ ResumeEnds(n)
  /\ IF Alive(r.mount) /\ IsCurrent(r.mount, r.job)
       THEN /\ job' = [id |-> r.job, status |-> r.reply]
            /\ resuming' = FALSE
            /\ UNCHANGED <<loads, timer, straggler>>
       ELSE UNCHANGED <<shownVars, resuming>>
  /\ UNCHANGED <<server, page, mounts, jobIdRef, tokenVars, retrying, retries,
                 moves>>

\* If its job is still current, the answer is shown and polling starts again.
ResumeReturns(n) ==
  LET r == resumes[n] IN
  /\ r.phase = "open" /\ r.reply \in Statuses
  /\ ResumeEnds(n)
  /\ IF Alive(r.mount) /\ IsCurrent(r.mount, r.job)
       THEN /\ job' = [id |-> r.job, status |-> r.reply]
            /\ StartPolling
            /\ resuming' = FALSE
       ELSE UNCHANGED <<shownVars, resuming>>
  /\ UNCHANGED <<server, page, mounts, jobIdRef, tokenVars, retrying, retries,
                 moves>>

ResumeThrows(n) ==
  LET r == resumes[n] IN
  /\ r.phase = "open"
  /\ ResumeEnds(n)
  /\ resuming' = (resuming /\ ~(Alive(r.mount) /\ IsCurrent(r.mount, r.job)))
  /\ UNCHANGED <<server, page, mounts, jobIdRef, tokenVars, shownVars, retrying,
                 retries, moves>>

-----------------------------------------------------------------------------
(* The server, as the client sees it (GenerationJobs).  A request may be   *)
(* served after the client gave up on it.                                  *)

BoughtBy(t) == {j \in Jobs : <<t, j>> \in bought}

\* Retry n is dealt with; the answer is for the client that still waits.
RetryAnswered(n, a, new) ==
  LET heard == retries[n].phase = "open" IN
  retries' = [retries EXCEPT ![n].served = TRUE,
                             ![n].reply = IF heard THEN a ELSE NoJob,
                             ![n].fresh = heard /\ new]

\* generationService.retry: only a failed job, and one new job per token.
RetryServed(n) ==
  LET r == retries[n] IN
  /\ r.phase # "none" /\ ~r.served
  /\ \/ /\ status[r.job] # "failed"
        /\ RetryAnswered(n, NoJob, FALSE)
        /\ UNCHANGED server
     \/ \E j \in BoughtBy(r.token) :
          /\ status[r.job] = "failed"
          /\ RetryAnswered(n, [id |-> j, status |-> status[j]], FALSE)
          /\ UNCHANGED server
     \/ \E j \in Jobs, s \in {"running", "failed"} :
          /\ status[r.job] = "failed" /\ BoughtBy(r.token) = {}
          /\ status[j] = "absent"
          /\ \A i \in Jobs : i < j => status[i] # "absent"
          /\ status' = [status EXCEPT ![j] = s]
          /\ bought' = bought \cup {<<r.token, j>>}
          /\ RetryAnswered(n, [id |-> j, status |-> s], TRUE)
  /\ UNCHANGED <<page, mounts, jobIdRef, tokenVars, shownVars, retrying,
                 resuming, resumes, moves>>

\* generationService.resume
ResumeServed(n) ==
  LET r == resumes[n]
      stored == status[r.job] \in {"tracking_exhausted", "running"}
  IN
  /\ r.phase # "none" /\ ~r.served
  /\ status' = [status EXCEPT ![r.job] = IF stored THEN "running" ELSE @]
  /\ resumes' = [resumes EXCEPT ![n].served = TRUE,
       ![n].reply = IF stored /\ r.phase = "open" THEN "running" ELSE "none"]
  /\ UNCHANGED <<bought, page, mounts, jobIdRef, tokenVars, shownVars, retrying,
                 resuming, retries, moves>>

\* A job is closed or stalls.
JobEnds(j, s) ==
  /\ status[j] = "running" /\ s \in STOP_POLLING
  /\ status' = [status EXCEPT ![j] = s]
  /\ UNCHANGED <<bought, page, mounts, jobIdRef, tokenVars, shownVars, retrying,
                 resuming, retries, resumes, moves>>

-----------------------------------------------------------------------------
Next ==
  \/ \E j \in Jobs : Open(j)
  \/ Leave
  \/ Tick \/ LoadServed \/ LoadThrows
  \/ \E s \in Statuses : LoadReturns(s)
  \/ \E n \in Retries : retry(n) \/ RetryThrows(n) \/ RetryReturns(n)
                          \/ RetryServed(n)
  \/ \E n \in Resumes : resumeTracking(n) \/ ResumeReturns(n)
                          \/ ResumeThrows(n) \/ ResumeServed(n)
  \/ \E j \in Jobs, s \in STOP_POLLING : JobEnds(j, s)

Spec == Init /\ [][Next]_vars

\* A timer fires, a request ends, and not every load fails.
FairSpec ==
  /\ Spec
  /\ WF_vars(Tick)
  /\ SF_vars(LoadServed)
  /\ WF_vars(\E s \in Statuses : LoadReturns(s))
  /\ \A n \in Resumes : WF_vars(ResumeReturns(n) \/ ResumeThrows(n))

-----------------------------------------------------------------------------
(* Regenerate buys no more than was asked for.                             *)

Sent(n) == retries[n].phase # "none"

\* No answer was seen to the token of retry n.
Unresolved(n) ==
  /\ Sent(n)
  /\ \A m \in Retries :
       retries[m].phase = "returned" => retries[m].token # retries[n].token

\* A token is sent for one job only: the server, which tells a repeated
\* request by its token, never takes a click on one job for a click on
\* another (Jobs.tsx:140-141).
TokensStayApart ==
  \A m, n \in Retries :
    Sent(m) /\ Sent(n) /\ retries[m].token = retries[n].token
      => retries[m].job = retries[n].job

\* While a click has no answer, its instance of the page keeps the token, so
\* that the next click repeats the request (Jobs.tsx:135-139).
TokenIsKept(n) ==
  Unresolved(n) /\ Alive(retries[n].mount)
    => Token(mounts, retries[n].job, tokens[retries[n].job]) = retries[n].token

\* No retry of the job was clicked, in this instance, while another was open.
OneByOne(j) ==
  \A n \in Retries :
    Sent(n) /\ retries[n].job = j /\ retries[n].mount = mounts
      => retries[n].alone

\* What the code achieves: this holds as long as the retries of a job, which
\* navigation may make overlap, do not.
UnresolvedKeepsTokenOneByOne ==
  \A n \in Retries : OneByOne(retries[n].job) => TokenIsKept(n)

TokensOf(j) == {t \in Tokens : t[1] = mounts /\ t[2] = j}

\* The money: of the generations an instance of the page bought to regenerate
\* a job, all but one have been answered for; the user never pays for one
\* more while the fate of the last is unknown (retry, with the server's
\* idempotency key).
OneUnansweredPurchase ==
  \A j \in Jobs :
    OneByOne(j) =>
      Cardinality({t \in TokensOf(j) :
        /\ BoughtBy(t) # {}
        /\ \E n \in Retries : Sent(n) /\ retries[n].token = t /\ Unresolved(n)})
      <= 1

-----------------------------------------------------------------------------
(* Late answers.                                                           *)

Ends(n) == retries[n].phase = "open" /\ retries'[n].phase # "open"

\* The answer to a regenerate that arrives when its job is not on the page
\* changes nothing the user sees, or takes the user to the new job; it takes
\* the user away only in an instance that was left, for another kind of page,
\* while it showed the job and so still takes it for the current one
\* (jobIdRef, Jobs.tsx:223-254).
LateAnswersOnlyNavigate ==
  [][\A n \in Retries :
       LET r == retries[n] IN
       Ends(n) /\ r.job # page =>
         \/ UNCHANGED <<page, shownVars, retryToken, retrying, resuming>>
         \/ /\ ~Alive(r.mount) /\ jobIdRef[r.mount] = r.job
            /\ page' = r.reply.id]_vars

\* The disabled "Regenerating..." is never left behind: a request made from
\* this page for this job is under way (Jobs.tsx:178-185, 264-268).
RetryingIsAwaited ==
  retrying /\ page # None =>
    \E n \in OpenRetries(page) : retries[n].mount = mounts

-----------------------------------------------------------------------------
(* Polling.                                                                *)

\* "Poll while non-terminal" (Jobs.tsx:187): the page does not stop polling
\* while it shows a job that is under way, except that a load answered after
\* the one that stopped the polling may still be shown over it.
PollsWhileNonTerminal ==
  page # None /\ job.id = page /\ job.status \notin STOP_POLLING
    => timer \/ straggler

\* The page's job is no longer under way and has not been shown so.
EndUnseen ==
  /\ page # None /\ status[page] \in STOP_POLLING
  /\ ~(job.id = page /\ (job.status \in STOP_POLLING \/ straggler))

\* That a job is no longer under way appears on its page, for a user who
\* stays there: no failed load, no answer about the previous job or from
\* before a resume, no older answer that comes after a newer one and no resume
\* makes the page stop polling short of it (Jobs.tsx:187-220).  A load that
\* was under way when the end appeared may hide it again.  Stalled counts as
\* not under way, also when the job has gone on since by a resume whose answer
\* was lost.
ShowsTheEnd == EndUnseen ~> ~EndUnseen
=============================================================================
