# H3 Prompt Studio in TLA+

A verification development of the repository in `src/`: a prompt library and
video-generation console (Node/Express and `node:sqlite` on the server, React in the
browser) whose generation jobs cost money at an external provider. The centre of it is
therefore the life of a paid job: created once, submitted once, followed to the
provider's verdict, never closed by anything else, never bought twice by accident (section 6
says where the code falls short of this). Around it stand the prompts a job is rendered
from, the pages that submit it, and the start of the server.

Contents: [the system](#1-the-system) - [the plan](#2-the-plan) -
[the modules and the code](#3-the-modules-and-the-code) - [the runs](#4-the-runs) -
[what is proved](#5-what-is-proved) - [where code and comments disagree](#6-where-the-code-and-its-comments-disagree) -
[what is not modelled](#7-what-is-not-modelled).

Paths without a prefix are under `src/packages/server/src/`.

## 1. The system

| component | state it keeps | operations | hard behaviour | correct when |
|---|---|---|---|---|
| generation service (`services/generationService.ts`, `routes/jobs.ts`, `middleware/idempotency.ts`) | none of its own; a handler is suspended while `provider.create` runs | `create`, `retry` (regenerate), `resume` | the row is inserted before and the task id stored after an await; requests are repeated, replies get lost | one generation per idempotency key; each row stores its own task; an ambiguous submission is explained |
| job repository (`db/repositories/jobRepo.ts`) | table `generation_jobs` | `create`, `findByIdempotencyKey`, `listNonTerminal`, `updateStatus` (compare-and-set), `resumeTracking`, `recoverUnsubmitted` | stale writes; recovery at start-up | closed rows stay closed; error columns agree with the status |
| poller (`poller/poller.ts`) | timer, `running` flag, `failures` per job | `tick`, `pollOne` | works through a snapshot over many awaits; counts consecutive failures; its own writes may be refused | a job is closed only by a verdict; the budget is whole after an answer or resume; every job leaves queued/running |
| server (`server.ts`) | the process | `boot` (migrate, recover, seed, bind, start polling), shutdown | a crash between any two steps; a second start on the same database | no row is left unsubmitted and unawaited; recovery fails only interrupted submissions |
| MiniMax adapter (`providers/minimax*.ts`) | none | `create`, `query` (one or two HTTP exchanges) | timeouts, HTTP errors, `base_resp` errors, cut-off bodies, missing ids, unknown statuses | failure is told on evidence only; success has a URL; a definitive refusal is free |
| mock provider (`providers/mockProvider.ts`, `routes/scenarios.ts`) | tasks in memory, scenario | `create`, `query`, set scenario | tasks vanish at a restart, stored ids do not | an old id never names a new task |
| prompt library (`services/promptService.ts`, `promptRepo.ts`, `versionRepo.ts`, `db/client.ts`) | tables `prompts`, `prompt_versions` | create, update, archive, new version, restore, duplicate | several writes per operation; failures between them | numbers without gaps, head is the newest version, archived prompts grow no versions, all or nothing |
| migrations (`db/migrations.ts`) | `schema_migrations` | `runMigrations` | two starts at once; a failing script | each script once, in order, all or nothing |
| template engine, camera presets, video policy (`packages/shared/src`) | none | parse, render, insert a token, duration/resolution rule | escapes, empty and overlapping cases | agree with a declarative reference; client and server accept the same |
| job detail view (`packages/client/src/features/Jobs.tsx`) | job shown, retry tokens, timer, flags | load, poll, retry, resume, navigate | answers arrive late, out of order or after navigation | a repeated click reuses its token; an answer touches only its own job |
| composer (`Composer.tsx`) | values, override, idempotency key | submit | lost answers, conflicts, edits between | key kept while the outcome is unknown |
| prompt editor (`PromptEditor.tsx`) | the form of one prompt | load, save, archive, restore, duplicate | late answers after navigation | a late answer never fills another prompt's form |
| seed (`seed.ts`) | - | `seedSamplesIfEmpty` | a kill between two samples; two servers | no sample twice |
| HTTP layer, config, library lists, API client, deployment | - | - | stateless or read once | - |

How they interact: the client's requests call the generation service, which writes the
job table and awaits the provider; the poller reads the same table on a timer and awaits
the provider; `boot` writes the table before either runs. They share one SQLite
connection in one process, so between two awaits nothing interleaves. The provider and
the clients are outside. The complete list of hazards, each at its line with the
properties that watch it, is in `PROJECT.json`.

## 2. The plan

In this order, the most important behaviour first; all of it is done.

1. **JobContract**, the abstract specification: what the service promises about a job.
2. **GenerationJobs** - service, repository, poller, boot, provider, faults; composed in one
   state machine because they share the table. `GenerationJobsInv` is the inductive
   invariant.
3. **MinimaxAdapter** and **PaidJob** - the wire, and one job over it. They justify the
   `Readings` that GenerationJobs leaves to the provider.
4. **Submissions** - what is in a request: validation, rendering, comparison by key and
   payload, regeneration, and the mock provider with its memory and restarts.
5. **PromptHistory**, the abstract specification of the library, and **PromptLibrary**, its
   tables and transactions with a failure or a crash between any two statements.
6. The client's pages, each over an abstract server: **JobDetailView**, **ComposerView**,
   **PromptEditorView**, the last over PromptHistory itself.
7. **ServerStart** - migrations, seeding, binding and polling by several processes that are
   killed anywhere.
8. **PromptText** - the pure algorithms against declarative references.
9. Proofs of every safety property of 1 to 8, in one module per state machine; those about
   texts are with those about the library.

What could be added: the graceful shutdown under a tick in flight, the library list and the
new-prompt form, the composer's other fields, the HTTP layer (section 7 says why they come
last).

Modules that are proved about declare no RECURSIVE operator; parameters are CONSTANTS with
named assumptions; invariants are conjunctions of named parts. Operators marked "Mutant:" are
plausible bugs of the definition below them: replacing it by them breaks the property they
are listed with in `PROJECT.json`.

## 3. The modules and the code

### GenerationJobs

| state | code |
|---|---|
| `created`, `row[j]` (status, key, task, result, error) | the rows of `generation_jobs`, numbered in insertion order, which is the order of `created_at`; `result` and `error` say whether `result_url` and `error_code` are set |
| `call[j]` | the `provider.create` of job `j`: what the provider did with the request (`sent`, `accepted`, `rejected`), and whether a live handler awaits it |
| `queue`, `answer` | the rows the current tick has still to poll, as listed; what the query of the first one returned |
| `failures[j]` | `JobPoller.failures` |
| `up` | the process runs and serves |
| `started`, `task[t]` | the provider's tasks; `told` is every verdict a query of it returned |
| `starting`, `doomed` | a process is in `boot` and has not bound yet; the rows its recovery has listed and not yet failed |
| `interrupted`, `unwritten` | history: submissions cut off before their reply was recorded; those ended by a refused write |
| `unseen`, `overrun` | history: jobs created while another process was starting; jobs whose task was known when a recovery failed them |

A step is the code between two awaits. `Submit` is the lookup, the insert and the sending
of the request; `RecordTask`, `RecordRejection`, `ReplyLost` and `WriteRefused` are the ways
the handler goes on. A poll is `QueryAnswered`, then `ApplyAnswer`, `CountFailure` or
`PollWriteRefused`.

Choices a reader may ask about:

- A request whose key is taken answers with the existing row (same payload) or 409 (another
  payload). Both change nothing, so neither payloads nor these answers appear; nor do
  rejected requests (404, 422, over-long prompt). They are the subject of Submissions.
- All keys the server mints stand for one value, `Minted`, which a lookup never finds.
- The branch for a lost UNIQUE race (lines 138-157 of the service) is unreachable in one
  process: there is no await between lookup and insert.
- The poll uses the task id of the listing, not the row's, as `tick` does.
- A refused insert, list or resume changes nothing and answers an error, so it is no step, and
  a refused statement of start-up ends the process (`StarterDies`). A tick with nothing to
  poll, and one that finds another running, change nothing either; `queue # {}` is the
  `running` flag.
- Recovery is as many steps as it has statements. `Start` is the SELECT of
  `recoverUnsubmitted`; `RecoverRow(j)` is one UPDATE, which looks at nothing but the id, as
  there is no transaction and no condition in the code (`jobRepo.ts:350-367`); `Bind` follows
  when the list is done. A start happens after a crash, or beside a running server
  (`MaxIntruders`): then every step of the server can come between the SELECT and an UPDATE,
  and the server may have stored the row's task, or closed the row, by the time it is failed.
  `StarterDies` ends the process anywhere before it binds. `Bind` beside a running server is
  the failed bind (EADDRINUSE) and changes nothing; if the server has crashed meanwhile, the
  newcomer takes over.
- `Start` includes opening the database and the migrations before the SELECT, and `Bind` the seed
  and the start of the poller; `ServerStart` has them statement by statement. One process
  starts at a time.
- The provider may take or refuse a request after its caller gave up, each request once.

### JobContract

`absent -> submitting -> tracked <-> stalled`, with `failed` from `submitting` and the
provider's verdicts from `tracked`. A request may be charged late, a job is closed only by a
verdict given on its own task, and closed is for ever. With `SecondStarts`, which
GenerationJobs sets when a server may be started beside a running one, a job whose task is
known can go to `overrun`, from tracked, stalled or closed: nothing is promised of it any more
but that it is not charged again. `GenerationJobs!Contract` instantiates it with the mapping
`Life(j)`, "the call was accepted", and "told of the row's task"; `PaidJob!Contract` does so
for one job over the wire, where "charged" is that the task exists and "ruled" is what
readable replies told of it.

### MinimaxAdapter and PaidJob

`MinimaxAdapter` is the wire side: a body is the set of things the mapping's readers can find
in it (`base_resp` code, status, ids, URL, keyword groups in the message), so a body that is
no JSON object reads like an empty one, which is what `safeJson` makes of it. `Create`,
`Query` open an exchange; `CreateReplied`, `QueryReplied`, `RetrieveReplied`, `HttpFailed`
and `TransportFailed` end it or open the second one. `outcome` is what the call returned or
threw. Calls share no state, so one job suffices. `PaidJob` adds the row, the awaiting
handler, the failure count and restarts; `told` and `streak` are history. `Ruling(s)` is what it
takes for replies to tell of an end: a task reported failed or a definitive `base_resp` for
`failed`, a task reported successful *and* a URL of its file for `succeeded`.

Assumed of the outside: a gateway that fails after the provider took a *create* answers 5xx
without a JSON body, or 2xx with a body cut short; the provider's own errors on a create mean
it refused. The status a query tells is the task's own, or one the mapping does not know.
`RefusedIsFree` rests on this; no other property does.

Together they justify `Readings(t)` in GenerationJobs: a query may always throw or read as
failed (a definitive `base_resp`), reads as queued/running only while the task is active or
on an unknown status, and otherwise gives the task's own verdict. `FailedOnEvidence`,
`PendingMeansActive` and `SucceededIsUsable` say so of the wire; they are proved and no run
repeats them: the run checks `PaidJobKeepsContract`, which rests on the same evidence.

### Submissions

| state | code |
|---|---|
| `rows[j]` | the rows of `generation_jobs` with what a request put in them: `parameters`, `renderedPrompt`, scenario, and what the provider gave back |
| `instancePrefix`, `counter`, `tasks` | the mock provider's id prefix, counter and map; a restart begins a new prefix with an empty map |
| `defaultScenario` | the scenario control (`routes/scenarios.ts`) |
| `reply`, `took` | history: the job answered last with the text that was asked for; what each task was taken with |

`Submit` is `createGenerationSchema`, the rendering, `computePayloadHash`, the lookup by key
and the rest of `create`; `Retry` is `buildRetryRequest` and the same; `PollKnown` and
`PollForgotten` are a poll of a task in memory and of one of an earlier process. The mock
answers at once, so a submission and a poll are one step; GenerationJobs has them split.
Values and texts are members of small sets; a row may be one of the first build, whose clips
(5 s, 720P) today's schema refuses, which is why a regenerate validates again.

### PromptHistory and PromptLibrary

`PromptHistory` says that a prompt is a name, a status and a list of contents that grows at its
end: `CreatePrompt`, `AppendVersion` (not while archived), `SaveMeta`. `PromptLibrary` is the code:

| state | code |
|---|---|
| `db` | what is committed in `prompts` and `prompt_versions` |
| `work`, `open` | the database as the one connection sees it; whether a transaction is open |
| `call` | the request under way, with the statements of it still to execute (`todo`) |
| `told` | history: the database as the answers so far describe it |

A request is its checks and `BEGIN` (`Create`, `CreateVersion`, `RestoreVersion`, `Duplicate`),
one `Execute` per statement, and `Commit`; before each of them a statement may `Throw`, which
rolls back, or the process may `Crash`. Metadata saves and archiving are single statements
(`Update`). `PromptLibrary!Promise` instantiates PromptHistory with `HistoryOf`, the contents
in the order of their numbers, and `MetaOf`. Names are not told from their `(copy)`; tags and
description go the way of the name.

### JobDetailView

One instance of the page (`JobDetail` of `packages/client/src/features/Jobs.tsx`) stays mounted
while the user goes from job to job, and a new one is mounted after any other page.

| state | code |
|---|---|
| `page`, `mounts` | the job of the current view, or none; how many instances were mounted |
| `jobIdRef[m]` | the ref of instance `m`; an unmounted one keeps its last value |
| `tokens`, `retryToken` | `tokensByJobId` of the mounted instance, as the number of a job's token (0: none); the state `retryToken` |
| `job`, `retrying`, `resuming`, `timer` | the states and the ref of those names |
| `loads` | a bag: how many calls of `getJob` are under way to the server (`asked`), and how many answers with each status on their way back; those of an earlier effect are cancelled and dropped |
| `straggler` | history: the answer shown came after another had stopped the polling, and would not have stopped it |
| `retries[n]`, `resumes[n]` | handlers suspended at their await: the job and token they closed over, their instance, what the server did |
| `status`, `bought` | the server: job states, and which token bought which job |

`Show` is a render with a new job and the effects it runs. `Tick` is the interval, which asks
whether or not earlier loads are under way, as `setInterval` does; `LoadServed` is the server
reading the job, and `LoadReturns` takes the answers in any order. `retry`, `RetryReturns`,
`RetryThrows` are the two halves of the handler, `RetryServed` the server's part, which may
come after the client gave up. The server is `GenerationJobs` reduced to what this client
sees: one job per token (`OneGenerationPerKey`), final statuses (`ClosedStaysClosed`), resume
only of a stalled or running job.

Assumed: a navigation's render and effects have run before the next click (React flushes them
before the next discrete event); effects run once, as in a production build. A job's
`queued` and `expired` stand under `running` and `failed`. One browser, one tab: another one
has tokens of its own.

### ComposerView

| state | code |
|---|---|
| `rows`, `bought` | the server: idempotency key to payload; the generations bought, in order |
| `page`, `mount`, `fetching` | the version the page is about, the number of its instance, whether its load is under way |
| `loading`, `content`, `value` | the states of those names; one variable stands for all |
| `promptTouched`, `promptOverride`, `promptOverrideValues` | the frozen prompt and the values it was frozen with |
| `idempotencyKey`, `lastKey`, `submitting` | the state of the key, the last one made by any instance, the flag |
| `sent`, `replies`, `late` | submissions on their way to the server, its answers on theirs, and submissions the page has given up, which the server may still serve |
| `plain`, `conflicts` | history: the instance had one version and could load it; conflicts its user was shown |

A text is known by the version and value it was rendered from and by whether it was edited
since. The server refuses what does not render, answers a known key with its job or 409, and
buys otherwise. Requests and answers are lost or come late, after the page was left too;
`ServeLate` serves a request whose client was told that it was lost.

### PromptEditorView

| state | code |
|---|---|
| `history`, `meta` | the server, by the actions of PromptHistory |
| `page`, `mounts` | the prompt of the current view; instances so far |
| `detail`, `form` | what is shown and what is in the fields, each with the prompt that filled it |
| `savingMeta`, `savingVersion` | the flags |
| `sent`, `answers` | requests not yet served; answers in the order they were served |
| `arrived`, `inOrder` | history: a load for this page was shown; all its answers were taken in serving order |

A click sends a request with the `promptId` and the instance the handler closed over; `Serve`
takes any request; `...Returns` is the rest of the handler, with the check it makes (`load`)
or does not make (the others) of the prompt shown by then. Description, name and tags go the
way of the status.

### ServerStart

| state | code |
|---|---|
| `db`, `work`, `writer` | what is committed; what the process inside a write transaction sees |
| `pc`, `todo`, `left` | where each process is in `boot` or the migrate command; the statements of its migration; the samples it has yet to create |
| `port`, `polling` | who is bound, and whose poller runs |

The pending migrations are computed by `ReadApplied`, before the transaction, as
`runMigrations` does. `BEGIN` takes no lock; the first writing statement does, and waits
behind another writer (`busy_timeout`) or gives up (`Busy`). A process that throws or is
killed exits and rolls back. What `boot` does to unsubmitted jobs is in GenerationJobs.

### PromptText

The user types a template, a search text or a prompt chunk by chunk, so that the reachable
states are all short inputs; `Walk`, `renderTemplate`, `findMissingVariables`,
`insertTokenAtSelection`, `escapeLikeLiteral`, `JsonTags` are the functions of the code, `Like`
is SQLite's operator, and the properties compare them with references that do not scan. A
loop of the code is a recursive function over positions (`walk`, `matched`) or a fold.

SQLite's LIKE takes the letters of ASCII for the same in both cases unless the pragma
`case_sensitive_like` is set, which `db/client.ts` does not do. `Fold` is that, and what a
search or a tag filter finds is stated up to it (`SameText`): a search for `fox` finds `Fox`,
and so does the tag filter `fox` a prompt tagged `Fox`. `NotFinite` is a selection that is no
number, which `clampIndex` sends to the end of the text.

## 4. The runs

`tlc -workers 2 -config X.cfg M`, in this directory.

| run (cfg) | bounds | question and answer |
|---|---|---|
| `jobs_safety` (JobsSafety) | 2 jobs, 2 tasks, minted keys, budget 2, one crash, one refused write, one second start, unreadable answers | `OwnTask`, `VerdictIsTheProviders`, `OrphansAreExplained`, `SubmittingIsAwaited`, `ClosedStaysClosed` hold, their exceptions for second starts included, and the contract is kept |
| `jobs_live` (JobsLive) | 2 jobs, 2 tasks, a client key and minted ones, budget 2, one crash, one refused write, no second start, readable answers | `OneGenerationPerKey`, and `EveryJobSettles`: every job leaves queued/running |
| `jobs_intruder` (JobsIntruder) | 1 job, 1 task, one second start | a comment is refuted (section 6) |
| `paid_job` (PaidJob) | budget 3, one restart, HTTP 304, 400, 401, 402, 422, 429, 500 | whatever the wire replies, the row keeps JobContract (`PaidJobKeepsContract`), and is failed as refused or stalled only for a reason; `TrackingEnds` unless unknown statuses keep coming |
| `submissions` (Submissions) | 2 rows, the first perhaps of the first build; 2 keys; a complete and an incomplete value, one override; 10 s in 768P and 1080P; all ways to name a scenario but `expired`; one restart | the answer is the job asked for, a regenerate repeats its source, only supported clips are made, mock jobs end as their scenario says - and do end |
| `prompt_library` (PromptLibrary) | 2 prompts, 3 versions, 2 contents, 2 names | committed prompts are whole, answers are durable, copies faithful, and PromptHistory is implemented |
| `server_start` (ServerStart) | 2 servers, the migrate command, one seeder, 2 old rows, 3 samples, 2 kills | schema and record agree, rows survive, samples come once, some server serves in the end |
| `job_view` (JobView) | 3 jobs, 2 instances, 2 navigations, 2 clicks on Regenerate, one resume, 2 loads under way at once, answered in any order | nothing is bought beyond the one generation whose fate is unknown, late answers at most navigate to the new job, the button recovers, the end is shown |
| `composer` (Composer) | 2 versions, one with a variable, 2 values, 4 edits, 3 submissions, served in time, late or never, 2 navigations | a second purchase takes a conflict, texts match the recorded values, what the form lets through resolves |
| `prompt_editor` (PromptEditor) | 3 prompts, 2 at the start, 2 contents, 3 acts of the user | the form is of the page, one version at a time, a quiet page is current, a restore brings no foreign content |
| `prompt_editor_archive` (PromptEditorArchive) | the same, 2 acts | a comment is refuted (section 6) |
| `prompt_text` (PromptText) | templates of 4 chunks out of 9, texts of 3 out of 8 characters (a letter in both cases, the wild cards, the escape, quote and comma among them), prompts of 4, selections in, around and outside of them or no number | rendering, checking, filtering and inserting agree with their references |

Why the bounds are enough to be interesting. Two jobs are what crossing replies, a snapshot
with a second row in it, and a regenerate need; a budget of two separates "reset" from "not
reset" and makes an off-by-one visible; one fault of each kind combines with every other kind.
The HTTP statuses are one of each branch of `classifyHttpFailure`. Two kills let a process
die, be started, and die again in the middle of the rest; three samples leave one behind
between two others. In the library a third version is the first that a gap or a repetition of
numbers can show in, and two prompts take a copy. In the views, two clicks are what a second
purchase needs (in the composer three: a lost one, a conflict, a second purchase), and two
navigations are A-B-A (a third, by the answer of a regenerate, is not counted). Two loads
under way are what it takes for an older answer to come after a newer one. One second start at
one moment is what stands between a recovery's SELECT and its UPDATE with the whole of a
submission, a poll or a crash in between. Four chunks are what two placeholders, or one with a
stray brace at either side, need. For larger instances there are the proofs.

About money are `OneGenerationPerKey`, `OwnTask`, `OrphansAreExplained`,
`OneUnansweredPurchase`, `SecondPurchaseIsDeliberate` and `AnswersWhatWasAsked`; about never
closing or reviving a paid job wrongly `VerdictIsTheProviders`, `ClosedStaysClosed`,
`PaidJobKeepsContract`, `RefusedIsFree` and `EndsByItsScenario`; about nothing being stuck
`SubmittingIsAwaited`, `RetryingIsAwaited` and the liveness properties.
`OneUnansweredPurchase` holds under the condition `OneByOne`, that two retries of one job are
not open at once; `QuietPageIsCurrent` under `inOrder`; `TextMatchesRecord` and
`SubmissionsResolve` under `plain`. `VerdictIsTheProviders`, `ClosedStaysClosed` and
`KeepsContract` make an exception for the jobs in `overrun`, `SubmittingIsAwaited` and
`EveryJobSettles` one for those in `unseen`; `LateAnswersOnlyNavigate` allows the one
navigation the code makes from an instance left behind. Section 6 says what these conditions
exclude. That the exception for overrun jobs is for second starts alone is proved
(`RestartsOverrunNothing`).

What the properties do not reach, for a reader who relies on them. `OneVersionAtATime` counts
version requests in flight; a second click during the load that follows one is not counted.
`FormIsOfPage` speaks of a page that was loaded; before that the form is still that of the
prompt left behind. `SubmissionsResolve` has one predicate for "missing" on both sides; that
the two loops of the code agree is `RenderAgreesWithCheck`. `TrackingEnds` is stated for a
provider that does not go on for ever with unknown statuses (section 6). `ShowsTheEnd` is
about a user who stays, since navigations are bounded.

`prompt_library` and `server_start` check for deadlock: a transaction always ends and a process
always goes on or is started. The other cfgs say `CHECK_DEADLOCK FALSE`: an idle server with
all jobs closed is a legitimate end, and so is a state where the bounds are spent.

**Fairness.** Nothing is assumed of users and clients, of the provider taking a request, or
of faults. Assumed is:

- GenerationJobs: `WF(TickStart)`, `WF(Poll)`: `setInterval` fires as long as the process runs
  and a tick releases `running` in a `finally`; `WF(Settle)`: the transport aborts every
  request after `timeoutMs` (30 s), so an awaited call returns or throws; `WF(~up /\ Start)`
  and `WF(Bind \/ RecoverRow)`: the platform (k8s, Docker) restarts a dead process and
  start-up runs to its end, statement by statement; `WF(TaskEnds)`: a task the provider
  started ends. There is no fairness among the ways a poll can go: a provider that never
  answers is allowed, and leads to `tracking_exhausted`. `EveryJobSettles` needs readable
  answers (`Unreadable = FALSE`).
- PaidJob: the same, an exchange of the wire in the place of a call. `TrackingEnds` says on the
  wire what readable means.
- Submissions: each open job is polled again and again.
- ServerStart: a running process goes on, and servers are started again by their
  supervisor; the command is not.
- JobDetailView: the interval fires (`WF(Tick)`) while fewer than `MaxLoads` requests are
  under way; the browser ends every request; not every load fails (`SF(LoadServed)`). Nothing
  is assumed of the order.

## 5. What is proved

TLAPS checks every theorem for every value of the constants that satisfies the named
assumptions of its module: any number of jobs, tasks, keys, prompts, versions, servers,
requests, crashes, navigations and clicks. The assumptions say that the bounds are natural
numbers (the attempt budget at least one), that texts are sequences of strings (a character
is one), that `None` and its like are no member of the sets
they are added to, and what is a subset of what. No theorem rests on fairness.

Each module has an inductive invariant of its own, the properties being too weak to carry
themselves over a step. Beside the type invariant and the properties it needs:

**GenerationJobsProofs** (`IInv` in `GenerationJobsInv`)

- `RowsInv` - nothing exists of a job not yet created, so a new row starts clean;
- `CallsInv` - the chain row -> call -> task: a row stores only its own call's task, only
  after the handler stopped awaiting it, and an awaited row is open unless interrupted. Without
  it neither `OwnTask` nor `OrphansAreExplained` survives the late recording of a reply;
- `TasksInv` - the way back, task -> call, which makes a task belong to one job and turns
  uniqueness of keys (`KeysInv`) into uniqueness of generations;
- `StatusInv` - only tracked jobs stall, succeed or expire, so a recovery does not list them;
- `StartInv` - what a starting process has still to fail: every unsubmitted row but those
  created after its SELECT. Only beside a running server can the list grow stale
  (`OverrunsNeedASecondStart`, its consequence: with no second start, each listed row is still
  unsubmitted when it is failed);
- `OverrunInv` - an overrun row is closed and keeps its task, so that no compare-and-set opens
  it again;
- `PollInv` - a verdict waiting at the head of the queue has been told of that very task, and
  a dead process has neither queue nor answer. With `ListingStaysValid` it carries
  `VerdictIsTheProviders` across the await of a query.

The refinement of JobContract needs two facts more: `UntoldInv`, that nothing is told of a
task before its id is stored (else recording a task would bring rulings with it, which no
step of the contract does), and the last conjunct but one of `CallsInv`, that a request in
flight that nobody awaits belongs to an interrupted job (else it could be charged to a job
in no matching state).

**PaidJobProofs** - `AwaitInv`, a handler awaits the adapter exactly while a call has not been
taken up; `RowInv`, what the row is meanwhile; `EvidenceInv`, what an outcome that is awaited
says of the task: the properties speak of the row, which changes a step after the evidence
was read; `StallInv`. The refinement of JobContract adds `ContractInv`: a task id is returned or
stored only when the provider took the request, a request still undecided is of a job in
submission or given up (else it could be charged to a job in no matching state), and what the
replies said is on record in `told`. That a ruling is one step of the contract takes
`OneRuling`: no reply, and no pair of a status and a file reply, tells of two ends.

**SubmissionsProofs** - `RowsInv`, a row's text is what its parameters mean; `TasksInv`, the
tasks of this process are those it took; `NamesInv`, a row names a task that was taken with
its text, so that a poll reads its own task's script after any restart.

**PromptLibraryProofs** - `TransactionInv`: the connection sees what the statements executed so far
make of the committed tables (`WorkOf`), and what the checks found is still so; then `Whole` is
preserved by the transaction as one effect, and a commit is one step of PromptHistory.

The same module proves what PromptText says, of texts and values of any length over any
alphabet and of lists of any number of tags. TypingSpec needs no more than its types for that
(`TypingInv`); the work is in the functions. The provers can instantiate neither the library's
induction theorems nor its recursion theorems, whose parameters are operators, so induction
is over sets: the least number that is missing from a set has a predecessor in it
(`InductionOn`, from the well-foundedness of `<`), and `RecursionByRank` shows that there is a
function that recurs to places of lower rank, without which the recursive definitions in
`Walk`, `Matched` and `FlattenSeq` would say nothing about their values. Then:

- rendering (`SameStep`): from a boundary, a position no placeholder reaches over, the pieces the
  scan finds and the cells of the reference come to the same text; the first match is a
  placeholder, and behind it is a boundary again;
- searching (`EscapedStarts`): the escaped query matches where the text reads the query, up to
  `Fold`, which takes no letter for a quote or a comma (`FoldKeeps`). The
  filter by tag then looks for the query between quotes (`TagIsQuoted`), and adding a tag
  to a list adds that tag to what stands between quotes (`QuotedGrows`) - the comma between two
  tags aside, which is why `FoundIffListed` excludes it;
- cues (`WordsAroundCue`): the words of a text with a cue set off by spaces in it.

**ServerStartProofs** - `TodoInv`, each process has an end of the seven statements to execute;
`WriterInv` with `Stage(k)`, what the writer sees compared with what is committed, when the
tables were perhaps migrated by another after it read the versions; `SeedInv`; `ServerInv`.

**JobDetailViewProofs** - `ShownInv`, `MintInv`, `OrderInv`: a click sends the current token
its instance minted for its job, and clicks are numbered in their order; `KeptInv`, the token
of a click with no answer stays, which is what counting purchases rests on; `SoleInv`, the
clicks of an instance on one job that have no answer share their token, if none was made while
another was open; `LoadInv`, `ExistInv`. With overlapping loads "the page polls while it shows
a job under way" is inductive only with the exception it names: once an answer has stopped the
timer, `straggler` marks an older one shown over it.

**ComposerViewProofs** - `FlightInv`, one submission of an instance at a time, under its key;
`LateInv`, of the requests of an instance, those it gave up included, all that may still buy
bear one key, its current one; `CountInv`; `RoomInv`, a key that is not spent leaves room for
one more purchase; `PageInv` and `TextInv`, what the page shows and what is on its way.

**PromptEditorProofs** - `ExistInv`, `ShownInv`; `SavingInv`, one version or the load after it
is on its way, and none unless the flag is set; `OrderInv`: unless a load is still to be
served, the last answer that sets the status has the server's, and the last that lists the
versions too, unless one that reloads is to come. `QuietPageIsCurrent` is its last case.

| module (...Proofs) | theorem | statement |
|---|---|---|
| GenerationJobs | `InvariantHolds` | the inductive invariant holds in every reachable state, for any number of jobs, tasks, keys and faults |
| GenerationJobs | `TypeCorrect` | every variable keeps its type; the failure count never reaches the attempt budget |
| GenerationJobs | `KeysBuyOneGeneration` | `OneGenerationPerKey`: one client key never buys two generations, whatever is repeated, regenerated or crashes |
| GenerationJobs | `TasksNeverCross` | `OwnTask`: a row's task is the one the provider started for it |
| GenerationJobs | `OnlyVerdictsClose` | `VerdictIsTheProviders`: a job with a known task is closed only by a verdict the provider gave on that task, or failed by a second start that listed it before its task was stored |
| GenerationJobs | `RestartsOverrunNothing` | `OverrunsNeedASecondStart`: unless the server is started while it runs, recovery never fails a row whose task is known |
| GenerationJobs | `TicksPollWhatTheyListed` | the snapshot a tick works through stays valid across all its awaits, but for rows a second start fails over their task |
| GenerationJobs | `RowsAreConsistent` | error and result columns agree with the status, and a resumed job starts with its whole budget; a row a second start failed over its task is the exception |
| GenerationJobs | `LossesAreExplained` | `OrphansAreExplained`: a paid task no row knows is explained by an interruption or a refused write |
| GenerationJobs | `StuckRowsAreExplained` | `SubmittingIsAwaited`: an unsubmitted row of a live server is being awaited unless a write was refused or the row was created while the process that took over was starting |
| GenerationJobs | `JobsStayClosed` | `ClosedStaysClosed`: no step changes a stored task id, or the status of a closed job that no second start failed over its task |
| GenerationJobs | `KeepsTheContract` | `KeepsContract`: the detailed specification, recovery statement by statement included, implements JobContract under the refinement mapping |
| PaidJob | `TypeCorrect` | every variable keeps its type, whatever the wire replies |
| PaidJob | `FailuresAreEvident` | a row that has a task is failed only on what a readable reply of its last poll said: the task's own failure or a definitive `base_resp` |
| PaidJob | `SuccessIsUsable` | a row is closed as succeeded only when its task succeeded and its file was retrieved with a URL |
| PaidJob | `RefusalsAreFree` | `RefusedIsFree`: a submission failed by a definitive refusal left no task behind |
| PaidJob | `StallsAreEarned` | `StallIsEarned`: for any attempt budget: a stalled row has had that many transient failures in a row |
| PaidJob | `PendingIsActive` | a poll reads a finished task as queued or running only from a reply whose status the mapping does not know |
| PaidJob | `PaidJobsKeepTheContract` | `PaidJobKeepsContract`: the wire-level model implements JobContract, whatever HTTP errors, budget and restarts |
| JobDetailView | `TypeCorrect` | every variable of the job page and of the wire keeps its type, for any jobs, mounts and moves |
| JobDetailView | `TokensAreApart` | no two jobs of one instance ever share a retry token |
| JobDetailView | `UnresolvedKeepsToken` | while the outcome of the only regenerate sent is unknown its job keeps the token |
| JobDetailView | `OnePurchase` | `OneUnansweredPurchase`: as long as nothing is answered, repeating a regenerate buys at most once |
| JobDetailView | `RetryingEnds` | `RetryingIsAwaited`: the button is disabled only while a regenerate of the job on the screen is under way |
| JobDetailView | `LateAnswersAtMostNavigate` | `LateAnswersOnlyNavigate`: the answer to a regenerate whose job is not on the page changes nothing on the screen or opens the new job, and takes the user away only in an instance that was left while it showed that job |
| JobDetailView | `KeepsPolling` | with loads answered in any order, the page polls while it shows a job under way, unless that is an older answer shown after the polling stopped |
| PromptLibrary | `TypeCorrect` | every table and every call keeps its type, for any prompts, versions and contents |
| PromptLibrary | `HistoriesAreWhole` | `WellFormed`: what is committed is whole: every prompt has versions 1 to n and its head is one of them |
| PromptLibrary | `AnswersAreDurable` | `AnsweredIsCommitted`: what an answered operation wrote is in the committed tables |
| PromptLibrary | `CopiesRepeat` | `CopiesAreFaithful`: restore and duplicate repeat the content they were asked for |
| PromptLibrary | `KeepsThePromise` | `KeepsPromise`: the library implements PromptHistory under the mapping of its committed tables |
| PromptLibrary | `CheckAgreesOnEveryText` | for every template and all values, rendering succeeds exactly when the composer's check finds nothing missing |
| PromptLibrary | `PlaceholdersFilledInEveryText` | for every template and all values, what rendering gives is the template with its placeholders replaced and nothing else changed |
| PromptLibrary | `SearchIsLiteralInEveryText` | for all texts, a search finds exactly those that contain the query up to the case of ASCII letters, whatever wild cards it has |
| PromptLibrary | `TagFilterIsExactOnEveryText` | for every list of plain tags and every plain query but the comma, the filter finds the list exactly when the query is one of its tags up to the case of ASCII letters |
| PromptLibrary | `CheckAndRenderingAgree` | `RenderAgreesWithCheck`: check and rendering agree on whatever is typed |
| PromptLibrary | `RenderingFillsIn` | `RenderFillsPlaceholders`: rendering fills in the placeholders of whatever is typed and changes nothing else |
| PromptLibrary | `FiltersFindOnlyWhatIsAsked` | `FiltersAreExact`: searches and tag filters over whatever is typed find what they name, up to the case of ASCII letters, and nothing else |
| PromptLibrary | `CuesAreWords` | `ChipInsertsAWord`: a cue inserted at any selection of any prompt becomes a word of its own and the rest stays |
| PromptEditor | `TypeCorrect` | page, wire and server keep their types, for any prompts and any number of acts |
| PromptEditor | `FormStaysOfPage` | `FormIsOfPage`: once a load for the page was shown the form is of its prompt, whatever still comes in |
| PromptEditor | `OneVersionEach` | `OneVersionAtATime`: one instance of the page has one version under way at a time |
| PromptEditor | `QuietIsCurrent` | `QuietPageIsCurrent`: a page that took its answers in order shows what the server has once nothing is under way |
| PromptEditor | `RestoresOwn` | `RestoresOwnContent`: a restore adds no content to a history that was not in it |
| ComposerView | `TypeCorrect` | every variable of the composer keeps its type, for any versions, values and clicks |
| ComposerView | `PurchasesAreDeliberate` | `SecondPurchaseIsDeliberate`: a second purchase takes a conflict the user was shown, or a page entered anew |
| ComposerView | `TextsMatch` | `TextMatchesRecord`: a text that is sent is the rendering of the values sent with it, unless it was edited by hand |
| ComposerView | `SubmissionsAreComplete` | `SubmissionsResolve`: every submission the form lets through resolves on the server |
| ServerStart | `TypeCorrect` | the database and every process keep their types, for any number of servers, commands, rows and samples |
| ServerStart | `SchemaCorrect` | `SchemaMatchesRecord`: the committed schema is what the migrations table says |
| ServerStart | `RowsAreKept` | `RowsSurvive`: no job row is lost, whatever start is killed wherever |
| ServerStart | `SeededOnce` | `SeededAtMostOnce`: one seeding server never inserts a sample twice |
| ServerStart | `PollerIsAlone` | at most one process polls |
| Submissions | `TypeCorrect` | rows, tasks and counters keep their types, for any requests, keys and restarts |
| Submissions | `AnswersFit` | `AnswersWhatWasAsked`: a client is answered with a job that generates the text its request meant |
| Submissions | `RegenerationsRepeat` | `RegenerateRepeats`: a regenerated job repeats the text, clip and scenario of its source |
| Submissions | `ClipsAreSupported` | `OnlySupportedClips`: no provider is asked for a clip the model does not make |
| Submissions | `ScenariosDecide` | `EndsByItsScenario`: a mock job ends as the scenario it was taken with says, or as one its process forgot |

The step proofs have one lemma per action, and under it one step per part of the invariant
the action can disturb.

Only model-checked: liveness (`EveryJobSettles`, `TrackingEnds`, `EveryMockJobEnds`,
`EventuallyServes`, `ShowsTheEnd`), which is out of the prover's reach; and
`RecoversOnlyInterrupted` and `SlowAnswersAreDiscarded`, which are refuted.

## 6. Where the code and its comments disagree

Two runs must find a violation.

- *Recovery is not only of interrupted submissions* (`jobs_intruder`): `server.ts:72-73` against
  the order of `boot`, which recovers (82) before it binds (103-122). The late reply then
  loses the compare-and-set, whose result `create` ignores, and a paid task is orphaned.
- *A late answer of Archive fills another prompt's form* (`prompt_editor_archive`):
  `PromptEditor.tsx:50-52` says that a slow response for an old prompt is discarded; `archive()`
  (173) does not look, and the next Save details archives the prompt navigated to.

Met while modelling, and part of what the models do, but without a run of their own. The
conditions named in section 4 exclude some of them from a property.

- *A second start can fail a job that is tracked, or has succeeded*: `jobRepo.ts:331-333` says
  recovery is of jobs "with no provider task" that "never reached (or never recorded) a
  provider submission"; but the UPDATE (353-359) has the id alone for its condition. Between it and the
  SELECT a live server may store the task (`generationService.ts:169`), poll it and store its
  video; the row is failed all the same, and no verdict was given. A tick that had listed the
  row may then write its answer over the failed row, though "only queued/running jobs are ever
  touched" (`poller.ts:11`). The model does all this (`RecoverRow`, `overrun`); `VerdictIsTheProviders`, `ClosedStaysClosed` and the contract
  make the exception, and `RestartsOverrunNothing` says it takes a second start.
- *An exhausted budget does not fail a job*: `poller.ts:6-8` says that after `maxAttempts`
  consecutive failures "the job is marked terminally failed"; the code (110-122) marks it
  `tracking_exhausted`, which can be resumed. `VerdictIsTheProviders` and `StallIsEarned` are
  about what the code does.
- *A takeover leaves a row unrecovered*: a process that starts beside a running server lists
  the rows before that server inserts another one; if the server then dies before its row has
  a task and the newcomer gets the port, the row stays queued until the next start (`unseen`).
- *Unknown statuses are not bounded*: `minimaxMapping.ts:34-36` relies on the attempt budget,
  but `pollOne` clears the count on every answer (`poller.ts:75`), and an unknown status or an
  undecodable 2xx body is one. `TrackingEnds` makes the exception, `EveryJobSettles` assumes
  `Unreadable = FALSE`.
- *Definitive failures are retried when they arrive as HTTP statuses*: the adapter's
  classification and `README.md:191-193` against `errors.ts:66-69`.
- *A late answer rotates the token of an unresolved retry* (`Jobs.tsx:240`): after A-B-A two
  retries of A are open with one token; the second answer rotates its successor, whose own
  retry is unresolved. `OneByOne` excludes it.
- *A page the user left still navigates* (`Jobs.tsx:241-248`): `Jobs.tsx:223-230` says that a
  retry that settles after the user went to a different job must not "navigate away from it".
  The ref of an unmounted instance never changes, so its job always looks current: regenerate
  A, go to another page, open B, and A's answer takes the user from B to the new job.
  `LateAnswersOnlyNavigate` says that this and nothing else can happen. The composer's handler
  navigates after its page was left, too.
- *Resume stays disabled* (`Jobs.tsx:291`): the effect on a change of job resets `retrying` only,
  and the handler's `finally` skips a job that is no longer current.
- *Polling stops under a running job* (`Jobs.tsx:194-211`): the interval has no guard against
  loads under way, so answers overtake each other; one from before the end, shown after the
  one that stopped the timer, stays on the screen as a running job nothing polls, against
  "poll while non-terminal" (187). `ShowsTheEnd` says that the end was shown before,
  `KeepsPolling` that it takes such an answer (`straggler`).
- *From composer to composer* (`Composer.tsx:78`): the frozen prompt and the key stay those of the
  version left behind, which is what `plain` excludes.
- *An emptied prompt field is not sent as empty* (`Composer.tsx:341`, "this exact text is
  generated"): a blank override counts as none, and the template is rendered.
- *The new-prompt form keeps its spinner* (`NewPrompt.tsx:49-52`): it waits for a navigation to
  unmount it, and the shell keeps showing it while `creating` (`App.tsx:92`).
- *Searches and tags ignore the case of letters* (`promptRepo.ts:121-134`): LIKE does, and no
  pragma says otherwise (`db/client.ts:35-38`), so the filter `fox` returns prompts tagged
  `Fox`, which the editor keeps as another tag.
- *Tags* (`promptRepo.ts:126`): a tag with a quote or backslash is stored escaped and never
  found by the filter; a filter for `,` finds every prompt with two tags; the editor splits
  a tag with a comma (`PromptEditor.tsx:121`). `FiltersAreExact` says for which tags it is exact.
- *A variable named like a member of every object* (`template.ts:113`): `{{constructor}}` finds a
  function where a string is expected, and rendering fails with a TypeError.
- *Two seeding servers* (`seed.ts:55`): the count and the inserts are not one transaction, and
  both may insert. `SeededAtMostOnce` assumes one seeder, as the deployment has.
- *A change of `PROVIDER_MODE`* (`generationService.ts:128`, `mockProvider.ts:121`): rows
  carry their provider, the poller asks the configured one, and a mock server fails paid jobs
  it does not know. One mode per database is assumed.
- Edits of a content are lost when a restore or a saved version reloads the page, and retry
  tokens and submission keys when their page is left.

## 7. What is not modelled

- The graceful shutdown, which closes the database under a tick in flight: in the models a
  process that stops is killed; the writes a closed database refuses are the refused writes.
- The library list and the new-prompt form: single requests, whose answers are shown.
- The composer's duration, resolution, first frame and scenario: fields a submission takes
  along (Submissions has them on the server's side); the editor's name, description and tags.
- The HTTP layer: routing, request ids, error envelopes, body decoding, static files;
  configuration and health: read once at start-up, or only reading.
- The branch for a lost UNIQUE race (generation service, 138-157): no await separates lookup
  and insert, and one process serves.
- Two processes starting at the same time beside a server: GenerationJobs has one at a time.
- SQLite itself: atomic statements, serialized writers and durable commits are assumed.
- The wall clock: timestamps only order rows, and insertion order stands for it.
- Wording, styling, build, deployment and documentation, which have no state.
