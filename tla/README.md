# Formal models of the agent kernel, the CPS services and the reviews

This directory keeps TLA+ models of the program, the TLC configurations that
check them on small instances, and theorems whose proofs TLAPS checks for every
value of the constants. `PROJECT.json` maps each definition to the lines it
models, lists the runs, the properties with a mutant that breaks each of them,
the hazards of the code and the theorems.

Paths below are relative to the repository; `kernel/` stands for
`app/harness/kernel/` and `cps/` for `app/projects/cps/`.

## 1. Inventory

### The agent kernel (`kernel/`)

Several processes of one host (workers, the API, the command line) share one
SQLite database. Every transaction of `infrastructure/sqlite.py` is serialised (`BEGIN IMMEDIATE`),
so a transaction is atomic; what lies between two transactions of a process is
not.

| part | state it keeps | operations |
| --- | --- | --- |
| durable runs (`application/runtime.py`, `worker.py`) | `run`, `submission`, `invocation`, `approval` records, an event log; in memory the executing task and its owner token | `submit`, `execute`, `_heartbeat`, `_step`, `_approval`, `approve`, `interrupt`, `cancel`, `reconcile`; the worker's `tick`, `ready`, `_execute` |
| composition walk | none of its own: it is repeated from the root at every resume and reads the ledger | `_walk` over `Sequence`, `Parallel`, `Condition`, `Loop`, `Supervisor` |
| capacity | semaphores of a process, expiring `capacity` slots in the database | `acquire`, `release`, `reserve_slot`, `release_slot`, `request` |
| artifacts, mailbox, memory, observers (`services.py`) | versioned heads, messages, memory versions and their history, a cursor for each observer and run | `publish`, `grant`, `send`, `receive`, `acknowledge`, `propose`, `review`, `drain` |
| engines and guardrails (`infrastructure/deepagents.py`, `middleware.py`, `guardrails.py`) | the checkpoint of an attempt, `context.degraded` | model calls with a fallback chain, tool calls, interrupts |
| remote agents (`infrastructure/remote.py`) | a row per operation, the runs and the interrupts of a thread on the server | `_invoke`, its submission, the search for a run whose answer was lost, polling, reviews of interrupts, cancellation |

Hard: a worker that stalls between two transactions and outlives its lease;
a crash between an effect and its record; reviews that are decided, edited or
expire while nobody executes; two executors; cancellation at any moment; an
operator who reconciles and thereby starts a finished run again. What makes it
correct: no effect is repeated unless the ledger or an operator says so,
committed steps stay committed and in order, nothing unreviewed happens, a final
status stays final, and every run settles.

### CPS inspections (`cps/application`, `domain`, `infrastructure/agents.py`)

An inspection (`cps_case`) gathers evidence and conclusions. Agents of the
inspection propose and people review. Each agent's work is a job (`cps_job`): a
transactional outbox `flush` submits jobs to the kernel and carries reviews and
stops there, and an observer projects finished runs back with `advance`. Agents
consult the case through `require_job` when they start. Hard: everything between
two of these transactions, done by several processes; runs that end late, twice
or not as reviewed; uploads that wait for another service; conclusions that
become stale. What makes it correct: every outcome enters the case once, as a
reviewer of the inspection let it through; no conclusion outlives what it was
drawn from; a closed inspection stays closed and complete; and no inspection
waits for its agents for ever.

### Services and reviews

| part | state it keeps | hard, and what makes it correct |
| --- | --- | --- |
| `cps/initial_review` | the row of a task, the background deliveries of the process | two executors of one row, a lazy sweep against a late result, callbacks that die with the process; a task has one outcome and everybody is told that one |
| its checks | none | small rules over texts and pictures; an overall verdict rests on checks that were made |
| `cps/room_checks` | two result caches of the process, callbacks nobody waits for | requests interleave at the model calls; a replay is the latest verdict, an older one is kept only where callbacks overlapped |
| `cps/weekly_report` | rows per window, the archive, what was pushed | several processes, each step a transaction of its own, death between any two; a window is pushed once |
| `cps/speech`, `cps/inspection_plans` | a replay cache of the process | eviction, expiry and refusals around the cache; what is replayed was answered |
| `app/skill/memory` | entries, patterns, an index | ingestion, backfill and retirement overtake each other; what was retired is not hinted |
| `app/skill/procedural_memory`, `coverage`, `effect_evaluation` | snapshots, metrics, counted patterns | pages that fail on the way, repeated recordings, limits of lists; the sums are those of what was fetched |
| `app/projects/doc_review`, `construction_plan_review` | none | incomplete facts; knowing less never lets a file pass |
| `app/harness` outside the kernel | in-process predecessor of the kernel | not modelled |
| `app/core`, `app/services`, `app/api`, `app/repositories` | configuration, clients, endpoints | their calls are the environment of the modules here |
| `cps-frontend`, `infra`, `migrations`, `scripts`, `examples` | | not modelled |

## 2. Modules

    KernelRun            the contract of a run, as its client sees it
      ^        ^
      |        +-------- CpsCase       one inspection over many runs
      | implements         ^
    AgentRun             MCCpsCase     its small instances
      ^    ^               CpsCaseProofs  theorems
      |    |
      |    +-- AgentRunProofs     theorems: order, approvals, retry budget; what the lease protects
      |    |     ^
      |    |   KernelRunProofs    the step lemma of the refinement
      |    +-- MCAgentRun         small instances
      +-- MCKernelRun             refinement mapping to KernelRun

    MCServices           every module below, in one run
      Capacity, Composition, Mailbox, Observers, AgentLoop (Guardrails), RemoteAgent
      InitialReview, RectificationChecks, RoomCallbacks, WeeklyReport
      RoomChecks, Speech, InspectionPlans   over OrderedDict, which their caches share
      SkillMemory, SkillMetrics
      DocReview, PlanReview

    MCCapacity, MCAgentLoop    runs of their own that show a disagreement
    MCTrees, MCToolCalls, MCSkillMetrics, MCRectificationChecks, MCDocReview,
    MCPlanReview               the inputs of a component's instance

    CapacityProofs       theorems about Capacity and the patterns of SkillMetrics
    ObserversProofs      about Observers and Mailbox
    RemoteAgentProofs    about RemoteAgent and AgentLoop
    CacheProofs          about the caches of RoomChecks, Speech and InspectionPlans
    ServiceProofs        about InitialReview, RoomCallbacks, WeeklyReport, SkillMemory, PlanReview

### AgentRun: `runtime.py` and `worker.py`

One run of a workflow that is a sequence of `N` steps. `run`, `inv` and `appr`
are the records of the database: the run, the ledger of invocations, and the
approvals. `pc`, `cur`, `loc` and `outcome` are the memory of each process: the
place in `execute`/`_step`, the step, the local `record` dictionary (which the
code saves whole, whatever has been written to the database since), and the
exception it is unwinding with. An action is one transaction or read together
with the Python that runs up to the next one.

| code | actions |
| --- | --- |
| `Worker.ready`, `tick`, `_execute` | `Poll`, `Claim`, `ClaimRefused`, `MarkConflict` |
| `execute` | `Resume` (the command line), `Claim`, `WalkDone`, `Unwind`, `Finalize` |
| `_heartbeat`, `lease_until` | `Heartbeat`, `LeaseExpires` |
| `_step` up to the ledger entry | `Walk`, `ReadRecord`, `BeforeGate`, `CreateRecord`, `ReviewInterrupt` |
| the attempt loop of `_step` | `StartAttempt`, `EnterHandler`, `HandlerReturns`, `HandlerFails`, `HandlerUnresolved`, `HandlerInterrupts`, `Suspend`, `Paused`, `SaveFailed`, `Retry`, `SaveUncertain`, `SaveOutput` |
| the end of `_step` | `AfterGate`, `Commit` |
| `_save_invocation` | inside each action that saves; refused for a stale owner: `SaveRefused` |
| `cancel`, task cancellation | `Cancel`, `TaskCancelled` |
| `approve`, ttl of an approval | `Decide`, `Expire` |
| `reconcile` | `ReconcileRetry`, `ReconcileOutput` |
| environment | `Crash` |

Data: an output is a member of a small set, an input is not represented (its
hash is compared by the code and never differs for one definition; another
definition is `Drifted`). `live` says whether `lease_until` lies in the future.
The token budget is taken as never used up. Two ghosts remember what the
database does not: `unsettled[s]`, the executions of a step that neither the
ledger nor an operator has settled, and `done`, the steps ever committed.
Operators headed "Mutant" are slightly wrong variants of a definition, never
reached by the specification.

### KernelRun: the contract

A run of one step as a client may rely on it: executed by one process at a time,
a handler called once for each new record of the step, a final status justified
by the ledger, the reviewed value committed. It has no workers, leases or
heartbeats. It is written as operators from a record to the set of records it
may become, so that CpsCase can keep a function of runs.

### CpsCase: `cps/application`

| code | actions |
| --- | --- |
| `start`, `amend`, `stop` | `Start`, `Amend`, `Stop` |
| `add_evidence` (two transactions around the embedding) | `BeginUpload`, `FinishUpload`, `UploadRefused` |
| `manual_result`, `_store_result` | `ManualResult`, `Stored`, `Dependents` |
| `dispatch`, `review_result` | `Dispatch`, `ReviewResult` |
| `archive`, `publish_plan`, `update_task` | `Archive`, `PublishPlan`, `CloseTasks` |
| `_enqueue` | `Enqueued` with the row it adds, `NewJob` |
| `flush`, `_flush_job`, `_flush_review` | `ScanJob`, `FlushStop`, `FlushReview`, `FlushSubmit`, `FlushRecord` |
| `advance` | `ReadRun` (the read before the transaction), `Project`, `ProjectNothing` |
| `require_job`, the CPS engine | `RequireJob`, inside `KernelStep` |
| the kernel | `KernelStep`, `Disturb`, `Reconcile`, `NativeDecide` |
| environment | `Die` (a process dies between two transactions) |

Simplifications. A versioned command is refused when the case has changed since
its author read it and may be sent again, so it is one step on the current case;
a replayed command only flushes. An upload is not: its version is checked twice
with a wait in between, and `fresh` models that. Kernel steps that only touch the
run are joined (`Begun`, `Concluded`, `Resumed`) where the case cannot be read or
written in between. The run and the review of an applied job are dropped
(`Spent`), as nothing reads them again. What an output contains is abstracted to
the finding it makes; that `validate_result` refuses a malformed output, and
that it would refuse one approved through the kernel's own endpoint, is not
represented. `failed` of a specialist is handled like `needs_human` by the code
and is the same value here. `max_images` is the bound `MaxEvidence`.

### Capacity and Composition: the rest of `runtime.py`

`Capacity` has the semaphores of a process (`free`, `slots`, `line`), the rows in
the store (`slot`) and the tasks of `acquire` and `request`. Everything up to the
next `await` is one turn of the event loop: a task that has begun `acquire`
holds `turn` until it waits or has all its permits, so no action of another task
comes between. `TakePermit`, `Yield` and `Reserve` are the loop of `acquire`;
`Request`, `Answer` the two ends of `request`; `Start`, `End`, `Cancel` the
invocations of the walk; `LeasePasses` and `Heartbeat` the expiry of slots.

`Composition` is the recursive `_walk` as an operator that maps what is saved to
the set of ways a walk may go: `Walk` with `InOrder`, `Branches`, `Iterate` and
`Supervise` for the kinds of nodes, `Attempt`, `Ask` and `Decided` for the step at
a leaf. An execution is one step (`Execute`); what happens between two executions
(`Decide`, `Reconcile`, `MemoryChanges`) are the others. It uses recursion, so it
is model-checked only. Leases and stalls are not repeated here; AgentRun has them.

### AgentLoop, Guardrails, RemoteAgent: inside a step

`AgentLoop` is one invocation of the deep agent engine: model calls with the
fallback chain and the mark it leaves (`ModelAnswers`, `mark`), tool calls and the
guardrails in front of them (`CallTool`, `ToolRefused`), the native interrupt and
its resumption from the checkpoint (`Interrupt`, `Resume`, `Dismiss`), attempts
(`Start`, `Failed`), the gate behind the step (`degrade_gate`, `Ends`). `Guardrails`
has the three checks of a call's arguments as operators.

`RemoteAgent` is an invocation whose handler is an agent on a LangGraph server, with
the part of `_step` around it: a first attempt or one an operator allowed
(`Begin`), an interrupted invocation that is resumed with what was decided or asks
for a review (`Resume`), the retries inside an attempt (`Retry`, which keep what the
attempt was resumed with), failure, death and reconciliation. An operation is what
`digest([invocation_id, resume])` tells apart: 0 without resume, else what a
reviewer decided, which may be the same for two contents. The handler submits
(`Submit`, `Answered`, `Unanswered`), looks for the run of a lost answer
(`Reconcile`), polls (`Poll`), and on an interrupted run asks (`Ask`): a thread without
interrupts is a conflict, an approved review lets the polling go on, whatever phase
the record is in. The server (`Arrives`, `RemoteEnds`) may get a request late, and
runs one at a time. An attempt starts when the one before it is gone;
AgentRun has the leases.

### Mailbox and Observers: `services.py`, `observation.py`

`Mailbox` is the inbox of one invocation: `abefore_model` takes messages into the
conversation, `Answered` and `aafter_model` acknowledge them, `Resume` goes on with
the checkpoint, `NewAttempt` without one, `Expires` and `Send` are the environment.
`Observers` is the cursor that several processes drain without a lock, the
observation run each final event starts, the memories proposed from it and their
reviews.

### The services of CPS

| module | actions |
| --- | --- |
| `InitialReview` | `Submit`, `Load`, `Execute`, `status`, `sweep_expired`, `ReadBody`, `Post`, `Record`, `Repush`; `DeadlinePasses`, `Crash` |
| `RectificationChecks` | operators: the tokens and rules of a text, the resemblance of measures, the validity of fields, the pictures, the overall verdict |
| `RoomChecks` | `Judge`, `Rejudge`, `Finish`, `Invalidate`; `Tick`. Both services, chosen by the initial state; the score and the overall verdict are operators |
| `RoomCallbacks` | `Dispatch`, `Post`; `Arrive`, `Crash` |
| `WeeklyReport` | `Look`, `Insert`, `TurnedAway`, `mark_running`, `mark_archiving`, `put_bytes`, `mark_completed`, `mark_failed`, `send`, `record_push`; `Abandon`; the queries as operators |
| `Speech` | `Refuse`, `Transcribe`, `LoadAudio`, `AsrReturns`; `Restart`, `Tick` |
| `InspectionPlans` | one request, `Tick` |
| `OrderedDict` | operators: what the caches do with Python's ordered dictionary |

A history variable (`latest`, `answered`, `made`, `overlapped`, `heard`, `pushes`)
remembers what the environment has seen where the code keeps nothing.

### Skill memories and the reviews

`SkillMemory` follows entries from the upstream record over the embedding into
the table (`Ingest`, `Backfill`, `FetchPage`, `NextItem`, `Upsert`), the clustering
transaction in its two halves (`ClusterReads`, `ClusterWrites`, `ClusterFails`),
retirement (`supersede_stale_patterns`) and retrieval; which entries are near is a
choice. `SkillMetrics` has the coverage analyses over pages (`Request`, `Page`,
`Fails`, `record_snapshot`), the effect metrics, their comparison and regression,
and the counted dispatch patterns (`Look`, `Write`, `reset_pattern`,
`consolidate_patterns`). The clients of the effect endpoint and of the dispatcher
pass a `transport` option that the shared HTTP client refuses (effect
`java_client.py:66`, procedural `java_client.py:66-70`); the constant `Injected`
says that they were given a client of their own, as the tests give them one.

`DocReview` and `PlanReview` are the rule engines as operators: a fact is known,
known not to be so, or unknown, and a rule gives a status. Their inputs are records of
facts (`MCDocReview`, `MCPlanReview`); the agents that extract the facts are outside.

### MCServices: many components, one run

These components share no state, so one run checks them all. An initial state
picks a component (`which`), and its `Init` and `Next` apply from then on; the
variables `a` to `g` are lent to its variables by `INSTANCE ... WITH`, which is
also where its constants get their values. The components that only compute take
one step, in which they are given an input. A property of the run is the
component's own, under `Is(name)`. So the states of the run are the sum, not the
product, of those of the components.

## 3. Runs

Runs are checked with deadlock detection off: a finished run, a closed
inspection or a delivered report stops, and so does the system once people and
bounds have nothing left to do. That something must happen is stated by the
liveness properties instead.

| run | instance | what it shows |
| --- | --- | --- |
| `fenced` | 2 workers, 1 command line, 2 steps, 2 attempts, 1 crash, 2 reconciliations, no stalls | no effect is repeated blindly (`NoBlindReexecution`), commits last (`CommittedStays`), the ledger shows every unsettled effect (`EffectsInLedger`), one executor (`ExecutorHoldsLease`), the retry policy is not widened (`RetryBudget`) |
| `reviews` | 1 worker, 2 steps: before and degrade reviews on the first, after review and native interrupt on the second, 2 outputs, 1 crash, 1 reconciliation, fairness | `NoUnreviewedEffect`, `CommitsReviewedOutput`, `RejectionIsFinal`, `FlagTellsUnclear`, `TerminalStays`, `EventuallySettled`, types |
| `stalls` | 2 workers that may outlive their leases, 2 steps, the second reviewed beforehand, 1 reconciliation | `StepsInOrder` and `SuccessIsComplete` do not need the lease |
| `contract` | 2 workers, 1 command line, 1 reviewed step, crash, reconciliation | AgentRun implements KernelRun under the mapping `View` (`ImplementsContract`) |
| `cps_outbox` | 2 processes, 1 of which may die, disturbed runs, 1 reconciliation, fairness | every outcome enters once (`ProjectedOnce`), as reviewed (`ConfirmedAsReviewed`), and the inspection always comes back to people (`CaseSettles`) |
| `cps_conclusions` | 3 kinds of conclusions, uploads, a manual conclusion, archive, plan, stops | `ActiveJobIsCurrent`, `ConclusionsAreCurrent`, `CompletedIsComplete`, `ReviewStaysApplicable`, `EvidenceFiledCurrent`, `ClosedStays` |
| `services` | the components of MCServices, below | one property of each |
| `blind_reexecution`, `terminal_overwritten`, `cps_native`, `capacity_deadlock`, `degraded_forgotten` | see section 4 | a documented property the code does not have |

The `services` run has about a million distinct states:

| component | instance | property |
| --- | --- | --- |
| `InitialReview` | 2 requests with the same texts and different context, 2 posts, 2 pushes, 1 death | `OneOutcomeTold` |
| `RoomChecks` | 2 requests, 2 keys, a cache of 1, 2 ticks | `ReplayIsLatest` |
| `RoomCallbacks` | 3 verdicts of a photo, 3 posts each | `ReplayIsLatest` (its `OlderOnlyIfOverlapped`) |
| `InspectionPlans` | 1 source, 2 plan types, a cache of 1, 2 ticks | `ReplayIsLatest` (its `ReplayIsLastDraft`) |
| `Speech` | 2 callers, 5 requests, a cache of 1, 2 ticks or restarts | `ReplayIsLatest` (its `ReplayWasAnswered`) |
| `WeeklyReport` | 2 processes, 3 moments in 2 windows, both dialects | `PushedOnce` |
| `RectificationChecks` | short texts over the classes of characters; submissions that vary one group of answers, texts or earlier versions at a time | `TextRulesAgree`, `OverallIsEarned` |
| `DocReview`, `PlanReview` | an impeccable file and those with one flaw, each with one thing less known; plans with up to two mishaps, or a mishap and another fact | `IgnoranceNeverPasses`, `PassedOnSight` |
| `SkillMemory` | 2 records, pages of 1, 1 request, 1 hint | `RetiredIsNotHinted` |
| `SkillMetrics` | 2 analyses, 2 filters, 2 periods, 1 retry | `StatisticsAddUp` |
| `Capacity` | an invocation with 2 overlapping requests, another run, 2 slots | `PermitsConserved` |
| `Composition` | the four compositions of MCTrees, with every kind of node, 2 executions, 1 change of memories | `EndsSettled` |
| `Observers` | 2 processes, 3 events, 1 review | `NoEventSkipped` |
| `Mailbox` | 2 messages, 2 attempts of 2 model calls | `ConsumedWasSeen` |
| `RemoteAgent` | 2 contents of the interrupts and 2 decisions on them, any number of attempts, retries and deaths | `RemoteStartedOnce` |
| `AgentLoop` | chains of up to 2 fallbacks, 3 modes, 2 attempts of 2 model calls and 1 tool call | `DegradedIsNoted`, `OnlyReliableCallsRun` |

Bounds. Two processes are enough for every race found: a race here is between
the process that holds the lease and one that takes it or is refused, or between
one that has read and one that writes. Two steps
are the least for which order and resumption from the ledger mean something. One
crash and one or two reconciliations put a failure and its repair at every place
of a run. The retry bound is one in runs about other questions. In CpsCase one round
of dispatch is a main agent and a specialist, so `MaxJobs` leaves room for the
dispatched job and the one that follows it; `MaxRounds = 1` makes the exhausted
budget happen in every run. A cache of one entry is full at once, so eviction happens
in every behaviour of two keys, and two ticks let an entry expire and be made
anew. Two executions of a composition are one that stops half-way and one that
resumes it. Workers are interchangeable where symmetry is
declared, which is only in runs without temporal properties.

Fairness. In `FairSpec` of AgentRun every process is scheduled, a handler ends
by its timeout at the latest, the heartbeat of a dead process does not renew its
lease and reviews expire. Nothing is assumed of reviewers, operators, crashes or
cancellations. In `FairSpec` of CpsCase the polling observer comes round to the
job the inspection waits for again and again (strong fairness: other steps may
disable a scan for a while, the loop of `Worker.observe` does not give up), a
process that has read something goes on unless it dies, and the run settles,
which is `EventuallySettled` of AgentRun. In `FairSpec` of Capacity semaphores
serve their waiters in turn and the polling for a slot goes on (strong fairness,
as a permit may be taken by another in between), a requested invocation that executes
and a handler that awaits nothing end, and the heartbeat keeps the slots; that is
generous to the code, and the run that uses it finds a violation all the same.

## 4. Where the code and its documents disagree

Each of these is a run that TLC must find violated; the quotations are in
`PROJECT.json`.

* `blind_reexecution`: `_step` reads a step's record and creates it in a later
  transaction that compares neither the lease nor the record
  (`runtime.py:808`, `847`). A worker that stalls there puts a new `pending`
  record over the committed one of the worker that took over.
* `terminal_overwritten`: `Worker._execute` answers a refused claim by writing
  `uncertain` when the lease is free, without reading the status
  (`worker.py:92`); the run may have succeeded meanwhile.
* `cps_native`: a result rejected in the inspection but approved through the
  kernel's endpoint before the rejection is delivered is stored as confirmed
  (`cps/application/reviews.py:346`).
* `capacity_deadlock`: a handler's second request is made while the first one's
  task is taking the caller's permits again; the caller then holds them while it
  waits for a request that needs them (`runtime.py:134`).
* `degraded_forgotten`: only the last fallback that answered is marked, and a
  resumed attempt starts unmarked, so that a result which rests on the answer of a
  model that may not decide passes the gate (`middleware.py:125`).

Behaviours seen while modelling that have no run of their own: some contradict a
comment, some are only worth knowing. Where a property is named, it is stated in
its module and does not hold.

Kernel.
* The `uncertain` of `terminal_overwritten` leaves `has_uncertain_effects` unset,
  and a cancellation afterwards ends the run without the warning.
* The stream of a run's events (`agent_runs.py:283-318`) reads the events before
  the status and may end without the last one.
* The record of a remote run is found by what its attempt was resumed with
  (`remote.py:49`). If an attempt that resumed a reviewed run ends without the answer,
  the retry an operator allows has no resume (`runtime.py:867`, `1020`): it polls the
  first run, which stays interrupted, and ends in a conflict each time, while the
  result waits on the server until an operator enters it by hand.
* A synchronous handler outlives its timed-out attempt in its thread, and the
  retry may overlap it (`runtime.py:900`).
* A completed node is read again only while the memories accepted for it are the
  same; otherwise a resumed walk ends in a conflict (`Composition.FinishedIsRead`;
  `runtime.py:617-622`, `806`). The error of a branch that `allow_partial` tolerated
  inside a loop or condition becomes such a conflict as well.
* The members of a supervisor do not inherit the approval of the nodes around it.
* A request that its handler does not await takes permits again after the caller
  has ended, and nobody gives them back; a heartbeat revives lapsed slots.
* What an attempt consumed is not in the conversation of the next one
  (`Mailbox.FinishedHasRead`); a message sent again with the key of an expired
  one is never delivered.
* An observation that fails keeps the cursor where it is until an operator
  repairs it, and a slower process may put the cursor back; events are then
  observed again, which their keys make harmless.
* Guardrails: a null passes any declared type, and a list of types that names
  "number" refuses an integer where the single type takes it.

CPS.
* Weekly report: windows begin on Sunday 16:00 UTC, periods are turned back into
  Monday 00:00 UTC (`repository.py:25-33`), so the filter by a report's own period
  never finds it (`FoundByPeriod`); a second run of a window gets no row, although
  the model numbers runs (`RerunGetsRow`; `models/weekly_report.py:40-51`).
* Speech: of two requests with one key, the SKIPPED of the one the ASR service
  refuses late replaces the transcript of the other (`TranscriptStands`).
* Room checks: callbacks of one photo arrive in any order; a fingerprint with a
  slash or a brace has none; the default endpoint is `http://java.test`; a content
  mismatch alone is no problem (`MismatchIsProblem`); `_pending_callbacks` is never
  emptied (`judge_service.py:510-513`).
* Initial review: texts that were never checked count as failed in the callback of
  a failed or timed-out task (`callback.py:78`); the model's answer with a trailing
  comma is repaired only if it has single quotes as well (`model_client.py:141-154`);
  the photos may be judged although one side has none that could be had (`JudgedOnBothSides`).
* Inspection plans: a key that comes again with another body gets the first
  draft, and after expiry a new draft has the old id.
* `scheduler.run_job` resumes a paused job.

Skill memories and reviews.
* Coverage totals are sums over the five largest groups; a gap is counted once
  per type; a snapshot has no filter in its key, so the last filter asked stays.
* The clustering writes back the tags it read: a tag that says a record is outdated and
  is stored meanwhile is lost, and the sweep passes over the record
  (`memory/infrastructure/repository.py:560-564`).
* The effect baseline ignores `baseline_days`; on PostgreSQL an upsert overwrites
  the sample count its docstring adds up; `dispatch_pattern` has no unique key.
* Episode search on SQLite cuts off before it ranks, on PostgreSQL the pattern
  search is limited without an order.
* Document review: a rejection may rest on a mark that could not be read, and be
  lifted when it is (`RejectedByEvidence`); plan review: a file whose rendering failed is silently
  left out.

## 5. Theorems

A run shows a property on one small instance, a theorem for every value of the
constants. Each safety property of the runs `fenced`, `stalls`, `contract`,
`cps_outbox` and `cps_conclusions`, and each of `reviews`, is a theorem, and so are
most of those of `services`; where one has hypotheses beyond the assumptions on
the constants, they are named below.

### AgentRun

For any number of workers, command lines, steps, outputs, crashes,
cancellations and reconciliations, from `ConstantsAssumption`. An invariant
builds on those above it.

Processes may stall (AgentRunProofs):

* `TypeCorrect`: `[]TypeOK`. The invariant `TypeInv` adds which places of a
  process allow which step number (`cur` is a step, except behind the last one)
  and which local record.
* `OrderCorrect`, `SuccessCorrect`: `StepsInOrder` and `SuccessIsComplete`. They
  are not inductive: `OrderInv` adds that every process has seen the steps in
  front of it succeed (`Behind`), that success is concluded from a finished walk
  (`Concluded`), that `done` remembers the ledger (`Recorded`) and that no
  process holds a copy of a success it might save over (`CopyIsOpen`).
* `ReviewCorrect`: `NoUnreviewedEffect`. `ReviewInv` adds that a process behind the
  gate of a step has seen it approved; the lemma `ApprovedStays` is that nothing
  takes an approval back.
* `BudgetCorrect`: `RetryBudget`. `BudgetInv` adds that a record waiting for an
  attempt has one left of those the policy and the operators allow (`Allowed`), also
  in the copy of the process about to start it.

No process outlives its lease (`~Stalls`; second part of AgentRunProofs). The run
`blind_reexecution` shows that the assumption is needed.

* `FencedCorrect`, `CommitCorrect`, `LedgerCorrect`, `LeaseCorrect`:
  `NoBlindReexecution`, `CommittedStays`, `EffectsInLedger` and
  `ExecutorHoldsLease`. They are inductive only together, and with what the
  ledger shows for the step a process is at, place by place (`LedgerAt`), and
  what the process is about to save (`CopyAt`): `FenceInv`. The lemma `Alone` then
  excludes a second process.
* `OutputCorrect`: `CommitsReviewedOutput`. `OutputInv` adds that a review
  of an output exists only while the ledger holds an output that needs it, and
  that what a process carries to `Commit` has passed that review (`OutputAt`).
* `RejectionCorrect`: `RejectionIsFinal`. `GateInv` adds that an open or rejected
  review of a tool call holds its step at `interrupted`, and where processes may be
  meanwhile (`GateAt`).
* `FlagCorrect`: `FlagTellsUnclear`, with two more hypotheses: no worker runs another
  definition, and processes do not crash or a worker has no other process to
  dispute the run with (`Undisputed`). With several workers and a crash it is
  false: a stale `Conflict` makes the run `uncertain` without the flag, and a
  cancellation then ends it.
* `TerminalCorrect`: `TerminalStays`, for undisputed runs and workers of one
  definition; the run `terminal_overwritten` is the counterexample otherwise.
  `FinishedCorrect` is what is left when processes do dispute the run: a finished status
  changes by an operator, or to `uncertain`, and never to another result.

`ContractCorrect` (KernelRunProofs) is the refinement: under the mapping `View` a run of one
step that is attempted once and reviewed by its policy or not at all (`Plain`) is
a behaviour of KernelRun, for a finite set of processes, under `~Stalls` and without
drifted workers. These are the runs the contract is about, the ones CpsCase
uses. The mapping reads the memory of whoever executes, so the
step lemmas need what a process remembers in relation to the ledger and to the
review (`PlainInv`), beyond the invariants above. For each action there is a lemma that names
the operator of the contract it is, or that the view stays (`SeenSame`); the view is
taken field by field (`Seen`), so that each lemma speaks of the fields that change.

### CpsCase

For any conclusions, findings and required outputs, any number of jobs, uploads,
processes, deaths and disturbed runs (CpsCaseProofs), from `CaseAssumption`:

* `TypeCorrect`: `[]TypeOK`. The types are not inductive, as a projection
  stores what the run returned: `RunInv` says that a run that succeeded holds an output
  of its job's agent, that a gated run commits what the reviewer let
  through (`Sound`), that an applied job has no run left, and that what a process remembers
  from an earlier transaction is still so (`Remembers`). It rests on one
  lemma for each operator of KernelRun (`Follows`).
* `ProjectedCorrect`: `ProjectedOnce`. The count of a job's projections is that of its `applied`
  mark (`TallyInv`).
* `ActiveCorrect`, `ClosedCorrect`: `ActiveJobIsCurrent` and the action property
  `ClosedStays`. `ActiveInv` adds that a closed case waits for nothing: a late projection, review
  or upload then finds no job it could open the case with.
* `EvidenceCorrect`: the action property `EvidenceFiledCurrent`. `UploadInv` adds that the issue
  an upload was begun for is current as long as nothing has touched the case.
* `ReviewCorrect`: `ReviewStaysApplicable`. `ReviewInv` adds which reviews name a
  specialist, and that what a recorded review asks for can be done on the case (`Possible`);
  so no command between review and projection may undo it.
* `CompletedCorrect`: `CompletedIsComplete`, from `ReviewInv`: a case is completed by the
  projection of an approved finish, whose conditions were checked when it was reviewed.
* `ConclusionsCorrect`: `ConclusionsAreCurrent`. `Consistent` is that statement key
  by key, so that the lemma `DependentsClosed` (whatever was drawn from a discarded conclusion
  is discarded) carries each step.
* `ReviewedCorrect`: `ConfirmedAsReviewed`, if reviews are decided in the inspection
  (`~Native`; the run `cps_native` is the counterexample otherwise). `VouchInv` adds that the
  kernel takes for approved only what the recorded review of the job accepts.

Each step of the case is classified once (`StepKinds`) by what it does to the case and the jobs;
the invariants are passes over that classification.

### The services

* `InitialReviewCorrect` (ServiceProofs): `OneOutcomeTold`, for any requests,
  attempts, limits and deaths, from no assumption. The invariant adds that before
  the row has ended nothing is told and nobody has the natural callback to send
  (`Unended`), that what is posted is the body of the row and the natural
  callback has one sender (`Bodied`), and that one request has created the row
  (`First`). The lemma `Kept` is shared by the actions of a caller that leave the
  row or end it.
* `ObserversCorrect` (ObserversProofs): `NoEventSkipped`, for any number of
  processes, from `MaxEvents \in Nat`. The invariant adds that what lies before
  the event a process is at is handled (`Placed`), so that whoever saves the
  cursor, and wherever another has moved it, passes over nothing; and that one
  process executes an observation (`Alone`). A step may alter what has neither
  succeeded nor is executed by another process (lemma `Step`).
* `RemoteAgentCorrect` (RemoteAgentProofs): `RemoteStartedOnce`, for any number of
  reviews and attempts, from `MaxReviews \in Nat`. The server starts no second run
  because a record is saved before the request and never goes back: an operation without a
  record was never sent and one that is on its way has no run yet (`OnceInv`). That
  the output returned is that of the last run needs more, as an operator's retry goes back
  to the first operation and decisions may be alike: one operation at a time is under way,
  the first or one that settles what the thread shows, and a success leaves nothing
  under way and nothing to review (`ThreadInv`, `FirstInv`); what interrupted
  an invocation is settled, or is what the thread shows while all is quiet
  (`ResumeInv`); an attempt that is about to submit finds the server quiet and
  answers what the thread shows (`AgentInv`). What the steps of an attempt leave
  as it is on the server is shown once (`ServerStays`, `Moves`), and likewise for
  those of the server (`Alone`, `ServerMoves`).
* `MailboxCorrect` (ObserversProofs): `ConsumedWasSeen`, from no assumption. The
  invariant adds that an answered conversation has been seen as a whole.
* `CapacityCorrect`, `LimitsCorrect` (CapacityProofs): `PermitsConserved`, and that
  the permits out never exceed a limit, for finitely many callers and requests
  and any limits (`Deployed`: what the wiring guarantees). The property is
  inductive with the types and one fact about the tasks: only a request takes back what
  another context released. It compares a semaphore with a sum over all
  contexts, so the proof brings a theory of such sums: induction over the naturals from
  the library's well-foundedness of `<` (`Induction`), existence and uniqueness of a
  sum over a finite set, and what becomes of it when one or two of its terms change.
* `PatternsCorrect` (CapacityProofs, instance `Statistics`): `PatternsAddUp`, the part of
  `StatisticsAddUp` about the dispatch patterns, for any number of recordings that look
  and write in any order, from `Given` (counts are natural numbers, reasons are lists,
  `ReasonsMax \in Nat`). The sum over the rows alone is not inductive: a request of
  sqlite writes back what it saw. The invariant `PatternsCovered` adds that the
  count it saw in the first row, with the rows behind it now, is covered by the
  cases recorded so far, so that a write may lose cases and never counts one twice.
  It uses the same theory of sums.
* `DegradedCorrect`, `GuardrailsCorrect` (RemoteAgentProofs, instance `Loop`):
  `DegradedIsNoted` and `OnlyReliableCallsRun`, for any chain of fallbacks, limits, inventory and
  patterns (`Numeric`: what is compared as a number is one). The invariant adds that the
  mark is one of the fallbacks that answered since the handler was entered and that
  the record holds the mark the gate has looked at (`Marked`), and that a call that waits for its
  tool or for a person is one of the model's (`CallsInv`).
* `CallbacksCorrect` (ServiceProofs): `OlderOnlyIfOverlapped`, from
  `MaxVerdicts \in Nat`. The invariant (`VerdictInv`) adds that an earlier verdict that is still open
  was open when each later one was dispatched, so that it is among the recorded overlaps.
* `PushesCorrect` (ServiceProofs): `OnePush`, the part of `PushedOnce` about archive
  and pushes, for any number of executions and windows, from `Hours \subseteq Int`. The
  invariant (`PushInv`) adds that a window has at most one row (`OneRow`), that one execution
  works on it (`Alone`), that the row has the status the execution's place demands
  (`Placed`), and that nothing is pushed for the window before that execution has sent it
  (`Unsent`).
* `RetiredCorrect` (ServiceProofs): the action property `RetiredIsNotHinted`, from no
  assumption. Every step leaves a retired entry retired (`StaysRetired`), and a hint is an
  active entry.
* `PlanReviewCorrect` (ServiceProofs): `PassedOnSight` of every plan, any number of tries and whatever
  the providers and the agent answer. `PlanGiven` says what a plan is: every picture
  has an answer for each try, and the facts have the values of their schema.
* `RoomChecksCorrect`, `DraftsCorrect`, `SpeechCorrect` (CacheProofs):
  `ReplayIsLatest` of RoomChecks, `ReplayIsLastDraft` and `ReplayWasAnswered`, for caches of any size
  and any requests in flight. They share lemmas about OrderedDict: storing, moving to
  the end, removing and trimming keep the keys apart and the entries those that were stored.

These properties are stated in the module of the component; the run checks them through
the instances of MCServices, where each is under `Is(name)`. `ReplayIsLatest` of the run is the conjunction
of four of them, and three theorems of CacheProofs with `CallbacksCorrect` are its four parts.
Where the bounds of an instance are hypotheses they stand in the theorem.

The proof of `PlanReviewCorrect` found that the models used `CASE` with overlapping guards for an
ordered `if`/`elif`. TLC takes the first arm that is true, but TLA+ leaves open which one: such
a definition says less than the code. They are `IF`/`ELSE` chains now; what TLC computes
has not changed.

### Only model-checked

* The liveness properties `EventuallySettled` and `CaseSettles`: fairness is out of the
  prover's reach. That `FairSpec` of CpsCase assumes of a run what `EventuallySettled`
  says is therefore connected by the runs only.
* `EndsSettled`: `Composition` is recursive, as the walk is.
* `PagesShowOnce`, the other part of `PushedOnce`, and `AddsUp`, the other part of
  `StatisticsAddUp`: pages, snapshots and their answers are sorted, filtered and folded sequences, and what these operators compute for every
  input would need an induction for each of them.
* `TextRulesAgree`, `OverallIsEarned` and `IgnoranceNeverPasses` compare what
  functions compute over such data: tokens of a text, resemblances, lists of findings.
* The violations of section 4, which are about one instance each.

## 6. Not modelled, and the plan

Not modelled:

* The kernel's artifacts (one compare-and-set transaction each), its token, time
  and invocation budgets, the compiled and the interpreted engine, MCP and sandbox
  resources. The store is the atomic transaction of the other modules.
* CPS: the tasks of a published plan one by one, the review of knowledge and its
  rollback, retrieval.
* `app/harness` outside the kernel: no durable state, and the projects of today run
  on the kernel.
* Configuration, authentication, logging, clients and endpoints, the trend
  endpoints of the skill component, the front end, the model servers and the migrations: they
  are input and output, or have no state the properties tell apart.
* The content of prompts and of outputs, the numbers of embeddings, the
  geometry of pictures.

The plan, in its order:

1. The contract for runs that are attempted more than once, and CpsCase over it.
2. The review of knowledge in CPS with its rollback, and the budgets of a run.
3. Lemmas about filtered and flattened sequences, for `IgnoranceNeverPasses`.
