------------------------------ MODULE CpsCase ------------------------------
(***************************************************************************)
(* One CPS inspection: people review what the agents of the inspection     *)
(* propose, and a transactional outbox of jobs carries the reviewed work   *)
(* to the agent kernel and its results back.                               *)
(*                                                                         *)
(* Source: app/projects/cps (InspectionService with ReviewUseCases and     *)
(* KnowledgeUseCases, Inspection, CPSEngine, CPSLifecycle).  `case` and    *)
(* `jobs` are the database records cps_case and cps_job; `runs` are the    *)
(* kernel runs, each a record of KernelRun, whose contract AgentRun        *)
(* implements; `mem` is what a process remembers between two transactions. *)
(*                                                                         *)
(* A command carries the version of the case its author has read and is    *)
(* refused once the case changed; it may then be sent again with the new   *)
(* one.  So a command is one step on the current case, and a replayed      *)
(* command only flushes the outbox.  An upload reads the case, embeds the  *)
(* image and writes in a second transaction: its version is modelled.      *)
(***************************************************************************)
EXTENDS Naturals, Sequences

CONSTANTS
    Keys,           \* the conclusions the specialists of this case draw
    Required,       \* required_outputs
    Findings,       \* what a specialist may find
    IssuesIn(_),    \* the issues a finding of "issues" lists
    NoValue,
    Procs,          \* processes that flush and project (API, workers)
    Native,         \* do reviewers use the kernel's own approval endpoint?
    Disturbed,      \* do crashes, operators and time interfere with runs?
    MaxRounds,      \* max_rounds
    MaxJobs, MaxEvidence, MaxManual, MaxArchives, MaxReconciles,
    MaxDeaths       \* bounds

AllKeys == {"issues", "rectification", "history_analysis", "coverage",
            "report", "work_plan"}

ASSUME CaseAssumption ==
    /\ Keys \subseteq AllKeys
    /\ Required \subseteq AllKeys
    /\ MaxRounds \in Nat \ {0}
    /\ MaxJobs \in Nat /\ MaxEvidence \in Nat /\ MaxManual \in Nat
    /\ MaxReconciles \in Nat /\ MaxArchives \in Nat /\ MaxDeaths \in Nat
    /\ Native \in BOOLEAN /\ Disturbed \in BOOLEAN

VARIABLES
    case,        \* the cps_case record
    jobs,        \* the cps_job records, in the order of their creation
    runs,        \* the kernel run submitted for each job
    mem,         \* what each process has read and not yet acted upon
    upload,      \* an upload between its two transactions
    projected,   \* ghost: how often each job's outcome entered the case
    manuals, archives, reconciles, deaths   \* counters of the bounds

vars == <<case, jobs, runs, mem, upload, projected, manuals, archives,
          reconciles, deaths>>
kernelVars == <<runs, reconciles>>
bounds == <<manuals, archives, deaths>>

-----------------------------------------------------------------------------
(* Types                                                                   *)

JobIds == DOMAIN jobs
NoJob == 0
Agents == Keys \cup {"main", "observation"}

(* ProposalOutput of the main agent, ResultOutput of a specialist (whose   *)
(* status `failed` is handled as needs_human).                             *)
Proposals == [act : {"request_input", "request_human", "finish"},
              of : {NoValue}]
             \cup [act : {"propose_agent"}, of : Keys]
Results == [act : {"completed"}, of : Findings]
           \cup [act : {"needs_input", "needs_human"}, of : {NoValue}]
Nothing == [act |-> "nothing", of |-> NoValue]
Values == Proposals \cup Results \cup {Nothing}

(* What an observation proposes to the memory is no concern of the case.   *)
OutputsOf(agent) ==
    CASE agent = "main" -> Proposals
      [] agent = "observation" -> {Nothing}
      [] OTHER -> Results

(* One worker polls: what a second one may do to a finished run is shown   *)
(* by AgentRun (TerminalStays).                                            *)
Kernel == INSTANCE KernelRun WITH
    Values <- Values, NoValue <- Nothing, Contended <- FALSE, r <- runs

(* A stamp tells the confirmations of a key apart, as their digest does.   *)
(* `by`, `basis`, `ev` and `vouched` are ghosts: the job a conclusion came *)
(* from, the conclusions and the evidence it was drawn from, and whether a *)
(* reviewer let it through.                                                *)
Stamps == [Keys -> Nat]
Confirmation == [stamp : Nat, value : Findings \cup {NoValue}, by : Nat,
                 basis : Stamps, ev : Nat, vouched : BOOLEAN]
Review == [action : {"none", "approve", "modify", "retry", "skip", "return",
                     "manual", "confirm_result", "reject_result"},
           accept : BOOLEAN, selected : Keys \cup {"none"},
           original : Values, effective : Values]
Job == [agent : Agents, ev : Nat, snapshot : Stamps, known : BOOLEAN,
        applied : BOOLEAN, review : Review,
        stop : {"none", "return", "cancel"}]

NoStamps == [k \in Keys |-> 0]
Unconfirmed == [stamp |-> 0, value |-> NoValue, by |-> NoJob,
                basis |-> NoStamps, ev |-> 0, vouched |-> FALSE]
NoReview == [action |-> "none", accept |-> FALSE, selected |-> "none",
             original |-> Nothing, effective |-> Nothing]
NoRun == [Kernel!Submitted(FALSE) EXCEPT !.status = "none"]
Spent == [NoRun EXCEPT !.status = "over"]
Memory == [at : {"idle", "cancel", "approve", "submit", "record", "project"},
           job : Nat, won : BOOLEAN]
Asleep == [at |-> "idle", job |-> NoJob, won |-> FALSE]
NoUpload == [kind |-> "none", issue |-> NoValue, stamp |-> 0, fresh |-> FALSE]

Issues == UNION {IssuesIn(f) : f \in Findings}
Closed == {"completed", "cancelled"}

TypeOK ==
    /\ case \in [status : Closed \cup {"collecting", "active", "needs_input",
                                       "needs_human"},
                 active : {NoJob} \cup JobIds, ev : Nat,
                 before : BOOLEAN, after : SUBSET (Issues \X Nat),
                 conf : [Keys -> Confirmation], archived : Nat, plan : Nat,
                 tasks : SUBSET Nat, rounds : Nat, stamps : Nat]
    /\ \A j \in JobIds : jobs[j] \in Job
    /\ runs \in [JobIds -> Kernel!RunRecord \cup {NoRun, Spent}]
    /\ mem \in [Procs -> Memory]
    /\ upload.kind \in {"none", "before", "after", "context"}
    /\ projected \in [JobIds -> Nat]

Init ==
    /\ case = [status |-> "collecting", active |-> NoJob, ev |-> 1,
               before |-> FALSE, after |-> {},
               conf |-> [k \in Keys |-> Unconfirmed], archived |-> 0,
               plan |-> 0, tasks |-> {}, rounds |-> 0, stamps |-> 0]
    /\ jobs = <<>>
    /\ runs = <<>>
    /\ mem = [p \in Procs |-> Asleep]
    /\ upload = NoUpload
    /\ projected = <<>>
    /\ manuals = 0 /\ archives = 0 /\ reconciles = 0 /\ deaths = 0

-----------------------------------------------------------------------------
(* The case                                                                *)

Stamped(c) == [k \in Keys |-> c.conf[k].stamp]
Confirmed(c) == {k \in Keys : c.conf[k].stamp > 0}

(* Mutants: a busy or a closed case may be changed as well.                *)
IsOpen(c) == c.status \notin Closed
IsUnoccupied(c) == c.active = NoJob

IsIdle(c) == c.active = NoJob /\ c.status \notin Closed

(* _save() counts the version up: an upload in flight read an older one.   *)
Saved == upload' = [upload EXCEPT !.fresh = FALSE]

(* Mutant: the archive and the plan do not matter.                         *)
CanFinishUnpublished(c) == Required \subseteq Confirmed(c)

CanFinish(c) ==
    /\ Required \subseteq Confirmed(c)
    /\ "report" \in Required => c.archived > 0
    /\ "work_plan" \in Required => c.plan > 0

(* invalidate()                                                            *)
Invalidated(c) ==
    [c EXCEPT !.conf = [k \in Keys |-> Unconfirmed],
              !.archived = 0, !.plan = 0, !.ev = @ + 1]

Without(c, dropped) ==
    [c EXCEPT !.conf = [k \in Keys |-> IF k \in dropped THEN Unconfirmed
                                       ELSE c.conf[k]]]

(* Mutant: new issues leave the rectification judgement alone.             *)
DependentsBarRectification(key) ==
    CASE key \in {"issues", "rectification", "history_analysis", "coverage"}
            -> {"report", "work_plan"}
      [] key = "report" -> {"work_plan"}
      [] key = "work_plan" -> {}

Dependents(key) ==
    CASE key = "issues" -> {"report", "work_plan", "rectification"}
      [] key \in {"rectification", "history_analysis", "coverage"}
            -> {"report", "work_plan"}
      [] key = "report" -> {"work_plan"}
      [] key = "work_plan" -> {}

(* _store_result(): a new conclusion discards what was drawn from the old. *)
Stored(c, key, value, by, basis, ev, vouched) ==
    LET kept == Without(c, Dependents(key)) IN
    [kept EXCEPT !.conf[key] = [stamp |-> c.stamps + 1, value |-> value,
                                by |-> by, basis |-> basis, ev |-> ev,
                                vouched |-> vouched],
                 !.stamps = @ + 1,
                 !.archived = IF key = "work_plan" THEN c.archived ELSE 0,
                 !.plan = 0]

KnownIssues(c) ==
    IF "issues" \in Confirmed(c) THEN IssuesIn(c.conf["issues"].value) ELSE {}

(* _can_dispatch()                                                         *)
CanDispatch(c, key) ==
    /\ key = "issues" => c.before
    /\ key = "rectification" =>
          /\ KnownIssues(c) # {}
          /\ \A i \in KnownIssues(c) :
                <<i, c.conf["issues"].stamp>> \in c.after

(* Mutant: off by one.                                                     *)
JobAfterNext(queue) == Len(queue) + 2

NextJob(queue) == Len(queue) + 1

NewJob(agent, c) ==
    [agent |-> agent, ev |-> c.ev, snapshot |-> Stamped(c), known |-> FALSE,
     applied |-> FALSE, review |-> NoReview, stop |-> "none"]

(* _enqueue(): the next job of the case, or the end of the rounds.         *)
Enqueued(agent, c, queue, started, tally) ==
    /\ Len(queue) < MaxJobs
    /\ jobs' = Append(queue, NewJob(agent, c))
    /\ runs' = Append(started, NoRun)
    /\ projected' = Append(tally, 0)
    /\ case' = IF agent = "observation" THEN c
               ELSE [c EXCEPT !.active = NextJob(queue), !.status = "active",
                              !.rounds = IF agent = "main" THEN c.rounds + 1
                                         ELSE c.rounds]

EnqueueMain(c, queue, started, tally) ==
    IF c.rounds >= MaxRounds
    THEN /\ case' = [c EXCEPT !.status = "needs_human", !.active = NoJob]
         /\ jobs' = queue /\ runs' = started /\ projected' = tally
    ELSE Enqueued("main", c, queue, started, tally)

-----------------------------------------------------------------------------
(* Commands of people                                                      *)

Start ==
    /\ IsIdle(case)
    /\ EnqueueMain(case, jobs, runs, projected)
    /\ Saved
    /\ UNCHANGED <<mem, reconciles, bounds>>

Amend ==
    /\ IsIdle(case) /\ case.ev < MaxEvidence
    /\ case' = [Invalidated(case) EXCEPT !.status = "collecting"]
    /\ Saved
    /\ UNCHANGED <<jobs, runs, mem, projected, reconciles, bounds>>

(* add_evidence() up to the await of the embedding service ...             *)
BeginUpload(kind, issue) ==
    /\ upload = NoUpload /\ IsIdle(case) /\ case.ev < MaxEvidence
    /\ kind = "after" => issue \in KnownIssues(case)
    /\ upload' = [kind |-> kind, issue |-> issue, fresh |-> TRUE,
                  stamp |-> IF "issues" \in Keys
                            THEN case.conf["issues"].stamp ELSE 0]
    /\ UNCHANGED <<case, jobs, kernelVars, mem, projected, bounds>>

AfterUpload(c, issue, stamp) ==
    [Without(c, {"rectification", "report", "work_plan"}) EXCEPT
        !.archived = 0, !.plan = 0, !.ev = @ + 1,
        !.after = @ \cup {<<issue, stamp>>}]

(* Mutant: what was read before the await is not looked at again.          *)
UploadUnchecked == upload # NoUpload

(* ... and the second transaction, which looks at the case again.          *)
UploadCurrent == upload # NoUpload /\ upload.fresh /\ IsIdle(case)

FinishUpload ==
    /\ UploadCurrent
    /\ case' = [(IF upload.kind = "after"
                 THEN AfterUpload(case, upload.issue, upload.stamp)
                 ELSE [Invalidated(case) EXCEPT
                          !.before = @ \/ upload.kind = "before"])
                EXCEPT !.status = "collecting"]
    /\ upload' = NoUpload
    /\ UNCHANGED <<jobs, kernelVars, mem, projected, bounds>>

UploadRefused ==
    /\ upload # NoUpload /\ ~(upload.fresh /\ IsIdle(case))
    /\ upload' = NoUpload
    /\ UNCHANGED <<case, jobs, kernelVars, mem, projected, bounds>>

ManualResult(key, value) ==
    /\ IsIdle(case) /\ manuals < MaxManual
    /\ case' = Stored(case, key, value, NoJob, Stamped(case), case.ev,
                      TRUE)
    /\ manuals' = manuals + 1
    /\ Saved
    /\ UNCHANGED <<jobs, kernelVars, mem, projected, archives, deaths>>

(* stop(): the status is decided when the stopped run has ended.           *)
Stop(action) ==
    /\ case.status \notin Closed
    /\ IF case.active # NoJob
       THEN /\ jobs' = [jobs EXCEPT ![case.active].stop = action]
            /\ UNCHANGED case
       ELSE /\ case' = [case EXCEPT !.status = IF action = "cancel"
                                               THEN "cancelled"
                                               ELSE "needs_input"]
            /\ UNCHANGED jobs
    /\ Saved
    /\ UNCHANGED <<kernelVars, mem, projected, bounds>>

(* _pending_job(): the active job has an approval that nobody decided.     *)
AwaitsReviewer(j) ==
    /\ jobs[j].known /\ jobs[j].review = NoReview
    /\ runs[j].review = "pending"

Record(j, review) ==
    /\ jobs' = [jobs EXCEPT ![j].review = review]
    /\ Saved
    /\ UNCHANGED <<case, kernelVars, mem, projected, bounds>>

(* Mutant: the recommended specialist is dispatched whatever it needs.     *)
SelectableUnchecked(proposal, action, key) ==
    \/ action \in {"approve", "retry"} /\ proposal.act = "propose_agent"
       /\ key = proposal.of
    \/ action = "modify" /\ CanDispatch(case, key)

(* Who runs next when the reviewer names a specialist.                     *)
Selectable(proposal, action, key) ==
    /\ CanDispatch(case, key)
    /\ \/ action \in {"approve", "retry"} /\ proposal.act = "propose_agent"
          /\ key = proposal.of
       \/ action = "modify"

(* Mutant: an inspection may be finished whatever it lacks.                *)
AcceptableAlways(proposal) == proposal.act # "propose_agent"

(* A proposal without a specialist that a reviewer may approve.            *)
Acceptable(proposal) ==
    /\ proposal.act # "propose_agent"
    /\ proposal.act = "finish" => CanFinish(case)

Dispatch(j, action) ==
    LET proposal == runs[j].value
        Decided(key, effective) ==
            Record(j, [action |-> action, accept |-> TRUE, selected |-> key,
                       original |-> proposal, effective |-> effective])
    IN
    /\ j = case.active /\ jobs[j].agent = "main" /\ AwaitsReviewer(j)
    /\ \/ \E key \in Keys :
             /\ Selectable(proposal, action, key)
             /\ Decided(key, [act |-> "propose_agent", of |-> key])
       \/ /\ action = "approve" /\ Acceptable(proposal)
          /\ Decided("none", proposal)
       \/ /\ action \in {"skip", "return", "manual"}
          /\ Decided("none", proposal)

(* review_result(): the reviewer may edit what is confirmed.               *)
ReviewResult(j, accept, edited) ==
    /\ j = case.active /\ jobs[j].agent # "main" /\ AwaitsReviewer(j)
    /\ Record(j, [action |-> IF accept THEN "confirm_result"
                             ELSE "reject_result",
                  accept |-> accept, selected |-> "none",
                  original |-> runs[j].value, effective |-> edited])

(* archive() asks neither for an idle nor for an open case.                *)
Archive ==
    /\ "report" \in Confirmed(case) /\ case.status # "cancelled"
    /\ archives < MaxArchives
    /\ Enqueued("observation",
                [case EXCEPT !.archived = case.conf["report"].stamp],
                jobs, runs, projected)
    /\ archives' = archives + 1
    /\ Saved
    /\ UNCHANGED <<mem, reconciles, manuals, deaths>>

(* Earlier published tasks must be closed before another plan's are added; *)
(* publishing the same plan again adds none.                               *)
PublishPlan ==
    /\ "work_plan" \in Confirmed(case) /\ case.status # "cancelled"
    /\ LET plan == case.conf["work_plan"].stamp IN
       /\ plan # case.plan => case.tasks = {}
       /\ case' = [case EXCEPT !.plan = plan, !.tasks =
                       IF plan = case.plan THEN case.tasks ELSE {plan}]
    /\ Saved
    /\ UNCHANGED <<jobs, kernelVars, mem, projected, bounds>>

CloseTasks ==
    /\ case.tasks # {}
    /\ case' = [case EXCEPT !.tasks = {}]
    /\ UNCHANGED <<jobs, kernelVars, mem, upload, projected, bounds>>

-----------------------------------------------------------------------------
(* flush(): the outbox.  Every command ends with one, the observer and     *)
(* `sync` call it again and again, and a process that dies leaves it out.  *)

Sleep(p) == mem' = [mem EXCEPT ![p] = Asleep]

(* A flush that would find nothing to do is left out.                      *)
Undelivered(j) ==
    /\ ~jobs[j].applied
    /\ \/ ~jobs[j].known
       \/ jobs[j].stop # "none" /\ runs[j].status \notin Kernel!Finished
       \/ jobs[j].review # NoReview /\ runs[j].review = "pending"
                                   /\ ~runs[j].late

(* _flush_job() acts on the record flush() has read: it cancels, delivers  *)
(* the review or submits.  A recorded review never changes, so that it can *)
(* be looked up when it is delivered.                                      *)
ScanJob(p, j) ==
    /\ mem[p].at = "idle" /\ Undelivered(j)
    /\ mem' = [mem EXCEPT ![p] =
                   [Asleep EXCEPT
                       !.job = j,
                       !.at = IF jobs[j].stop # "none" /\ jobs[j].known
                              THEN "cancel"
                              ELSE IF jobs[j].known THEN "approve"
                              ELSE "submit"]]
    /\ UNCHANGED <<case, jobs, kernelVars, upload, projected, bounds>>

(* The kernel is asked for what it may refuse.                             *)
Told(j, next) ==
    IF next = {} THEN UNCHANGED runs
    ELSE \E x \in next : runs' = [runs EXCEPT ![j] = x]

FlushStop(p) ==
    /\ mem[p].at = "cancel"
    /\ Told(mem[p].job, IF runs[mem[p].job] = Spent THEN {}
                        ELSE Kernel!Cancelled(runs[mem[p].job]))
    /\ Sleep(p)
    /\ UNCHANGED <<case, jobs, upload, projected, reconciles, bounds>>

(* Mutant: whatever was decided, the output is approved.                   *)
DecisionAlways(review) == "approved"

DecisionOf(review) == IF review.accept THEN "approved" ELSE "rejected"

(* _flush_review(): the recorded review becomes the kernel's approval.  A  *)
(* late or a different decision raises and stays as the job's error.       *)
FlushReview(p) ==
    LET j == mem[p].job
        review == jobs[j].review
    IN
    /\ mem[p].at = "approve"
    /\ Told(j, Kernel!Reviewed(runs[j], DecisionOf(review), review.effective))
    /\ Sleep(p)
    /\ UNCHANGED <<case, jobs, upload, projected, reconciles, bounds>>

(* The run is submitted under the job's id, so that it is created once ... *)
FlushSubmit(p) ==
    LET j == mem[p].job IN
    /\ mem[p].at = "submit"
    /\ runs' = IF runs[j] # NoRun THEN runs
               ELSE [runs EXCEPT ![j] =
                        Kernel!Submitted(jobs[j].agent # "observation")]
    /\ mem' = [mem EXCEPT ![p].at = "record"]
    /\ UNCHANGED <<case, jobs, upload, projected, reconciles, bounds>>

(* ... and its id noted by a transaction of its own.                       *)
FlushRecord(p) ==
    /\ mem[p].at = "record"
    /\ jobs' = [jobs EXCEPT ![mem[p].job].known = TRUE]
    /\ Sleep(p)
    /\ UNCHANGED <<case, kernelVars, upload, projected, bounds>>

-----------------------------------------------------------------------------
(* advance(): what a run ended with enters the case once.                  *)

Over == {"succeeded", "failed", "cancelled", "uncertain"}

(* The run is read before the transaction, by drain() or by `sync`.  The   *)
(* output of a run that succeeded never changes.                           *)
ReadRun(p, j) ==
    /\ mem[p].at = "idle" /\ runs[j].status \in Over /\ ~jobs[j].applied
    /\ mem' = [mem EXCEPT ![p] =
                   [at |-> "project", job |-> j,
                    won |-> runs[j].status = "succeeded"]]
    /\ UNCHANGED <<case, jobs, kernelVars, upload, projected, bounds>>

(* Mutant: neither applied nor active_job is looked at.                    *)
ProjectableAgain(j) == TRUE

Projectable(j) ==
    /\ ~jobs[j].applied
    /\ jobs[j].agent # "observation" => case.active = j

(* What raises: the transaction rolls back and the case stays as it is.    *)
ProjectRaises(j) ==
    LET review == jobs[j].review IN
    /\ jobs[j].agent # "observation"
    /\ jobs[j].stop = "none"
    /\ \/ review = NoReview
       \/ /\ review.selected # "none"
          /\ review.action \notin {"skip", "return", "manual"}
          /\ ~CanDispatch(case, review.selected)
       \/ /\ jobs[j].agent = "main" /\ review.selected = "none"
          /\ review.action = "approve" /\ review.original.act = "finish"
          /\ ~CanFinish(case)

Ended(status) == [case EXCEPT !.active = NoJob, !.status = status]

(* Nothing looks at the review or the run of an applied job again: both    *)
(* are left out, and what the kernel still does to the run with them.      *)
Applied(j) == [jobs EXCEPT ![j].applied = TRUE, ![j].known = TRUE,
                           ![j].review = NoReview]
Retired(j) == [runs EXCEPT ![j] = Spent]
Tallied(j) == [projected EXCEPT ![j] = @ + 1]

Rests(j, c) ==
    /\ case' = c
    /\ jobs' = Applied(j) /\ projected' = Tallied(j)
    /\ runs' = Retired(j)

(* What the reviewed proposal of the main agent leads to.                  *)
ProjectMain(j, review) ==
    \/ /\ review.action = "skip"
       /\ EnqueueMain(Ended(case.status), Applied(j), Retired(j), Tallied(j))
    \/ review.action = "return" /\ Rests(j, Ended("needs_input"))
    \/ review.action = "manual" /\ Rests(j, Ended("needs_human"))
    \/ /\ review.action \in {"approve", "modify", "retry"}
       /\ \/ /\ review.selected # "none"
             /\ Enqueued(review.selected, Ended(case.status), Applied(j),
                         Retired(j), Tallied(j))
          \/ /\ review.selected = "none"
             /\ CASE review.original.act = "finish" ->
                       Enqueued("observation", Ended("completed"), Applied(j),
                                Retired(j), Tallied(j))
                  [] review.original.act = "request_input" ->
                       Rests(j, Ended("needs_input"))
                  [] OTHER -> Rests(j, Ended("needs_human"))

(* The output the kernel committed is stored, whatever the review says;    *)
(* `vouched` remembers whether it is what the reviewer let through.        *)
ProjectResult(j, output) ==
    LET job == jobs[j] IN
    IF output.act = "completed"
    THEN EnqueueMain(Stored(Ended(case.status), job.agent, output.of, j,
                            job.snapshot, job.ev,
                            job.stop = "none" /\ job.review.accept
                                /\ job.review.effective = output),
                     Applied(j), Retired(j), Tallied(j))
    ELSE Rests(j, Ended(output.act))

Project(p) ==
    LET j == mem[p].job
        stop == jobs[j].stop
    IN
    /\ mem[p].at = "project" /\ Projectable(j)
    /\ ~(mem[p].won /\ ProjectRaises(j))
    /\ IF jobs[j].agent = "observation" THEN Rests(j, case) /\ UNCHANGED upload
       ELSE /\ Saved
            /\ IF stop # "none"
               THEN Rests(j, Ended(IF stop = "cancel" THEN "cancelled"
                                   ELSE "needs_input"))
               ELSE IF ~mem[p].won THEN Rests(j, Ended("needs_human"))
               ELSE IF jobs[j].agent = "main"
               THEN ProjectMain(j, jobs[j].review)
               ELSE ProjectResult(j, runs[j].value)
    /\ Sleep(p)
    /\ UNCHANGED <<reconciles, bounds>>

ProjectNothing(p) ==
    LET j == mem[p].job IN
    /\ mem[p].at = "project"
    /\ ~Projectable(j) \/ (mem[p].won /\ ProjectRaises(j))
    /\ Sleep(p)
    /\ UNCHANGED <<case, jobs, kernelVars, upload, projected, bounds>>

Die(p) ==
    /\ mem[p].at # "idle" /\ deaths < MaxDeaths
    /\ Sleep(p)
    /\ deaths' = deaths + 1
    /\ UNCHANGED <<case, jobs, kernelVars, upload, projected>>
    /\ UNCHANGED <<manuals, archives>>

-----------------------------------------------------------------------------
(* The kernel                                                              *)

(* require_job() and, for the agents that see images, _can_dispatch(): a   *)
(* run whose job is over or out of date calls no model and fails.          *)
RequireJob(j) ==
    LET agent == jobs[j].agent IN
    /\ jobs[j].stop = "none"
    /\ agent # "observation" =>
          case.active = j /\ jobs[j].ev = case.ev
    /\ agent \in {"issues", "rectification"} => CanDispatch(case, agent)

Begun(j) ==
    LET called == UNION {Kernel!Called(x) : x \in Kernel!Started(runs[j])} IN
    IF RequireJob(j) THEN called
    ELSE UNION {Kernel!Broken(x) : x \in called}

(* How the execution of a run goes on to its end.  None of these steps     *)
(* reads the case, and they are taken together.                            *)
Concluded(agent, x) ==
    LET returned == {x} \cup Kernel!Broken(x)
                    \cup (UNION {Kernel!Returned(x, v) :
                                     v \in OutputsOf(agent)})
        asked == returned
                 \cup (UNION {Kernel!ReviewRequested(y) : y \in returned})
        saved == asked \cup (UNION {Kernel!Committed(y) : y \in asked})
    IN UNION {Kernel!Ended(y) : y \in saved}

Resumed(j) ==
    UNION {Concluded(jobs[j].agent, x) : x \in
              {y \in Kernel!Started(runs[j]) : y.step # "new"}}

KernelStep(j) ==
    /\ runs[j] \notin {NoRun, Spent}
    /\ \E x \in Begun(j) \cup Resumed(j)
                \cup Concluded(jobs[j].agent, runs[j]) :
          runs' = [runs EXCEPT ![j] = x]
    /\ UNCHANGED <<case, jobs, mem, upload, projected, reconciles, bounds>>

(* Worker crashes, an operator's cancel and deadlines.                     *)
Disturb(j) ==
    /\ Disturbed /\ runs[j] \notin {NoRun, Spent}
    /\ \E x \in Kernel!Crashed(runs[j]) \cup Kernel!Cancelled(runs[j])
                \cup Kernel!Expired(runs[j]) :
          runs' = [runs EXCEPT ![j] = x]
    /\ UNCHANGED <<case, jobs, mem, upload, projected, reconciles, bounds>>

Reconcile(j) ==
    /\ runs[j] \notin {NoRun, Spent} /\ reconciles < MaxReconciles
    /\ \E x \in Kernel!RetryGranted(runs[j])
                \cup (UNION {Kernel!OutputConfirmed(runs[j], v) :
                                 v \in OutputsOf(jobs[j].agent)}) :
          runs' = [runs EXCEPT ![j] = x]
    /\ reconciles' = reconciles + 1
    /\ UNCHANGED <<case, jobs, mem, upload, projected, bounds>>

(* POST /agent-runs/{run}/approvals/{approval}: past the inspection.       *)
NativeDecide(j) ==
    /\ Native /\ runs[j] \notin {NoRun, Spent}
    /\ \E decision \in {"approved", "rejected"},
          v \in OutputsOf(jobs[j].agent) :
          \E x \in Kernel!Reviewed(runs[j], decision, v) :
             runs' = [runs EXCEPT ![j] = x]
    /\ UNCHANGED <<case, jobs, mem, upload, projected, reconciles, bounds>>

-----------------------------------------------------------------------------
(* The specification                                                       *)

Command ==
    \/ Start \/ Amend \/ FinishUpload \/ UploadRefused \/ Archive
    \/ PublishPlan \/ CloseTasks
    \/ \E kind \in {"before", "context"} : BeginUpload(kind, NoValue)
    \/ \E issue \in KnownIssues(case) : BeginUpload("after", issue)
    \/ \E key \in Keys, value \in Findings : ManualResult(key, value)
    \/ \E action \in {"return", "cancel"} : Stop(action)
    \/ \E j \in JobIds :
          \/ \E action \in {"approve", "modify", "retry", "skip", "return",
                            "manual"} : Dispatch(j, action)
          \/ \E accept \in BOOLEAN, edited \in Results :
                ReviewResult(j, accept, edited)

Flush(p) == FlushStop(p) \/ FlushReview(p) \/ FlushSubmit(p) \/ FlushRecord(p)

Next ==
    \/ Command
    \/ \E p \in Procs :
          \/ Flush(p) \/ Project(p) \/ ProjectNothing(p) \/ Die(p)
          \/ \E j \in JobIds : ScanJob(p, j) \/ ReadRun(p, j)
    \/ \E j \in JobIds : \/ KernelStep(j) \/ Disturb(j)
                         \/ Reconcile(j) \/ NativeDecide(j)

Spec == Init /\ [][Next]_vars

(* Some observer's loop comes round to the job the case waits for, to      *)
(* deliver and to project it; a process goes on unless it dies; and the    *)
(* run settles (EventuallySettled of AgentRun).                            *)
FairSpec ==
    /\ Spec
    /\ SF_vars(\E p \in Procs, j \in JobIds : j = case.active /\ ScanJob(p, j))
    /\ SF_vars(\E p \in Procs, j \in JobIds : j = case.active /\ ReadRun(p, j))
    /\ \A p \in Procs : WF_vars(Flush(p) \/ Project(p) \/ ProjectNothing(p))
    /\ []<>(case.active # NoJob =>
                \/ runs[case.active] = NoRun
                \/ runs[case.active].status \in Over)

-----------------------------------------------------------------------------
(* Properties                                                              *)

(* The job a case waits for was dispatched for the evidence and the        *)
(* conclusions the case holds now, and its outcome is still awaited.       *)
ActiveJobIsCurrent ==
    LET job == jobs[case.active] IN
    case.active # NoJob =>
        ~job.applied /\ job.ev = case.ev /\ job.snapshot = Stamped(case)

(* Every conclusion the case holds was drawn from the conclusions it still *)
(* holds and from the evidence it still has, and the archive and the plan  *)
(* it names are those of the report and the work plan it holds.            *)
ConclusionsAreCurrent ==
    LET Stands(key, sources) ==
            key \in Confirmed(case) =>
                \A u \in sources \cap Keys :
                    case.conf[key].basis[u] = case.conf[u].stamp
        Analyses == {"issues", "rectification", "history_analysis", "coverage"}
    IN
    /\ Stands("rectification", {"issues"})
    /\ Stands("report", Analyses)
    /\ Stands("work_plan", Analyses \cup {"report"})
    /\ \A key \in Confirmed(case)
                    \cap {"rectification", "report", "work_plan"} :
          case.conf[key].ev = case.ev
    /\ case.archived > 0 =>
          "report" \in Confirmed(case)
          /\ case.archived = case.conf["report"].stamp
    /\ case.plan > 0 =>
          "work_plan" \in Confirmed(case)
          /\ case.plan = case.conf["work_plan"].stamp

(* A completed inspection holds every required conclusion, its report is   *)
(* archived and its work plan published.                                   *)
CompletedIsComplete ==
    case.status = "completed" =>
        /\ case.active = NoJob
        /\ Required \subseteq Confirmed(case)
        /\ "report" \in Required => case.archived > 0
        /\ "work_plan" \in Required => case.plan > 0

(* What a reviewer has decided remains possible until it is carried out:   *)
(* the projection never runs into its own conflicts, which would leave the *)
(* case active for ever.                                                   *)
ReviewStaysApplicable ==
    \A j \in JobIds :
        case.active = j /\ jobs[j].review # NoReview => ~ProjectRaises(j)

(* The outcome of a job enters the case at most once, however many         *)
(* processes project it and however often its run ends.                    *)
ProjectedOnce == \A j \in JobIds : projected[j] <= 1

(* A conclusion a job contributed is the value a reviewer of the           *)
(* inspection confirmed, and no job that was stopped contributed any.      *)
ConfirmedAsReviewed ==
    \A key \in Confirmed(case) :
        case.conf[key].by # NoJob => case.conf[key].vouched

(* After-evidence is filed under an issue of the confirmation that was     *)
(* current when it was filed, although the image is embedded in between.   *)
EvidenceFiledCurrent ==
    [][\A pair \in case'.after \ case.after :
          /\ pair[1] \in KnownIssues(case)
          /\ pair[2] = case.conf["issues"].stamp]_vars

(* A closed inspection is never opened again by a late run, review or      *)
(* upload.                                                                 *)
ClosedStays ==
    [][case.status \in Closed => case'.status = case.status]_vars

(* The inspection does not wait for its agents for ever: again and again   *)
(* it is with people.                                                      *)
CaseSettles == []<>(case.active = NoJob)

=============================================================================
