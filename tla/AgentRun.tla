------------------------------ MODULE AgentRun ------------------------------
(***************************************************************************)
(* One durable run of the agent kernel: a sequence of steps that worker    *)
(* processes execute under a lease kept in a shared SQLite database.       *)
(*                                                                         *)
(* Source: app/harness/kernel/application/runtime.py (Runtime) and         *)
(* worker.py (Worker).  An action is one database transaction or read of   *)
(* the code together with the Python that runs up to the next one: inside  *)
(* a process nothing else happens in between, but the other processes of   *)
(* the host (workers, the API, the command line) may.                      *)
(*                                                                         *)
(* `run`, `inv` and `appr` are database records; `pc`, `cur`, `loc` and    *)
(* `outcome` are the memory of a process and are lost in a crash.          *)
(***************************************************************************)
EXTENDS Integers, FiniteSets

CONSTANTS
    Workers,         \* processes that run worker.py's polling loop
    Clis,            \* processes that call Runtime.execute directly (`resume`)
    Drifted,         \* processes deployed with another definition or policy
    N,               \* number of steps of the registered Sequence
    BeforeGated,     \* steps whose Approval mode is "before"
    AfterGated,      \* steps whose Approval mode is "after"
    DegradeBlocked,  \* steps whose agent has degrade_policy = "block"
    Interruptible,   \* steps whose graph may raise a native interrupt
    Outputs,         \* values a handler may return
    NoOutput,        \* no value
    NoProc,          \* lease_owner None
    RetryAttempts,   \* Retry.attempts of every agent
    MaxInvocations,  \* the run's invocation budget
    Stalls,          \* may a process miss its heartbeats and lose its lease?
    MaxCrashes,      \* bound on process crashes
    MaxReconciles    \* bound on operator reconciliations

Steps == 1..N
Procs == Workers \cup Clis
Kinds == {"before", "after", "tool"}

ASSUME ConstantsAssumption ==
    /\ N \in Nat \ {0}
    /\ RetryAttempts \in Nat \ {0}
    /\ MaxInvocations \in Nat
    /\ MaxCrashes \in Nat
    /\ MaxReconciles \in Nat
    /\ Stalls \in BOOLEAN
    /\ Workers \cap Clis = {}
    /\ NoProc \notin Procs
    /\ NoOutput \notin Outputs
    /\ BeforeGated \subseteq Steps
    /\ AfterGated \subseteq Steps
    /\ DegradeBlocked \subseteq Steps

VARIABLES
    run,        \* the run record
    inv,        \* the invocation record of each step (the ledger)
    appr,       \* the approval record of each step and kind
    pc,         \* where each process is in execute/_walk/_step
    cur,        \* the step each process is at
    loc,        \* the local `record` dict of each process
    outcome,    \* the exception or status each process is unwinding with
    unsettled,  \* ghost: handler executions whose effect nobody has settled
    done,       \* ghost: steps ever saved as succeeded
    crashes, reconciles

db == <<run, inv, appr>>
local == <<pc, cur, loc, outcome>>
ghost == <<unsettled, done>>
vars == <<run, inv, appr, pc, cur, loc, outcome, unsettled, done,
          crashes, reconciles>>

-----------------------------------------------------------------------------
(* Types                                                                   *)

Terminal == {"succeeded", "failed", "cancelled"}
RunStatus == Terminal \cup {"queued", "running", "waiting", "uncertain"}
InvStatus == {"none", "pending", "running", "interrupted", "failed",
              "uncertain", "output_ready", "succeeded"}
Unclear == {"running", "uncertain"}   \* the effect may or may not have happened

Record == [status : InvStatus, attempt : Nat,
           out : Outputs \cup {NoOutput}, degraded : BOOLEAN]
Approval == [state : {"none", "pending", "approved", "rejected"},
             late : BOOLEAN,
             payload : Outputs \cup {NoOutput},
             effective : Outputs \cup {NoOutput}]

NoRecord == [status |-> "none", attempt |-> 0, out |-> NoOutput,
             degraded |-> FALSE]
NoApproval == [state |-> "none", late |-> FALSE, payload |-> NoOutput,
               effective |-> NoOutput]

(* "polled" to "conflict" follow execute() and _step() from top to bottom. *)
Outside == {"idle", "polled", "conflict"}
Inside == {"walk", "read", "before", "create", "review", "start", "enter",
           "handler", "suspend", "paused", "uncertain", "fail", "backoff",
           "output", "after", "commit", "done", "unwind", "final"}

Outcome == {"none", "waiting", "uncertain", "failed", "cancelled",
            "succeeded"}

TypeOK ==
    /\ run \in [status : RunStatus, owner : Procs \cup {NoProc},
                live : BOOLEAN, cancel : BOOLEAN, unclear : BOOLEAN,
                count : Nat]
    /\ inv \in [Steps -> Record]
    /\ appr \in [Steps -> [Kinds -> Approval]]
    /\ pc \in [Procs -> Outside \cup Inside]
    /\ cur \in [Procs -> 1..(N + 1)]
    /\ loc \in [Procs -> Record]
    /\ outcome \in [Procs -> Outcome]
    /\ unsettled \in [Steps -> Nat]
    /\ done \subseteq Steps
    /\ crashes \in Nat
    /\ reconciles \in Nat

(* submit() has stored the run as "queued".                                *)
Init ==
    /\ run = [status |-> "queued", owner |-> NoProc, live |-> FALSE,
              cancel |-> FALSE, unclear |-> FALSE, count |-> 0]
    /\ inv = [s \in Steps |-> NoRecord]
    /\ appr = [s \in Steps |-> [k \in Kinds |-> NoApproval]]
    /\ pc = [p \in Procs |-> "idle"]
    /\ cur = [p \in Procs |-> 1]
    /\ loc = [p \in Procs |-> NoRecord]
    /\ outcome = [p \in Procs |-> "none"]
    /\ unsettled = [s \in Steps |-> 0]
    /\ done = {}
    /\ crashes = 0
    /\ reconciles = 0

-----------------------------------------------------------------------------
(* Helpers                                                                 *)

Executing(p) == pc[p] \in Inside

Goto(p, label) == pc' = [pc EXCEPT ![p] = label]

(* Mutants: the next walk starts at the last step, or from zero.           *)
ForgetAtLast(p) ==
    /\ cur' = [cur EXCEPT ![p] = N]
    /\ loc' = [loc EXCEPT ![p] = NoRecord]
    /\ outcome' = [outcome EXCEPT ![p] = "none"]

ForgetFromZero(p) ==
    /\ cur' = [cur EXCEPT ![p] = 0]
    /\ loc' = [loc EXCEPT ![p] = NoRecord]
    /\ outcome' = [outcome EXCEPT ![p] = "none"]

(* The coroutine is gone, and its memory with it.                          *)
Forget(p) ==
    /\ cur' = [cur EXCEPT ![p] = 1]
    /\ loc' = [loc EXCEPT ![p] = NoRecord]
    /\ outcome' = [outcome EXCEPT ![p] = "none"]

(* An exception leaves _walk: execute() will finalize with this status.    *)
Raise(p, status) ==
    /\ pc' = [pc EXCEPT ![p] = "final"]
    /\ outcome' = [outcome EXCEPT ![p] = status]

(* check_cancel(): what a process may still do for the run.                *)
LeaseLost(p) == run.owner # p \/ ~run.live
Authorised(p) == ~run.cancel /\ ~LeaseLost(p)

(* Cancelled is resolved at the handler of execute(), Uncertain is final.  *)
RaiseUnauthorised(p) ==
    IF run.cancel
    THEN Goto(p, "unwind") /\ UNCHANGED outcome
    ELSE Raise(p, "uncertain")

(* _save_invocation(): written only while the run still names p as owner.  *)
Save(p, record) ==
    /\ run.owner = p
    /\ inv' = [inv EXCEPT ![cur[p]] = record]
    /\ loc' = [loc EXCEPT ![p] = record]

(* Mutant: a record a crash left "running" is not counted.                 *)
HasMarkedEffects == \E s \in Steps : inv[s].status = "uncertain"

HasUnclearEffects == \E s \in Steps : inv[s].status \in Unclear

(* Mutant: a run keeps waiting for a review that has expired.              *)
AwaitsAnyReview ==
    \E s \in Steps, k \in Kinds : appr[s][k].state = "pending"

AwaitsReview ==
    \E s \in Steps, k \in Kinds :
        appr[s][k].state = "pending" /\ ~appr[s][k].late

(* Mutant: no degrade gate.                                                *)
AfterOutputUngated(s, record) == IF s \in AfterGated THEN "after" ELSE "commit"

(* policy.mode = "after", or the degrade gate.                             *)
AfterOutput(s, record) ==
    IF s \in AfterGated \/ (s \in DegradeBlocked /\ record.degraded)
    THEN "after" ELSE "commit"

-----------------------------------------------------------------------------
(* Worker.tick, Runtime.execute up to _walk                                *)

Ready ==
    /\ ~run.live
    /\ \/ run.status \in {"queued", "running"}
       \/ run.status = "waiting" /\ ~AwaitsReview

Poll(p) ==
    /\ p \in Workers /\ pc[p] = "idle"
    /\ Ready
    /\ Goto(p, "polled")
    /\ UNCHANGED <<db, cur, loc, outcome, ghost, crashes, reconciles>>

Resume(p) ==
    /\ p \in Clis /\ pc[p] = "idle"
    /\ Goto(p, "polled")
    /\ UNCHANGED <<db, cur, loc, outcome, ghost, crashes, reconciles>>

(* Only Worker._execute handles the Conflict; a command just reports it.   *)
LeaveWithConflict(p) == Goto(p, IF p \in Workers THEN "conflict" ELSE "idle")

ClaimRefused(p) ==
    /\ pc[p] = "polled"
    /\ \/ run.status \in Terminal /\ Goto(p, "idle")
       \/ /\ run.status \notin Terminal
          /\ run.live \/ p \in Drifted
          /\ LeaveWithConflict(p)
    /\ UNCHANGED <<db, cur, loc, outcome, ghost, crashes, reconciles>>

(* Mutant: the lease of another process is taken over before it expires.   *)
ClaimHeld(p) ==
    /\ pc[p] = "polled"
    /\ run.status \notin Terminal /\ p \notin Drifted
    /\ run' = [run EXCEPT !.status = "running", !.owner = p, !.live = TRUE]
    /\ Goto(p, "walk")
    /\ UNCHANGED <<inv, appr, cur, loc, outcome, ghost, crashes, reconciles>>

Claim(p) ==
    /\ pc[p] = "polled"
    /\ run.status \notin Terminal /\ ~run.live /\ p \notin Drifted
    /\ run' = [run EXCEPT !.status = "running", !.owner = p, !.live = TRUE]
    /\ Goto(p, "walk")
    /\ UNCHANGED <<inv, appr, cur, loc, outcome, ghost, crashes, reconciles>>

(* Worker._execute: the Conflict becomes the run's status unless some      *)
(* worker holds the lease.                                                 *)
MarkConflict(p) ==
    /\ pc[p] = "conflict"
    /\ run' = IF run.live THEN run ELSE [run EXCEPT !.status = "uncertain"]
    /\ Goto(p, "idle")
    /\ UNCHANGED <<inv, appr, cur, loc, outcome, ghost, crashes, reconciles>>

(* _heartbeat: renews the lease of the run while it still names p.         *)
Heartbeat(p) ==
    /\ Executing(p) /\ pc[p] # "final"
    /\ run.owner = p
    /\ run' = [run EXCEPT !.live = TRUE]
    /\ UNCHANGED <<inv, appr, local, ghost, crashes, reconciles>>

-----------------------------------------------------------------------------
(* _approval(): one transaction; every outcome but GateOpens leaves _step  *)

GateRequests(p, k, payload) ==
    /\ appr[cur[p]][k].state = "none"
    /\ appr' = [appr EXCEPT ![cur[p]][k] =
                    [state |-> "pending", late |-> FALSE,
                     payload |-> payload, effective |-> NoOutput]]

GateRefuses(p, k, payload) ==
    LET a == appr[cur[p]][k] IN
    /\ a.state # "none"
    /\ a.payload # payload \/ a.late \/ a.state = "rejected"
    /\ UNCHANGED appr

GateHolds(p, k, payload) ==
    LET a == appr[cur[p]][k] IN
    /\ a.state = "pending" /\ a.payload = payload /\ ~a.late
    /\ UNCHANGED appr

(* Mutants: any review lets the step pass, or any decision does.           *)
GateOpensUndecided(p, k, payload) ==
    LET a == appr[cur[p]][k] IN
    /\ a.state # "none" /\ a.payload = payload /\ ~a.late
    /\ UNCHANGED appr

GateOpensDecided(p, k, payload) ==
    LET a == appr[cur[p]][k] IN
    /\ a.state \in {"approved", "rejected"} /\ a.payload = payload /\ ~a.late
    /\ UNCHANGED appr

GateOpens(p, k, payload) ==
    LET a == appr[cur[p]][k] IN
    /\ a.state = "approved" /\ a.payload = payload /\ ~a.late
    /\ UNCHANGED appr

-----------------------------------------------------------------------------
(* _walk and _step up to the handler                                       *)

Walk(p) ==
    /\ pc[p] = "walk"
    /\ IF Authorised(p)
       THEN Goto(p, "read") /\ UNCHANGED outcome
       ELSE RaiseUnauthorised(p)
    /\ UNCHANGED <<db, cur, loc, ghost, crashes, reconciles>>

(* Mutant: the last step is never walked to.                               *)
NextStepShort(p) ==
    /\ cur' = [cur EXCEPT ![p] = @ + 1]
    /\ Goto(p, IF cur[p] + 1 >= N THEN "done" ELSE "walk")

NextStep(p) ==
    /\ cur' = [cur EXCEPT ![p] = @ + 1]
    /\ Goto(p, IF cur[p] = N THEN "done" ELSE "walk")

(* What _step does with the record it finds; loc is its copy of it.        *)
ReadRecord(p) ==
    LET s == cur[p]
        found == inv[s].status
        Proceed(label) == Goto(p, label) /\ UNCHANGED <<cur, outcome>>
    IN
    /\ pc[p] = "read"
    /\ loc' = [loc EXCEPT ![p] = inv[s]]
    /\ \/ found = "succeeded" /\ NextStep(p) /\ UNCHANGED outcome
       \/ found = "failed" /\ Raise(p, "failed") /\ UNCHANGED cur
       \/ found \in Unclear /\ Raise(p, "uncertain") /\ UNCHANGED cur
       \/ /\ found = "none"
          /\ Proceed(IF s \in BeforeGated THEN "before" ELSE "create")
       \/ found = "pending" /\ Proceed("start")
       \/ found = "interrupted" /\ Proceed("review")
       \/ found = "output_ready" /\ Proceed(AfterOutput(s, inv[s]))
    /\ UNCHANGED <<db, ghost, crashes, reconciles>>

BeforeGate(p) ==
    /\ pc[p] = "before"
    /\ \/ GateRequests(p, "before", NoOutput) /\ Raise(p, "waiting")
       \/ GateHolds(p, "before", NoOutput) /\ Raise(p, "waiting")
       \/ GateRefuses(p, "before", NoOutput) /\ Raise(p, "failed")
       \/ /\ GateOpens(p, "before", NoOutput)
          /\ Goto(p, "create") /\ UNCHANGED outcome
    /\ UNCHANGED <<run, inv, cur, loc, ghost, crashes, reconciles>>

(* The transaction looks at the budget only: neither the lease nor the     *)
(* record read before it is looked at again.                               *)
CreateRecord(p) ==
    /\ pc[p] = "create"
    /\ IF run.count >= MaxInvocations
       THEN Raise(p, "failed") /\ UNCHANGED <<run, inv, loc>>
       ELSE /\ run' = [run EXCEPT !.count = @ + 1]
            /\ inv' = [inv EXCEPT ![cur[p]] = [NoRecord EXCEPT
                                                   !.status = "pending"]]
            /\ loc' = [loc EXCEPT ![p] = [NoRecord EXCEPT
                                              !.status = "pending"]]
            /\ Goto(p, "start") /\ UNCHANGED outcome
    /\ UNCHANGED <<appr, cur, ghost, crashes, reconciles>>

(* _interrupt_review of a run resumed at a native interrupt.               *)
ReviewInterrupt(p) ==
    /\ pc[p] = "review"
    /\ \/ GateRequests(p, "tool", NoOutput) /\ Raise(p, "waiting")
       \/ GateHolds(p, "tool", NoOutput) /\ Raise(p, "waiting")
       \/ GateRefuses(p, "tool", NoOutput) /\ Raise(p, "failed")
       \/ /\ GateOpens(p, "tool", NoOutput)
          /\ Goto(p, "start") /\ UNCHANGED outcome
    /\ UNCHANGED <<run, inv, cur, loc, ghost, crashes, reconciles>>

(* Mutant: the record is not marked before the handler is entered.         *)
AttemptedUnmarked(record) == [record EXCEPT !.attempt = @ + 1]

(* A resumed interrupt keeps its attempt, anything else is a new attempt.  *)
Attempted(record) ==
    [record EXCEPT !.status = "running",
                   !.attempt = record.attempt +
                       IF record.status = "interrupted" THEN 0 ELSE 1]

StartAttempt(p) ==
    /\ pc[p] = "start"
    /\ Save(p, Attempted(loc[p]))
    /\ Goto(p, "enter")
    /\ UNCHANGED <<run, appr, cur, outcome, ghost, crashes, reconciles>>

-----------------------------------------------------------------------------
(* The handler                                                             *)

(* The except clauses of the attempt: the local record is marked and saved *)
(* by the next transaction.                                                *)
GiveUp(p, status, save, why) ==
    /\ loc' = [loc EXCEPT ![p].status = status]
    /\ Goto(p, save)
    /\ outcome' = [outcome EXCEPT ![p] = why]

(* Mutant: whatever ends an attempt is recorded as its failure.            *)
UnresolvedFails(p, why) == GiveUp(p, "failed", "uncertain", why)

Unresolved(p, why) == GiveUp(p, "uncertain", "uncertain", why)

LosesAuthority(p) ==
    Unresolved(p, IF run.cancel THEN "cancelled" ELSE "uncertain")

(* check_cancel, acquire() with its check_cancel, then the handler begins: *)
(* from here on its external effect may happen.                            *)
EnterHandler(p) ==
    /\ pc[p] = "enter"
    /\ IF Authorised(p)
       THEN /\ Goto(p, "handler")
            /\ unsettled' = [unsettled EXCEPT ![cur[p]] = @ + 1]
            /\ UNCHANGED <<loc, outcome>>
       ELSE LosesAuthority(p) /\ UNCHANGED unsettled
    /\ UNCHANGED <<db, cur, done, crashes, reconciles>>

HandlerReturns(p) ==
    /\ pc[p] = "handler"
    /\ IF Authorised(p)
       THEN /\ \E o \in Outputs,
                  d \in IF cur[p] \in DegradeBlocked THEN BOOLEAN ELSE {FALSE} :
                  loc' = [loc EXCEPT ![p] = [@ EXCEPT !.status = "output_ready",
                                                      !.out = o,
                                                      !.degraded = d]]
            /\ Goto(p, "output")
            /\ UNCHANGED outcome
       ELSE LosesAuthority(p)
    /\ UNCHANGED <<db, cur, ghost, crashes, reconciles>>

(* An exception of the handler or of its validation, its timeout, or a     *)
(* timeout while it waits for a capacity slot.                             *)
HandlerFails(p) ==
    /\ pc[p] \in {"enter", "handler"}
    /\ GiveUp(p, "failed", "fail", "failed")
    /\ UNCHANGED <<db, cur, ghost, crashes, reconciles>>

(* Waiting without a checkpoint, or Uncertain raised by something nested.  *)
HandlerUnresolved(p) ==
    /\ pc[p] = "handler"
    /\ Unresolved(p, "uncertain")
    /\ UNCHANGED <<db, cur, ghost, crashes, reconciles>>

(* asyncio cancellation: cancel() of this process, a heartbeat that saw    *)
(* the request or lost the lease, or Worker.stop after its grace period.   *)
TaskCancelled(p) ==
    /\ \/ pc[p] \in {"enter", "handler"} /\ Unresolved(p, "cancelled")
       \/ pc[p] = "backoff" /\ Goto(p, "unwind") /\ UNCHANGED <<loc, outcome>>
    /\ UNCHANGED <<db, cur, ghost, crashes, reconciles>>

(* Runtime.interrupt: the graph's checkpoint is durable, so what it did    *)
(* is settled.  One interrupt per step is modelled.                        *)
HandlerInterrupts(p) ==
    LET s == cur[p] IN
    /\ pc[p] = "handler" /\ s \in Interruptible
    /\ appr[s]["tool"].state = "none"
    /\ run.owner = p
    /\ inv' = [inv EXCEPT ![s].status = "interrupted"]
    /\ unsettled' = [unsettled EXCEPT ![s] = 0]
    /\ Goto(p, "suspend")
    /\ UNCHANGED <<run, appr, cur, loc, outcome, done, crashes, reconciles>>

(* ... then the review of the interrupt; a decision found there already    *)
(* returns to the graph, which has nothing to resume and fails.            *)
Suspend(p) ==
    /\ pc[p] = "suspend"
    /\ \/ /\ GateRequests(p, "tool", NoOutput) \/ GateHolds(p, "tool", NoOutput)
          /\ Goto(p, "paused") /\ UNCHANGED <<loc, outcome>>
       \/ /\ GateOpens(p, "tool", NoOutput) \/ GateRefuses(p, "tool", NoOutput)
          /\ GiveUp(p, "failed", "fail", "failed")
    /\ UNCHANGED <<run, inv, cur, ghost, crashes, reconciles>>

Paused(p) ==
    /\ pc[p] = "paused"
    /\ IF inv[cur[p]].status = "interrupted"
       THEN Raise(p, "waiting") /\ UNCHANGED loc
       ELSE Unresolved(p, "uncertain")
    /\ UNCHANGED <<db, cur, ghost, crashes, reconciles>>

-----------------------------------------------------------------------------
(* What the attempt leaves in the ledger                                   *)

SaveUncertain(p) ==
    /\ pc[p] = "uncertain"
    /\ Save(p, loc[p])
    /\ Goto(p, IF outcome[p] = "cancelled" THEN "unwind" ELSE "final")
    /\ UNCHANGED <<run, appr, cur, outcome, ghost, crashes, reconciles>>

(* Mutant: one attempt more than the policy allows.                        *)
SaveFailedOnceMore(p) ==
    /\ pc[p] = "fail"
    /\ Save(p, loc[p])
    /\ unsettled' = [unsettled EXCEPT ![cur[p]] = 0]
    /\ \/ Goto(p, "final")
       \/ loc[p].attempt <= RetryAttempts /\ Goto(p, "backoff")
    /\ UNCHANGED <<run, appr, cur, outcome, done, crashes, reconciles>>

(* The retry policy declares its handlers idempotent: once the failure is  *)
(* recorded another attempt is allowed.                                    *)
SaveFailed(p) ==
    /\ pc[p] = "fail"
    /\ Save(p, loc[p])
    /\ unsettled' = [unsettled EXCEPT ![cur[p]] = 0]
    /\ \/ Goto(p, "final")
       \/ loc[p].attempt < RetryAttempts /\ Goto(p, "backoff")
    /\ UNCHANGED <<run, appr, cur, outcome, done, crashes, reconciles>>

Retry(p) ==
    /\ pc[p] = "backoff"
    /\ Goto(p, "start")
    /\ UNCHANGED <<db, cur, loc, outcome, ghost, crashes, reconciles>>

SaveOutput(p) ==
    /\ pc[p] = "output"
    /\ Save(p, loc[p])
    /\ Goto(p, AfterOutput(cur[p], loc[p]))
    /\ UNCHANGED <<run, appr, cur, outcome, ghost, crashes, reconciles>>

AfterGate(p) ==
    LET a == appr[cur[p]]["after"] IN
    /\ pc[p] = "after"
    /\ \/ /\ GateRequests(p, "after", loc[p].out)
          /\ Raise(p, "waiting") /\ UNCHANGED loc
       \/ /\ GateHolds(p, "after", loc[p].out)
          /\ Raise(p, "waiting") /\ UNCHANGED loc
       \/ /\ GateRefuses(p, "after", loc[p].out)
          /\ Raise(p, "failed") /\ UNCHANGED loc
       \/ /\ GateOpens(p, "after", loc[p].out)
          /\ loc' = [loc EXCEPT ![p].out = a.effective]
          /\ Goto(p, "commit") /\ UNCHANGED outcome
    /\ UNCHANGED <<run, inv, cur, ghost, crashes, reconciles>>

Commit(p) ==
    /\ pc[p] = "commit"
    /\ Save(p, [loc[p] EXCEPT !.status = "succeeded"])
    /\ done' = done \cup {cur[p]}
    /\ NextStep(p)
    /\ UNCHANGED <<run, appr, outcome, unsettled, crashes, reconciles>>

(* _save_invocation of a process that is no longer the owner.              *)
SaveRefused(p) ==
    /\ pc[p] \in {"start", "uncertain", "fail", "output", "commit"}
    /\ run.owner # p
    /\ Raise(p, "uncertain")
    /\ UNCHANGED <<db, cur, loc, ghost, crashes, reconciles>>

-----------------------------------------------------------------------------
(* The end of execute()                                                    *)

WalkDone(p) ==
    /\ pc[p] = "done"
    /\ IF Authorised(p) THEN Raise(p, "succeeded") ELSE RaiseUnauthorised(p)
    /\ UNCHANGED <<db, cur, loc, ghost, crashes, reconciles>>

Unwind(p) ==
    /\ pc[p] = "unwind"
    /\ Raise(p, IF run.cancel THEN "cancelled" ELSE "uncertain")
    /\ UNCHANGED <<db, cur, loc, ghost, crashes, reconciles>>

Finalize(p) ==
    /\ pc[p] = "final"
    /\ IF run.owner = p
       THEN /\ run' = [run EXCEPT !.status = outcome[p], !.owner = NoProc,
                                  !.live = FALSE,
                                  !.unclear = HasUnclearEffects]
            /\ Goto(p, "idle")
       ELSE LeaveWithConflict(p) /\ UNCHANGED run
    /\ Forget(p)
    /\ UNCHANGED <<inv, appr, ghost, crashes, reconciles>>

-----------------------------------------------------------------------------
(* Operators, reviewers, time and failures                                 *)

(* Mutant: a finished run is cancelled too.                                *)
CancelFinished ==
    /\ run' = [run EXCEPT !.cancel = TRUE,
                          !.status = IF @ = "running" THEN @ ELSE "cancelled"]
    /\ UNCHANGED <<inv, appr, local, ghost, crashes, reconciles>>

Cancel ==
    /\ run.status \notin Terminal
    /\ run' = [run EXCEPT !.cancel = TRUE,
                          !.status = IF @ = "running" THEN @ ELSE "cancelled"]
    /\ UNCHANGED <<inv, appr, local, ghost, crashes, reconciles>>

(* approve(): a reviewer may edit what an output review lets through.      *)
Decide(s, k) ==
    /\ appr[s][k].state = "pending" /\ ~appr[s][k].late
    /\ \E verdict \in {"approved", "rejected"},
          value \in IF k = "after" THEN Outputs ELSE {NoOutput} :
          appr' = [appr EXCEPT ![s][k] = [@ EXCEPT !.state = verdict,
                                                   !.effective = value]]
    /\ UNCHANGED <<run, inv, local, ghost, crashes, reconciles>>

(* The ttl passes: expires < time.time(), for a decided approval too.      *)
Expire(s, k) ==
    /\ appr[s][k].state \in {"pending", "approved"}
    /\ appr' = [appr EXCEPT ![s][k] = [@ EXCEPT !.late = TRUE]]
    /\ UNCHANGED <<run, inv, local, ghost, crashes, reconciles>>

(* Mutant: any record can be reconciled.                                   *)
ReconcilableAny(s) ==
    /\ reconciles < MaxReconciles
    /\ inv[s].status # "none"
    /\ ~run.live
    /\ run' = [run EXCEPT !.status = "queued", !.cancel = FALSE]
    /\ reconciles' = reconciles + 1

(* reconcile(): the operator confirms an output or authorises a retry.     *)
Reconcilable(s) ==
    /\ reconciles < MaxReconciles
    /\ inv[s].status \in Unclear \cup {"failed"}
    /\ ~run.live
    /\ run' = [run EXCEPT !.status = "queued", !.cancel = FALSE]
    /\ reconciles' = reconciles + 1

ReconcileRetry(s) ==
    /\ Reconcilable(s)
    /\ inv' = [inv EXCEPT ![s].status = "pending"]
    /\ unsettled' = [unsettled EXCEPT ![s] = 0]
    /\ UNCHANGED <<appr, local, done, crashes>>

ReconcileOutput(s) ==
    /\ Reconcilable(s)
    /\ \E o \in Outputs :
          inv' = [inv EXCEPT ![s] = [@ EXCEPT !.status = "output_ready",
                                              !.out = o]]
    /\ UNCHANGED <<appr, local, ghost, crashes>>

(* lease_until passes.  Unless processes may stall, the heartbeat of a     *)
(* process that executes the run renews it in time.                        *)
LeaseExpires ==
    /\ run.live
    /\ Stalls \/ ~\E p \in Procs : p = run.owner /\ Executing(p)
    /\ run' = [run EXCEPT !.live = FALSE]
    /\ UNCHANGED <<inv, appr, local, ghost, crashes, reconciles>>

(* A process dies and is started again with nothing in memory.             *)
Crash(p) ==
    /\ crashes < MaxCrashes
    /\ pc[p] # "idle"
    /\ Goto(p, "idle")
    /\ Forget(p)
    /\ crashes' = crashes + 1
    /\ UNCHANGED <<db, ghost, reconciles>>

-----------------------------------------------------------------------------
(* The specification                                                       *)

(* What a process does by itself once a scheduler runs it.                 *)
Advance(p) ==
    \/ Poll(p) \/ Claim(p) \/ ClaimRefused(p) \/ MarkConflict(p)
    \/ Walk(p) \/ ReadRecord(p) \/ BeforeGate(p) \/ CreateRecord(p)
    \/ ReviewInterrupt(p) \/ StartAttempt(p) \/ EnterHandler(p)
    \/ HandlerReturns(p) \/ HandlerFails(p) \/ HandlerUnresolved(p)
    \/ HandlerInterrupts(p) \/ Suspend(p) \/ Paused(p)
    \/ SaveUncertain(p) \/ SaveFailed(p) \/ Retry(p) \/ SaveOutput(p)
    \/ AfterGate(p) \/ Commit(p) \/ SaveRefused(p)
    \/ WalkDone(p) \/ Unwind(p) \/ Finalize(p)

Disturb(p) == Resume(p) \/ Heartbeat(p) \/ TaskCancelled(p) \/ Crash(p)

Next ==
    \/ \E p \in Procs : Advance(p) \/ Disturb(p)
    \/ \E s \in Steps, k \in Kinds : Decide(s, k) \/ Expire(s, k)
    \/ \E s \in Steps : ReconcileRetry(s) \/ ReconcileOutput(s)
    \/ Cancel
    \/ LeaseExpires

Spec == Init /\ [][Next]_vars

(* Every process is scheduled (a handler ends by its timeout at the        *)
(* latest) and the clock advances; people and failures owe nothing.        *)
FairSpec ==
    /\ Spec
    /\ \A p \in Procs : WF_vars(Advance(p))
    /\ WF_vars(LeaseExpires)
    /\ \A s \in Steps, k \in Kinds : WF_vars(Expire(s, k))

-----------------------------------------------------------------------------
(* Properties                                                              *)

(* A handler is never entered again while an execution of its step is      *)
(* unaccounted for: every further execution follows a failure recorded in  *)
(* the ledger (the retry policy), a durable interrupt or an operator's     *)
(* retry.  ("uncertain ... must not be assumed failed and repeated")       *)
NoBlindReexecution == \A s \in Steps : unsettled[s] <= 1

(* A step once saved as succeeded stays succeeded in the ledger: resuming  *)
(* after a wait, a crash or a takeover only reads its output.              *)
CommittedStays == \A s \in done : inv[s].status = "succeeded"

(* Whatever a crash interrupts, the ledger shows an effect that may have   *)
(* happened: no such step looks untouched, pending or failed.              *)
EffectsInLedger ==
    \A s \in Steps :
        unsettled[s] > 0 =>
            inv[s].status \in Unclear \cup {"output_ready", "succeeded"}

(* Whoever executes the run holds its unexpired lease, so that two         *)
(* processes never execute it together.                                    *)
ExecutorHoldsLease ==
    \A p \in Procs : Executing(p) => run.owner = p /\ run.live

(* No step is recorded, let alone executed, before all the steps in front  *)
(* of it were saved as succeeded.                                          *)
StepsInOrder ==
    \A s \in Steps :
        inv[s].status # "none" \/ unsettled[s] > 0 => 1..(s - 1) \subseteq done

(* A run reports success only when every step of the sequence succeeded.   *)
SuccessIsComplete == run.status = "succeeded" => done = Steps

(* A step whose policy asks for approval beforehand is neither recorded    *)
(* nor executed unless a reviewer approved it, however often the run is    *)
(* resumed, retried or reconciled.                                         *)
NoUnreviewedEffect ==
    \A s \in BeforeGated :
        inv[s].status # "none" \/ unsettled[s] > 0
            => appr[s]["before"].state = "approved"

(* The output committed for a step that needs review afterwards, by policy *)
(* or because its result is degraded, is the one the reviewer let through. *)
CommitsReviewedOutput ==
    \A s \in done :
        s \in AfterGated \/ (s \in DegradeBlocked /\ inv[s].degraded) =>
            /\ appr[s]["after"].state = "approved"
            /\ inv[s].out = appr[s]["after"].effective

(* A run with a rejected review never succeeds, not even after operators   *)
(* reconcile its steps and queue it again.                                 *)
RejectionIsFinal ==
    (\E s \in Steps, k \in Kinds : appr[s][k].state = "rejected")
        => run.status # "succeeded"

(* Crashes and takeovers do not widen the retry policy: only an operator   *)
(* can grant an attempt beyond it.                                         *)
RetryBudget ==
    \A s \in Steps : inv[s].attempt <= RetryAttempts + reconciles

(* has_uncertain_effects of a finished run does not hide an effect that    *)
(* may have happened.                                                      *)
FlagTellsUnclear ==
    run.status \in Terminal /\ (\E s \in Steps : inv[s].status \in Unclear)
        => run.unclear

(* A finished run changes its status only when an operator queues it again.*)
TerminalStays ==
    [][run.status \in Terminal =>
           run'.status = run.status \/ reconciles' > reconciles]_vars

(* The run never stays queued, running or waiting for ever: it finishes or *)
(* asks an operator to reconcile it.                                       *)
EventuallySettled == []<>(run.status \in Terminal \cup {"uncertain"})

=============================================================================
