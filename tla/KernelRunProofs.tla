-------------------------- MODULE KernelRunProofs --------------------------
(***************************************************************************)
(* A run of one step, reviewed afterwards or not and attempted once,       *)
(* implements the contract of KernelRun, for any workers and commands,     *)
(* crashes, cancellations and reconciliations.                             *)
(*                                                                         *)
(* First the invariant that the mapping needs (PlainInv), then the view as *)
(* a record of its fields (Seen) with the steps the contract offers, and   *)
(* last the step of the contract that each action of the run is.           *)
(***************************************************************************)
EXTENDS MCKernelRun, AgentRunProofs, FiniteSetTheorems

-----------------------------------------------------------------------------
(* What holds of such a run                                                *)

(* One step that is reviewed afterwards, if at all, and attempted once.    *)
Plain == /\ N = 1 /\ BeforeGated = {} /\ Interruptible = {}
         /\ DegradeBlocked \subseteq AfterGated
         /\ RetryAttempts = 1 /\ MaxInvocations > 0

(* The ledger and the reviews of a plain step.                             *)
PlainLedger ==
    LET a == appr[1]["after"] IN
    /\ \A k \in {"before", "tool"} : appr[1][k].state = "none"
    /\ inv[1].status # "interrupted"
    /\ inv[1].status = "none" => inv[1].out = NoOutput /\ run.count = 0
    /\ a.state = "none" => a = NoApproval
    /\ inv[1].status = "output_ready" /\ a.state # "none"
           => a.payload = inv[1].out

(* The status an execution is about to end with is one of Contract!Ends.   *)
Justified(status) ==
    LET a == appr[1]["after"] IN
    /\ status = "waiting" => a.state # "none"
    /\ status = "failed" => \/ inv[1].status \in {"failed", "uncertain"}
                            \/ a.state = "rejected" \/ a.late
    /\ status = "cancelled" => run.cancel
    /\ status = "uncertain" => inv[1].status \in Unclear

(* What a process remembers of the step and may do with it.                *)
PlainAt(p) ==
    /\ pc[p] \notin {"before", "review", "suspend", "paused", "backoff"}
    /\ pc[p] = "start"
           => inv[1].status = "pending" /\ loc[p].status = "pending"
    /\ pc[p] \in {"start", "enter", "handler", "uncertain", "fail", "after"}
           => loc[p].out = inv[1].out
    /\ pc[p] \in {"enter", "handler", "fail"} => loc[p].attempt > 0
    /\ pc[p] = "output" => loc[p].out \in Outputs
    /\ pc[p] = "commit" /\ 1 \notin AfterGated => loc[p].out = inv[1].out
    /\ pc[p] = "unwind" => run.cancel \/ inv[1].status = "uncertain"
    /\ pc[p] = "final" => Justified(outcome[p])

PlainInv == PlainLedger /\ \A p \in Procs : PlainAt(p)

(* What is known when a step is taken.                                     *)
Known == /\ Plain /\ ~Stalls
         /\ TypeInv /\ FenceInv /\ OutputInv /\ PlainInv

LEMMA PlainDomains ==
    Known => /\ DOMAIN pc = Procs /\ DOMAIN cur = Procs /\ DOMAIN loc = Procs
             /\ DOMAIN outcome = Procs
             /\ Steps = {1} /\ DOMAIN inv = {1} /\ DOMAIN appr = {1}
             /\ DOMAIN appr[1] = Kinds
             /\ DOMAIN inv[1] = DOMAIN NoRecord
             /\ \A k \in Kinds : DOMAIN appr[1][k] = DOMAIN NoApproval
             /\ \A p \in Procs : DOMAIN loc[p] = DOMAIN NoRecord
             /\ DOMAIN run = {"status", "owner", "live", "cancel", "unclear",
                              "count"}
    BY DEF Known, TypeInv, PlaceType, RunType, LedgerType, ReviewType,
       CopyType, Plain, Steps, Record, Approval, NoRecord, NoApproval

(* What a process that executes the run knows of it.                       *)
LEMMA Here ==
    ASSUME Known, NEW p \in Procs, pc[p] \in Inside
    PROVE  /\ run.owner = p /\ run.live
           /\ Authorised(p) <=> ~run.cancel
           /\ \A q \in Procs : q # p => pc[q] \notin Inside
           /\ pc[p] \notin Leaving => cur[p] = 1
           /\ Fits(pc[p], outcome[p])
           /\ LedgerAt(p) /\ CopyAt(p) /\ OutputAt(p) /\ PlainAt(p)
           /\ PlainLedger
           /\ appr[1]["after"].state # "none"
                  => inv[1].status \in {"output_ready", "succeeded"}
           /\ Plain /\ run.count \in Nat /\ loc[p].attempt \in Nat
<1>3. appr[1]["after"].state # "none"
          => inv[1].status \in {"output_ready", "succeeded"}
    BY PlainDomains DEF Known, OutputInv, ReviewedOnlyIfNeeded
<1>4. run.count \in Nat /\ loc[p].attempt \in Nat
    BY DEF Known, TypeInv, RunType, CopyType, Record
<1>1. /\ run.owner = p /\ run.live
      /\ \A q \in Procs : q # p => pc[q] \notin Inside
    BY DEF Known, FenceInv, ExecutorHoldsLease, Executing
<1>2. /\ pc[p] \notin Leaving => cur[p] = 1
      /\ Fits(pc[p], outcome[p])
    BY PlainDomains DEF Known, TypeInv, PlaceType
<1> QED
    BY <1>1, <1>2, <1>3, <1>4
    DEF Known, Authorised, LeaseLost, FenceInv, OutputInv, PlainInv

(* A step of the process that executes the run concerns nobody else.       *)
LEMMA PlainMove ==
    ASSUME Known, NEW p \in Procs, pc[p] \in Inside,
           \E label : pc' = [pc EXCEPT ![p] = label],
           PlainLedger', PlainAt(p)'
    PROVE  PlainInv'
<1>1. ASSUME NEW q \in Procs, q # p PROVE pc'[q] \notin Inside
    BY <1>1, Here, PlainDomains
<1>2. \A q \in Procs : q # p => PlainAt(q)'
    BY <1>1 DEF PlainAt, Inside
<1> QED
    BY <1>2 DEF PlainInv

(* A step that leaves the ledger and the reviews alone.                    *)
LEMMA PlainAside ==
    ASSUME Known, UNCHANGED <<inv, appr>>,
           run'.count = run.count, run.cancel => run'.cancel,
           \A q \in Procs : \/ pc'[q] \in Outside \cup {"walk"}
                            \/ /\ pc'[q] = pc[q] /\ loc'[q] = loc[q]
                               /\ outcome'[q] = outcome[q]
    PROVE  PlainInv'
<1>1. PlainLedger'
    BY DEF Known, PlainInv, PlainLedger
<1>2. ASSUME NEW q \in Procs PROVE PlainAt(q)'
    <2>1. CASE pc'[q] \in Outside \cup {"walk"}
        BY <2>1 DEF PlainAt, Outside
    <2>2. CASE pc'[q] = pc[q] /\ loc'[q] = loc[q] /\ outcome'[q] = outcome[q]
        <3>1. PlainAt(q)
            BY DEF Known, PlainInv
        <3>2. Justified(outcome[q]) => Justified(outcome[q])'
            BY <2>2 DEF Justified
        <3> QED
            BY <2>2, <3>1, <3>2 DEF PlainAt
    <2> QED
        BY <2>1, <2>2
<1> QED
    BY <1>1, <1>2 DEF PlainInv

(* An attempt ends without an output.                                      *)
LEMMA PlainGaveUp ==
    ASSUME Known, NEW p \in Procs, pc[p] \in {"enter", "handler"},
           NEW status, NEW save \in {"uncertain", "fail"}, NEW why,
           GiveUp(p, status, save, why), UNCHANGED <<run, inv, appr>>
    PROVE  PlainInv'
<1>1. pc[p] \in Inside /\ pc' = [pc EXCEPT ![p] = save]
    BY DEF GiveUp, Goto, Inside
<1>2. pc'[p] = save /\ loc'[p].out = loc[p].out
      /\ loc'[p].attempt = loc[p].attempt
    BY PlainDomains DEF GiveUp, Goto, NoRecord
<1>3. PlainLedger' /\ PlainAt(p)'
    BY <1>1, <1>2, Here DEF PlainLedger, PlainAt
<1> QED
    BY <1>1, <1>3, PlainMove

LEMMA PlainStep == Known /\ [Next]_vars => PlainInv'
<1> SUFFICES ASSUME Known, [Next]_vars PROVE PlainInv'
    OBVIOUS
<1>d. /\ DOMAIN pc = Procs /\ DOMAIN cur = Procs /\ DOMAIN loc = Procs
      /\ DOMAIN outcome = Procs
      /\ Steps = {1} /\ DOMAIN inv = {1} /\ DOMAIN appr = {1}
      /\ DOMAIN appr[1] = Kinds
      /\ DOMAIN inv[1] = DOMAIN NoRecord
      /\ \A k \in Kinds : DOMAIN appr[1][k] = DOMAIN NoApproval
      /\ \A p \in Procs : DOMAIN loc[p] = DOMAIN NoRecord
      /\ DOMAIN run = {"status", "owner", "live", "cancel", "unclear", "count"}
    BY PlainDomains
<1>1. ASSUME NEW p \in Procs, Poll(p) PROVE PlainInv'
    BY <1>1, <1>d, PlainAside DEF Poll, Goto, db, local, Outside
<1>2. ASSUME NEW p \in Procs, Claim(p) PROVE PlainInv'
    BY <1>2, <1>d, PlainAside DEF Claim, Goto, db, local, Outside
<1>3. ASSUME NEW p \in Procs, ClaimRefused(p) PROVE PlainInv'
    BY <1>3, <1>d, PlainAside DEF ClaimRefused, LeaveWithConflict, Goto, db,
       local, Outside
<1>4. ASSUME NEW p \in Procs, MarkConflict(p) PROVE PlainInv'
    BY <1>4, <1>d, PlainAside DEF MarkConflict, Goto, db, local, Outside
<1>5. ASSUME NEW p \in Procs, Finalize(p) PROVE PlainInv'
    BY <1>5, <1>d, PlainAside DEF Finalize, Forget, LeaveWithConflict, Goto,
       db, local, Outside
<1>6. ASSUME NEW p \in Procs, Resume(p) PROVE PlainInv'
    BY <1>6, <1>d, PlainAside DEF Resume, Goto, db, local, Outside
<1>7. ASSUME NEW p \in Procs, Heartbeat(p) PROVE PlainInv'
    BY <1>7, <1>d, PlainAside DEF Heartbeat, db, local, Outside
<1>8. ASSUME NEW p \in Procs, Crash(p) PROVE PlainInv'
    BY <1>8, <1>d, PlainAside DEF Crash, Forget, Goto, db, local, Outside
<1>9. ASSUME Cancel PROVE PlainInv'
    BY <1>9, <1>d, PlainAside DEF Cancel, local
<1>10. ASSUME LeaseExpires PROVE PlainInv'
    BY <1>10, <1>d, PlainAside DEF LeaseExpires, local
<1>11. CASE UNCHANGED vars
    BY <1>11, PlainAside DEF vars
<1>12. ASSUME NEW p \in Procs, Walk(p) PROVE PlainInv'
    <2>1. pc[p] \in Inside /\ \E label : pc' = [pc EXCEPT ![p] = label]
        BY <1>12 DEF Walk, RaiseUnauthorised, Raise, Goto, Inside
    <2>2. PlainLedger' /\ PlainAt(p)'
        BY <1>12, <1>d, <2>1, Here DEF Walk, RaiseUnauthorised, Raise, Goto,
           PlainLedger, PlainAt, Justified, LedgerAt, CopyAt, OutputAt,
           Leaving, Unclear, Fits, Plain, db, local
    <2> QED
        BY <2>1, <2>2, PlainMove
<1>13. ASSUME NEW p \in Procs, ReadRecord(p) PROVE PlainInv'
    <2>1. pc[p] \in Inside /\ \E label : pc' = [pc EXCEPT ![p] = label]
        BY <1>13 DEF ReadRecord, NextStep, AfterOutput, Raise, Goto, Inside
    <2>2. PlainLedger' /\ PlainAt(p)'
        BY <1>13, <1>d, <2>1, Here DEF ReadRecord, NextStep, AfterOutput,
           Raise, Goto, PlainLedger, PlainAt, Justified, LedgerAt, CopyAt,
           OutputAt, Leaving, Unclear, Fits, Plain, db, local
    <2> QED
        BY <2>1, <2>2, PlainMove
<1>14. ASSUME NEW p \in Procs, CreateRecord(p) PROVE PlainInv'
    <2>1. pc[p] = "create"
        BY <1>14 DEF CreateRecord
    <2>2. cur[p] = 1 /\ inv[1].status = "none" /\ PlainLedger /\ Plain
          /\ appr[1]["after"].state = "none"
        BY <2>1, Here DEF Inside, Leaving, LedgerAt
    <2>3. ~(run.count >= MaxInvocations)
        BY <2>2, ConstantsAssumption DEF PlainLedger, Plain
    <2>4. pc' = [pc EXCEPT ![p] = "start"] /\ UNCHANGED appr
        BY <1>14, <2>3 DEF CreateRecord, Goto
    <2>5. inv'[1].status = "pending" /\ inv'[1].out = loc'[p].out
          /\ loc'[p].status = "pending"
        BY <1>14, <1>d, <2>2, <2>3 DEF CreateRecord, NoRecord
    <2>6. PlainLedger' /\ PlainAt(p)'
        BY <1>d, <2>2, <2>4, <2>5 DEF PlainLedger, PlainAt
    <2> QED
        BY <2>1, <2>4, <2>6, PlainMove DEF Inside
<1>15. ASSUME NEW p \in Procs, StartAttempt(p) PROVE PlainInv'
    <2>1. pc[p] = "start" /\ pc' = [pc EXCEPT ![p] = "enter"]
          /\ UNCHANGED <<run, appr>>
        BY <1>15 DEF StartAttempt, Goto
    <2>2. cur[p] = 1 /\ loc[p].attempt \in Nat /\ loc[p].out = inv[1].out
          /\ PlainLedger /\ appr[1]["after"].state = "none"
          /\ loc[p].status = "pending"
        BY <2>1, Here DEF Inside, Leaving, PlainAt, LedgerAt
    <2>3. Attempted(loc[p]).status = "running"
          /\ Attempted(loc[p]).out = loc[p].out
          /\ Attempted(loc[p]).attempt > 0
        BY <1>d, <2>2 DEF Attempted, NoRecord
    <2>4. inv'[1] = Attempted(loc[p]) /\ loc'[p] = Attempted(loc[p])
        BY <1>15, <1>d, <2>2 DEF StartAttempt, Save
    <2>5. PlainLedger' /\ PlainAt(p)'
        BY <1>d, <2>1, <2>2, <2>3, <2>4 DEF PlainLedger, PlainAt
    <2> QED
        BY <2>1, <2>5, PlainMove DEF Inside
<1>16. ASSUME NEW p \in Procs, EnterHandler(p) PROVE PlainInv'
    <2>1. CASE Authorised(p)
        BY <1>16, <2>1, <1>d, PlainMove, Here
        DEF EnterHandler, Goto, PlainLedger, PlainAt, Inside, db
    <2>2. CASE ~Authorised(p)
        BY <1>16, <2>2, PlainGaveUp
        DEF EnterHandler, LosesAuthority, Unresolved, db
    <2> QED
        BY <2>1, <2>2
<1>17. ASSUME NEW p \in Procs, HandlerReturns(p) PROVE PlainInv'
    <2>1. CASE Authorised(p)
        <3>1. PICK x \in Outputs, d \in BOOLEAN : loc' = [loc EXCEPT ![p] =
                  [loc[p] EXCEPT !.status = "output_ready", !.out = x,
                                 !.degraded = d]]
            BY <1>17, <2>1 DEF HandlerReturns
        <3>2. pc[p] = "handler" /\ pc' = [pc EXCEPT ![p] = "output"]
              /\ UNCHANGED <<run, inv, appr>>
            BY <1>17, <2>1 DEF HandlerReturns, Goto, db
        <3>3. pc'[p] = "output" /\ loc'[p].out \in Outputs
            BY <1>d, <3>1, <3>2 DEF NoRecord
        <3>4. PlainLedger' /\ PlainAt(p)'
            BY <3>2, <3>3 DEF Known, PlainInv, PlainLedger, PlainAt
        <3> QED
            BY <3>2, <3>4, PlainMove DEF Inside
    <2>2. CASE ~Authorised(p)
        BY <1>17, <2>2, PlainGaveUp
        DEF HandlerReturns, LosesAuthority, Unresolved, db
    <2> QED
        BY <2>1, <2>2
<1>18. ASSUME NEW p \in Procs, HandlerFails(p) PROVE PlainInv'
    <2>1. pc[p] \in Inside /\ \E label : pc' = [pc EXCEPT ![p] = label]
        BY <1>18 DEF HandlerFails, GiveUp, Goto, Inside
    <2>2. PlainLedger' /\ PlainAt(p)'
        BY <1>18, <1>d, <2>1, Here DEF HandlerFails, GiveUp, Goto,
           PlainLedger, PlainAt, Justified, LedgerAt, CopyAt, OutputAt,
           Leaving, Unclear, Fits, Plain, db, local
    <2> QED
        BY <2>1, <2>2, PlainMove
<1>19. ASSUME NEW p \in Procs, HandlerUnresolved(p) PROVE PlainInv'
    <2>1. pc[p] \in Inside /\ \E label : pc' = [pc EXCEPT ![p] = label]
        BY <1>19 DEF HandlerUnresolved, Unresolved, GiveUp, Goto, Inside
    <2>2. PlainLedger' /\ PlainAt(p)'
        BY <1>19, <1>d, <2>1, Here DEF HandlerUnresolved, Unresolved, GiveUp,
           Goto, PlainLedger, PlainAt, Justified, LedgerAt, CopyAt, OutputAt,
           Leaving, Unclear, Fits, Plain, db, local
    <2> QED
        BY <2>1, <2>2, PlainMove
<1>20. ASSUME NEW p \in Procs, SaveUncertain(p) PROVE PlainInv'
    <2>1. pc[p] \in Inside /\ \E label : pc' = [pc EXCEPT ![p] = label]
        BY <1>20 DEF SaveUncertain, Save, Goto, Inside
    <2>2. PlainLedger' /\ PlainAt(p)'
        BY <1>20, <1>d, <2>1, Here DEF SaveUncertain, Save, Goto, PlainLedger,
           PlainAt, Justified, LedgerAt, CopyAt, OutputAt, Leaving, Unclear,
           Fits, Plain, db, local
    <2> QED
        BY <2>1, <2>2, PlainMove
<1>21. ASSUME NEW p \in Procs, SaveFailed(p) PROVE PlainInv'
    <2>1. pc[p] \in Inside /\ \E label : pc' = [pc EXCEPT ![p] = label]
        BY <1>21 DEF SaveFailed, Save, Goto, Inside
    <2>2. PlainLedger' /\ PlainAt(p)'
        BY <1>21, <1>d, <2>1, Here DEF SaveFailed, Save, Goto, PlainLedger,
           PlainAt, Justified, LedgerAt, CopyAt, OutputAt, Leaving, Unclear,
           Fits, Plain, db, local
    <2> QED
        BY <2>1, <2>2, PlainMove
<1>22. ASSUME NEW p \in Procs, SaveOutput(p) PROVE PlainInv'
    <2>1. pc[p] \in Inside /\ \E label : pc' = [pc EXCEPT ![p] = label]
        BY <1>22 DEF SaveOutput, Save, AfterOutput, Goto, Inside
    <2>2. PlainLedger' /\ PlainAt(p)'
        BY <1>22, <1>d, <2>1, Here DEF SaveOutput, Save, AfterOutput, Goto,
           PlainLedger, PlainAt, Justified, LedgerAt, CopyAt, OutputAt,
           Leaving, Unclear, Fits, Plain, db, local
    <2> QED
        BY <2>1, <2>2, PlainMove
<1>23. ASSUME NEW p \in Procs, AfterGate(p) PROVE PlainInv'
    <2> DEFINE a == appr[1]["after"]
    <2>1. pc[p] = "after"
        BY <1>23 DEF AfterGate
    <2>2. cur[p] = 1 /\ inv[1].status = "output_ready" /\ PlainLedger
          /\ loc[p].out = inv[1].out /\ Needs(1, loc[p].degraded) /\ Plain
        BY <2>1, Here DEF Inside, Leaving, LedgerAt, PlainAt, OutputAt
    <2>3. 1 \in AfterGated
        BY <2>2 DEF Needs, Plain
    <2>4. /\ UNCHANGED <<run, inv>>
          /\ \/ /\ a.state = "none" /\ pc' = [pc EXCEPT ![p] = "final"]
                /\ outcome' = [outcome EXCEPT ![p] = "waiting"]
                /\ appr' = [appr EXCEPT ![1]["after"] =
                                [state |-> "pending", late |-> FALSE,
                                 payload |-> loc[p].out,
                                 effective |-> NoOutput]]
             \/ /\ a.state = "pending" /\ pc' = [pc EXCEPT ![p] = "final"]
                /\ outcome' = [outcome EXCEPT ![p] = "waiting"]
                /\ UNCHANGED appr
             \/ /\ a.late \/ a.state = "rejected"
                /\ pc' = [pc EXCEPT ![p] = "final"]
                /\ outcome' = [outcome EXCEPT ![p] = "failed"]
                /\ UNCHANGED appr
             \/ pc' = [pc EXCEPT ![p] = "commit"] /\ UNCHANGED appr
        BY <1>23, <2>2
        DEF AfterGate, GateRequests, GateHolds, GateRefuses, GateOpens, Raise,
            Goto, PlainLedger
    <2> HIDE DEF a
    <2>5. PlainLedger'
        BY <1>d, <2>2, <2>4 DEF PlainLedger, a, NoApproval, Kinds
    <2>6. PlainAt(p)'
        BY <1>d, <2>3, <2>4 DEF PlainAt, Justified, a, Kinds
    <2> QED
        BY <2>1, <2>4, <2>5, <2>6, PlainMove DEF Inside
<1>24. ASSUME NEW p \in Procs, Commit(p) PROVE PlainInv'
    <2>1. pc[p] \in Inside /\ \E label : pc' = [pc EXCEPT ![p] = label]
        BY <1>24 DEF Commit, Save, NextStep, Goto, Inside
    <2>2. PlainLedger' /\ PlainAt(p)'
        BY <1>24, <1>d, <2>1, Here DEF Commit, Save, NextStep, Goto,
           PlainLedger, PlainAt, Justified, LedgerAt, CopyAt, OutputAt,
           Leaving, Unclear, Fits, Plain, db, local
    <2> QED
        BY <2>1, <2>2, PlainMove
<1>25. ASSUME NEW p \in Procs, SaveRefused(p) PROVE PlainInv'
    <2>1. pc[p] \in Inside /\ \E label : pc' = [pc EXCEPT ![p] = label]
        BY <1>25 DEF SaveRefused, Raise, Goto, Inside
    <2>2. PlainLedger' /\ PlainAt(p)'
        BY <1>25, <1>d, <2>1, Here DEF SaveRefused, Raise, Goto, PlainLedger,
           PlainAt, Justified, LedgerAt, CopyAt, OutputAt, Leaving, Unclear,
           Fits, Plain, db, local
    <2> QED
        BY <2>1, <2>2, PlainMove
<1>26. ASSUME NEW p \in Procs, WalkDone(p) PROVE PlainInv'
    <2>1. pc[p] \in Inside /\ \E label : pc' = [pc EXCEPT ![p] = label]
        BY <1>26 DEF WalkDone, RaiseUnauthorised, Raise, Goto, Inside
    <2>2. PlainLedger' /\ PlainAt(p)'
        BY <1>26, <1>d, <2>1, Here DEF WalkDone, RaiseUnauthorised, Raise,
           Goto, PlainLedger, PlainAt, Justified, LedgerAt, CopyAt, OutputAt,
           Leaving, Unclear, Fits, Plain, db, local
    <2> QED
        BY <2>1, <2>2, PlainMove
<1>27. ASSUME NEW p \in Procs, Unwind(p) PROVE PlainInv'
    <2>1. pc[p] \in Inside /\ \E label : pc' = [pc EXCEPT ![p] = label]
        BY <1>27 DEF Unwind, Raise, Goto, Inside
    <2>2. PlainLedger' /\ PlainAt(p)'
        BY <1>27, <1>d, <2>1, Here DEF Unwind, Raise, Goto, PlainLedger,
           PlainAt, Justified, LedgerAt, CopyAt, OutputAt, Leaving, Unclear,
           Fits, Plain, db, local
    <2> QED
        BY <2>1, <2>2, PlainMove
<1>28. ASSUME NEW p \in Procs, TaskCancelled(p) PROVE PlainInv'
    <2>1. pc[p] \in Inside
        BY <1>28 DEF TaskCancelled, Inside
    <2>2. PlainAt(p)
        BY <2>1, Here
    <2>3. Unresolved(p, "cancelled") /\ pc[p] \in {"enter", "handler"}
        BY <1>28, <2>2 DEF TaskCancelled, PlainAt
    <2> QED
        BY <1>28, <2>3, PlainGaveUp DEF TaskCancelled, Unresolved, db
<1>29. ASSUME NEW p \in Procs, BeforeGate(p) PROVE PlainInv'
    BY <1>29 DEF BeforeGate, Known, Plain, PlainInv, PlainAt
<1>30. ASSUME NEW p \in Procs, ReviewInterrupt(p) PROVE PlainInv'
    BY <1>30 DEF ReviewInterrupt, Known, Plain, PlainInv, PlainAt
<1>31. ASSUME NEW p \in Procs, Suspend(p) PROVE PlainInv'
    BY <1>31 DEF Suspend, Known, Plain, PlainInv, PlainAt
<1>32. ASSUME NEW p \in Procs, Paused(p) PROVE PlainInv'
    BY <1>32 DEF Paused, Known, Plain, PlainInv, PlainAt
<1>33. ASSUME NEW p \in Procs, Retry(p) PROVE PlainInv'
    BY <1>33 DEF Retry, Known, Plain, PlainInv, PlainAt
<1>34. ASSUME NEW p \in Procs, HandlerInterrupts(p) PROVE PlainInv'
    BY <1>34 DEF HandlerInterrupts, Known, Plain, PlainInv, PlainAt
<1>35. ASSUME NEW s \in Steps, NEW k \in Kinds, Decide(s, k)
      PROVE  PlainInv'
    BY <1>35, <1>d
    DEF Decide, Known, PlainInv, PlainLedger, PlainAt, Justified, db, local
<1>36. ASSUME NEW s \in Steps, NEW k \in Kinds, Expire(s, k)
      PROVE  PlainInv'
    <2>1. \A kk \in Kinds :
             /\ appr'[1][kk].state = appr[1][kk].state
             /\ appr'[1][kk].payload = appr[1][kk].payload
             /\ appr[1][kk].late => appr'[1][kk].late
             /\ appr[1][kk].state = "none" => appr'[1][kk] = appr[1][kk]
        BY <1>36, <1>d DEF Expire, NoApproval
    <2>2. UNCHANGED <<run, inv, pc, loc, outcome>>
        BY <1>36 DEF Expire, local
    <2> QED
        BY <2>1, <2>2
        DEF Known, PlainInv, PlainLedger, PlainAt, Justified, Kinds
<1>37. ASSUME NEW s \in Steps, ReconcileRetry(s) PROVE PlainInv'
    <2>1. \A p \in Procs : pc[p] \notin Inside
        BY <1>37, <1>d
        DEF ReconcileRetry, Reconcilable, Known, FenceInv, ExecutorHoldsLease,
            Executing
    <2>2. appr[1]["after"].state = "none"
        BY <1>37, <1>d
        DEF ReconcileRetry, Reconcilable, Known, OutputInv,
            ReviewedOnlyIfNeeded, Unclear
    <2>3. PlainLedger'
        BY <1>37, <1>d, <2>2
        DEF ReconcileRetry, Reconcilable, Known, PlainInv, PlainLedger,
            NoApproval, Unclear
    <2>4. \A p \in Procs : PlainAt(p)'
        BY <1>37, <2>1 DEF ReconcileRetry, PlainAt, Inside, local
    <2> QED
        BY <2>3, <2>4 DEF PlainInv
<1>38. ASSUME NEW s \in Steps, ReconcileOutput(s) PROVE PlainInv'
    <2>1. \A p \in Procs : pc[p] \notin Inside
        BY <1>38, <1>d
        DEF ReconcileOutput, Reconcilable, Known, FenceInv, ExecutorHoldsLease,
            Executing
    <2>2. appr[1]["after"].state = "none"
        BY <1>38, <1>d
        DEF ReconcileOutput, Reconcilable, Known, OutputInv,
            ReviewedOnlyIfNeeded, Unclear
    <2>3. PlainLedger'
        BY <1>38, <1>d, <2>2
        DEF ReconcileOutput, Reconcilable, Known, PlainInv, PlainLedger,
            NoApproval, Unclear
    <2>4. \A p \in Procs : PlainAt(p)'
        BY <1>38, <2>1 DEF ReconcileOutput, PlainAt, Inside, local
    <2> QED
        BY <2>3, <2>4 DEF PlainInv
<1> QED
    BY <1>1, <1>2, <1>3, <1>4, <1>5, <1>6, <1>7, <1>8, <1>9, <1>10, <1>11,
       <1>12, <1>13, <1>14, <1>15, <1>16, <1>17, <1>18, <1>19, <1>20, <1>21,
       <1>22, <1>23, <1>24, <1>25, <1>26, <1>27, <1>28, <1>29, <1>30, <1>31,
       <1>32, <1>33, <1>34, <1>35, <1>36, <1>37, <1>38
    DEF Next, Advance, Disturb

-----------------------------------------------------------------------------
(* The view of a client and the steps of the contract                      *)

(* View, field by field.                                                   *)
Active == \E p \in Procs : Executing(p)
Seen(status, active, cancel, step, value, gated, review, late, verdict) ==
    [status |-> status, active |-> active, cancel |-> cancel, step |-> step,
     value |-> value, gated |-> gated, review |-> review,
     late |-> late, verdict |-> verdict]

(* A flag that is a formula, kept from the provers that want a value.       *)
Yes(flag) == flag = TRUE
No(flag) == flag = FALSE

LEMMA Offered ==
    ASSUME NEW x
    PROVE  /\ Contract!Started(x) \subseteq Contract!Successors(x)
           /\ Contract!Called(x) \subseteq Contract!Successors(x)
           /\ Contract!Broken(x) \subseteq Contract!Successors(x)
           /\ Contract!ReviewRequested(x) \subseteq Contract!Successors(x)
           /\ Contract!Committed(x) \subseteq Contract!Successors(x)
           /\ Contract!Ended(x) \subseteq Contract!Successors(x)
           /\ Contract!Crashed(x) \subseteq Contract!Successors(x)
           /\ Contract!Doubted(x) \subseteq Contract!Successors(x)
           /\ Contract!Cancelled(x) \subseteq Contract!Successors(x)
           /\ Contract!Expired(x) \subseteq Contract!Successors(x)
           /\ Contract!RetryGranted(x) \subseteq Contract!Successors(x)
           /\ \A v \in Outputs :
                 /\ Contract!Returned(x, v) \subseteq Contract!Successors(x)
                 /\ Contract!OutputConfirmed(x, v)
                        \subseteq Contract!Successors(x)
                 /\ \A d \in {"approved", "rejected"} :
                       Contract!Reviewed(x, d, v)
                              \subseteq Contract!Successors(x)
    BY DEF Contract!Successors
(* What each operator of the contract offers to a view.                    *)
LEMMA SeenStarted ==
    ASSUME NEW s, NEW a, NEW c, NEW i, NEW v, NEW g, NEW r, NEW l, NEW e, NEW
           t, s \notin Contract!Finished, No(a), Yes(t)
    PROVE  Seen("running", t, c, i, v, g, r, l, e)
             \in Contract!Started(Seen(s, a, c, i, v, g, r, l, e))
<1> DEFINE x == Seen(s, a, c, i, v, g, r, l, e)
<1>1. x.status = s /\ x.active = a
    BY DEF Seen
<1>2. [x EXCEPT !.status = "running", !.active = t]
          = Seen("running", t, c, i, v, g, r, l, e)
    <2>1. [x EXCEPT !.status = "running"]
              = Seen("running", a, c, i, v, g, r, l, e)
        BY DEF Seen
    <2>2. [Seen("running", a, c, i, v, g, r, l, e) EXCEPT !.active = t]
              = Seen("running", t, c, i, v, g, r, l, e)
        BY DEF Seen
    <2> HIDE DEF x
    <2> QED
        BY <2>1, <2>2
<1>3. [x EXCEPT !.status = "running", !.active = t] \in Contract!Started(x)
    <2> HIDE DEF x
    <2> QED
        BY <1>1, Zenon DEF Contract!Started, Yes, No
<1> QED
    BY <1>2, <1>3, Zenon

LEMMA SeenCalled ==
    ASSUME NEW a, NEW c, NEW v, NEW g, NEW r, NEW l, NEW e, Yes(a)
    PROVE  Seen("running", a, c, "running", v, g, r, l, e)
             \in Contract!Called(Seen("running", a, c, "new", v, g, r, l, e))
<1> DEFINE x == Seen("running", a, c, "new", v, g, r, l, e)
<1>1. x.status = "running" /\ x.active = a /\ x.step = "new"
    BY DEF Seen
<1>2. [x EXCEPT !.step = "running"]
          = Seen("running", a, c, "running", v, g, r, l, e)
    BY DEF Seen
<1>3. [x EXCEPT !.step = "running"] \in Contract!Called(x)
    <2> HIDE DEF x
    <2> QED
        BY <1>1, Zenon DEF Contract!Called, Yes, No, Contract!Executing
<1> QED
    BY <1>2, <1>3, Zenon

LEMMA SeenReturned ==
    ASSUME NEW a, NEW c, NEW v, NEW g, NEW r, NEW l, NEW e, NEW o, Yes(a)
    PROVE  Seen("running", a, c, "ready", o, g, r, l, e)
             \in Contract!Returned(
                    Seen("running", a, c, "running", v, g, r, l, e), o)
<1> DEFINE x == Seen("running", a, c, "running", v, g, r, l, e)
<1>1. x.status = "running" /\ x.active = a /\ x.step = "running"
    BY DEF Seen
<1>2. [x EXCEPT !.step = "ready", !.value = o]
          = Seen("running", a, c, "ready", o, g, r, l, e)
    <2>1. [x EXCEPT !.step = "ready"]
              = Seen("running", a, c, "ready", v, g, r, l, e)
        BY DEF Seen
    <2>2. [Seen("running", a, c, "ready", v, g, r, l, e) EXCEPT !.value = o]
              = Seen("running", a, c, "ready", o, g, r, l, e)
        BY DEF Seen
    <2> HIDE DEF x
    <2> QED
        BY <2>1, <2>2
<1>3. [x EXCEPT !.step = "ready", !.value = o] \in Contract!Returned(x, o)
    <2> HIDE DEF x
    <2> QED
        BY <1>1, Zenon DEF Contract!Returned, Yes, No, Contract!Executing
<1> QED
    BY <1>2, <1>3, Zenon

LEMMA SeenBroken ==
    ASSUME NEW a, NEW c, NEW v, NEW g, NEW r, NEW l, NEW e, Yes(a)
    PROVE  Seen("running", a, c, "broken", v, g, r, l, e)
             \in Contract!Broken(
                    Seen("running", a, c, "running", v, g, r, l, e))
<1> DEFINE x == Seen("running", a, c, "running", v, g, r, l, e)
<1>1. x.status = "running" /\ x.active = a /\ x.step = "running"
    BY DEF Seen
<1>2. [x EXCEPT !.step = "broken"]
          = Seen("running", a, c, "broken", v, g, r, l, e)
    BY DEF Seen
<1>3. [x EXCEPT !.step = "broken"] \in Contract!Broken(x)
    <2> HIDE DEF x
    <2> QED
        BY <1>1, Zenon DEF Contract!Broken, Yes, No, Contract!Executing
<1> QED
    BY <1>2, <1>3, Zenon

LEMMA SeenReviewRequested ==
    ASSUME NEW a, NEW c, NEW v, NEW g, NEW l, NEW e, Yes(a), Yes(g)
    PROVE  Seen("running", a, c, "ready", v, g, "pending", l, e)
             \in Contract!ReviewRequested(
                    Seen("running", a, c, "ready", v, g, "none", l, e))
<1> DEFINE x == Seen("running", a, c, "ready", v, g, "none", l, e)
<1>1. x.status = "running" /\ x.active = a /\ x.step = "ready" /\ x.gated = g
       /\ x.review = "none"
    BY DEF Seen
<1>2. [x EXCEPT !.review = "pending"]
          = Seen("running", a, c, "ready", v, g, "pending", l, e)
    BY DEF Seen
<1>3. [x EXCEPT !.review = "pending"] \in Contract!ReviewRequested(x)
    <2> HIDE DEF x
    <2> QED
        BY <1>1, Zenon DEF Contract!ReviewRequested, Yes, No,
           Contract!Executing
<1> QED
    BY <1>2, <1>3, Zenon

LEMMA SeenEnded ==
    ASSUME NEW a, NEW c, NEW i, NEW v, NEW g, NEW r, NEW l, NEW e, NEW u,
           NEW t,
           Yes(a), No(t),
           \/ u = "succeeded" /\ i = "committed"
           \/ u = "waiting" /\ r # "none"
           \/ u = "failed" /\ (i = "broken" \/ r = "rejected" \/ Yes(l))
           \/ u = "cancelled" /\ Yes(c)
           \/ u = "uncertain" /\ i \in {"running", "broken"}
    PROVE  Seen(u, t, c, i, v, g, r, l, e)
             \in Contract!Ended(Seen("running", a, c, i, v, g, r, l, e))
<1> DEFINE x == Seen("running", a, c, i, v, g, r, l, e)
<1>1. x.status = "running" /\ x.active = a /\ x.cancel = c /\ x.step = i
      /\ x.review = r /\ x.late = l
    BY DEF Seen
<1>2. [x EXCEPT !.status = u, !.active = t]
          = Seen(u, t, c, i, v, g, r, l, e)
    <2>1. [x EXCEPT !.status = u]
              = Seen(u, a, c, i, v, g, r, l, e)
        BY DEF Seen
    <2>2. [Seen(u, a, c, i, v, g, r, l, e) EXCEPT !.active = t]
              = Seen(u, t, c, i, v, g, r, l, e)
        BY DEF Seen
    <2> HIDE DEF x
    <2> QED
        BY <2>1, <2>2
<1>3. [x EXCEPT !.status = u, !.active = t] \in Contract!Ended(x)
    <2> HIDE DEF x
    <2>1. Contract!Executing(x)
        BY <1>1, Zenon DEF Contract!Executing, Yes
    <2>2. u \in Contract!Ends(x)
        BY <1>1 DEF Contract!Ends, Yes
    <2>3. [x EXCEPT !.status = u, !.active = FALSE] \in Contract!Ended(x)
        BY <2>1, <2>2 DEF Contract!Ended
    <2> QED
        BY <2>3, Zenon DEF No
<1> QED
    BY <1>2, <1>3, Zenon

LEMMA SeenCrashed ==
    ASSUME NEW s, NEW a, NEW c, NEW i, NEW v, NEW g, NEW r, NEW l, NEW e, NEW
           t, Yes(a), No(t)
    PROVE  Seen(s, t, c, i, v, g, r, l, e)
             \in Contract!Crashed(Seen(s, a, c, i, v, g, r, l, e))
<1> DEFINE x == Seen(s, a, c, i, v, g, r, l, e)
<1>1. x.active = a
    BY DEF Seen
<1>2. [x EXCEPT !.active = t]
          = Seen(s, t, c, i, v, g, r, l, e)
    BY DEF Seen
<1>3. [x EXCEPT !.active = t] \in Contract!Crashed(x)
    <2> HIDE DEF x
    <2> QED
        BY <1>1, Zenon DEF Contract!Crashed, Yes, No
<1> QED
    BY <1>2, <1>3, Zenon

LEMMA SeenDoubted ==
    ASSUME NEW s, NEW a, NEW c, NEW i, NEW v, NEW g, NEW r, NEW l, NEW e,
           No(a), Cardinality(Procs) > 1
    PROVE  Seen("uncertain", a, c, i, v, g, r, l, e)
             \in Contract!Doubted(Seen(s, a, c, i, v, g, r, l, e))
<1> DEFINE x == Seen(s, a, c, i, v, g, r, l, e)
<1>1. x.active = a
    BY DEF Seen
<1>2. [x EXCEPT !.status = "uncertain"]
          = Seen("uncertain", a, c, i, v, g, r, l, e)
    BY DEF Seen
<1>3. [x EXCEPT !.status = "uncertain"] \in Contract!Doubted(x)
    <2> HIDE DEF x
    <2> QED
        BY <1>1, Zenon DEF Contract!Doubted, Yes, No
<1> QED
    BY <1>2, <1>3, Zenon

LEMMA SeenReviewed ==
    ASSUME NEW s, NEW a, NEW c, NEW i, NEW v, NEW g, NEW l, NEW e, NEW d, NEW
           o, No(l)
    PROVE  Seen(s, a, c, i, v, g, d, l, o)
             \in Contract!Reviewed(
                    Seen(s, a, c, i, v, g, "pending", l, e), d, o)
<1> DEFINE x == Seen(s, a, c, i, v, g, "pending", l, e)
<1>1. x.review = "pending" /\ x.late = l
    BY DEF Seen
<1>2. [x EXCEPT !.review = d, !.verdict = o]
          = Seen(s, a, c, i, v, g, d, l, o)
    <2>1. [x EXCEPT !.review = d]
              = Seen(s, a, c, i, v, g, d, l, e)
        BY DEF Seen
    <2>2. [Seen(s, a, c, i, v, g, d, l, e) EXCEPT !.verdict = o]
              = Seen(s, a, c, i, v, g, d, l, o)
        BY DEF Seen
    <2> HIDE DEF x
    <2> QED
        BY <2>1, <2>2
<1>3. [x EXCEPT !.review = d, !.verdict = o] \in Contract!Reviewed(x, d, o)
    <2> HIDE DEF x
    <2> QED
        BY <1>1, Zenon DEF Contract!Reviewed, Yes, No
<1> QED
    BY <1>2, <1>3, Zenon

LEMMA SeenExpired ==
    ASSUME NEW s, NEW a, NEW c, NEW i, NEW v, NEW g, NEW r, NEW l, NEW e, NEW
           t, r \in {"pending", "approved"}, Yes(t)
    PROVE  Seen(s, a, c, i, v, g, r, t, e)
             \in Contract!Expired(Seen(s, a, c, i, v, g, r, l, e))
<1> DEFINE x == Seen(s, a, c, i, v, g, r, l, e)
<1>1. x.review = r
    BY DEF Seen
<1>2. [x EXCEPT !.late = t]
          = Seen(s, a, c, i, v, g, r, t, e)
    BY DEF Seen
<1>3. [x EXCEPT !.late = t] \in Contract!Expired(x)
    <2> HIDE DEF x
    <2> QED
        BY <1>1, Zenon DEF Contract!Expired, Yes, No
<1> QED
    BY <1>2, <1>3, Zenon

LEMMA SeenCommittedReviewed ==
    ASSUME NEW a, NEW c, NEW v, NEW g, NEW l, NEW e, Yes(a), Yes(g)
    PROVE  Seen("running", a, c, "committed", e, g, "approved", l, e)
             \in Contract!Committed(
                    Seen("running", a, c, "ready", v, g, "approved", l, e))
<1> DEFINE x == Seen("running", a, c, "ready", v, g, "approved", l, e)
<1>1. x.status = "running" /\ x.active = a /\ x.step = "ready" /\ x.value = v
       /\ x.gated = g /\ x.review = "approved" /\ x.verdict = e
    BY DEF Seen
<1>2. [x EXCEPT !.step = "committed", !.value = e]
          = Seen("running", a, c, "committed", e, g, "approved", l, e)
    <2>1. [x EXCEPT !.step = "committed"]
              = Seen("running", a, c, "committed", v, g, "approved", l, e)
        BY DEF Seen
    <2>2. [Seen("running", a, c, "committed", v, g, "approved", l, e)
                   EXCEPT !.value = e]
              = Seen("running", a, c, "committed", e, g, "approved", l, e)
        BY DEF Seen
    <2> HIDE DEF x
    <2> QED
        BY <2>1, <2>2
<1>3. [x EXCEPT !.step = "committed", !.value = e] \in Contract!Committed(x)
    <2> HIDE DEF x
    <2> QED
        BY <1>1, Zenon DEF Contract!Committed, Yes, No, Contract!Executing
<1> QED
    BY <1>2, <1>3, Zenon

LEMMA SeenCommitted ==
    ASSUME NEW a, NEW c, NEW v, NEW g, NEW r, NEW l, NEW e, Yes(a), No(g)
    PROVE  Seen("running", a, c, "committed", v, g, r, l, e)
             \in Contract!Committed(
                    Seen("running", a, c, "ready", v, g, r, l, e))
<1> DEFINE x == Seen("running", a, c, "ready", v, g, r, l, e)
<1>1. x.status = "running" /\ x.active = a /\ x.step = "ready" /\ x.value = v
       /\ x.gated = g /\ x.review = r /\ x.verdict = e
    BY DEF Seen
<1>2. [x EXCEPT !.step = "committed", !.value = v]
          = Seen("running", a, c, "committed", v, g, r, l, e)
    <2>1. [x EXCEPT !.step = "committed"]
              = Seen("running", a, c, "committed", v, g, r, l, e)
        BY DEF Seen
    <2>2. [Seen("running", a, c, "committed", v, g, r, l, e)
                   EXCEPT !.value = v]
              = Seen("running", a, c, "committed", v, g, r, l, e)
        BY DEF Seen
    <2> HIDE DEF x
    <2> QED
        BY <2>1, <2>2
<1>3. [x EXCEPT !.step = "committed", !.value = v] \in Contract!Committed(x)
    <2> HIDE DEF x
    <2> QED
        BY <1>1, Zenon DEF Contract!Committed, Yes, No, Contract!Executing
<1> QED
    BY <1>2, <1>3, Zenon

LEMMA SeenCancelRequested ==
    ASSUME NEW a, NEW c, NEW i, NEW v, NEW g, NEW r, NEW l, NEW e, NEW t,
           Yes(t)
    PROVE  Seen("running", a, t, i, v, g, r, l, e)
             \in Contract!Cancelled(Seen("running", a, c, i, v, g, r, l, e))
<1> DEFINE x == Seen("running", a, c, i, v, g, r, l, e)
<1>1. x.status = "running"
    BY DEF Seen
<1>2. [x EXCEPT !.cancel = t, !.status = "running"]
          = Seen("running", a, t, i, v, g, r, l, e)
    <2>1. [x EXCEPT !.cancel = t]
              = Seen("running", a, t, i, v, g, r, l, e)
        BY DEF Seen
    <2>2. [Seen("running", a, t, i, v, g, r, l, e) EXCEPT !.status = "running"]
              = Seen("running", a, t, i, v, g, r, l, e)
        BY DEF Seen
    <2> HIDE DEF x
    <2> QED
        BY <2>1, <2>2
<1>3. [x EXCEPT !.cancel = t, !.status = "running"] \in Contract!Cancelled(x)
    <2> HIDE DEF x
    <2> QED
        BY <1>1, Zenon DEF Contract!Cancelled, Yes, No, Contract!Finished
<1> QED
    BY <1>2, <1>3, Zenon

LEMMA SeenCancelled ==
    ASSUME NEW s, NEW a, NEW c, NEW i, NEW v, NEW g, NEW r, NEW l, NEW e, NEW
           t, s \notin Contract!Finished, s # "running", Yes(t)
    PROVE  Seen("cancelled", a, t, i, v, g, r, l, e)
             \in Contract!Cancelled(Seen(s, a, c, i, v, g, r, l, e))
<1> DEFINE x == Seen(s, a, c, i, v, g, r, l, e)
<1>1. x.status = s
    BY DEF Seen
<1>2. [x EXCEPT !.cancel = t, !.status = "cancelled"]
          = Seen("cancelled", a, t, i, v, g, r, l, e)
    <2>1. [x EXCEPT !.cancel = t]
              = Seen(s, a, t, i, v, g, r, l, e)
        BY DEF Seen
    <2>2. [Seen(s, a, t, i, v, g, r, l, e) EXCEPT !.status = "cancelled"]
              = Seen("cancelled", a, t, i, v, g, r, l, e)
        BY DEF Seen
    <2> HIDE DEF x
    <2> QED
        BY <2>1, <2>2
<1>3. [x EXCEPT !.cancel = t, !.status = "cancelled"] \in Contract!Cancelled(x)
    <2> HIDE DEF x
    <2> QED
        BY <1>1, Zenon DEF Contract!Cancelled, Yes, No
<1> QED
    BY <1>2, <1>3, Zenon

LEMMA SeenRetryGranted ==
    ASSUME NEW s, NEW a, NEW c, NEW i \in {"running", "broken"}, NEW v, NEW g,
           NEW r, NEW l, NEW e, NEW t, No(a), No(t)
    PROVE  Seen("queued", a, t, "new", v, g, r, l, e)
             \in Contract!RetryGranted(Seen(s, a, c, i, v, g, r, l, e))
<1> DEFINE x == Seen(s, a, c, i, v, g, r, l, e)
           y == [x EXCEPT !.status = "queued", !.cancel = t]
<1>1. x.active = a /\ x.step = i
    BY DEF Seen
<1>2. [y EXCEPT !.step = "new"] = Seen("queued", a, t, "new", v, g, r, l, e)
    <2>1. [x EXCEPT !.status = "queued"]
              = Seen("queued", a, c, i, v, g, r, l, e)
        BY DEF Seen
    <2>2. [Seen("queued", a, c, i, v, g, r, l, e) EXCEPT !.cancel = t]
              = Seen("queued", a, t, i, v, g, r, l, e)
        BY DEF Seen
    <2>3. [Seen("queued", a, t, i, v, g, r, l, e) EXCEPT !.step = "new"]
              = Seen("queued", a, t, "new", v, g, r, l, e)
        BY DEF Seen
    <2> HIDE DEF x
    <2>5. y = Seen("queued", a, t, i, v, g, r, l, e)
        BY <2>1, <2>2
    <2> HIDE DEF y
    <2> QED
        BY <2>3, <2>5
<1>3. y = Contract!Requeued(x)
    <2> HIDE DEF x
    <2> QED
        BY Zenon DEF Contract!Requeued, No
<1>4. Contract!Unsettled(x)
    <2> HIDE DEF x
    <2> QED
        BY <1>1, Zenon DEF Contract!Unsettled, No
<1>5. [y EXCEPT !.step = "new"] \in Contract!RetryGranted(x)
    <2> HIDE DEF x, y
    <2> QED
        BY <1>3, <1>4 DEF Contract!RetryGranted
<1> QED
    BY <1>2, <1>5, Zenon

LEMMA SeenOutputConfirmed ==
    ASSUME NEW s, NEW a, NEW c, NEW i \in {"running", "broken"}, NEW v, NEW g,
           NEW r, NEW l, NEW e, NEW o, NEW t, No(a), No(t)
    PROVE  Seen("queued", a, t, "ready", o, g, r, l, e)
             \in Contract!OutputConfirmed(Seen(s, a, c, i, v, g, r, l, e), o)
<1> DEFINE x == Seen(s, a, c, i, v, g, r, l, e)
           y == [x EXCEPT !.status = "queued", !.cancel = t]
<1>1. x.active = a /\ x.step = i
    BY DEF Seen
<1>2. [y EXCEPT !.step = "ready", !.value = o]
          = Seen("queued", a, t, "ready", o, g, r, l, e)
    <2>1. [x EXCEPT !.status = "queued"]
              = Seen("queued", a, c, i, v, g, r, l, e)
        BY DEF Seen
    <2>2. [Seen("queued", a, c, i, v, g, r, l, e) EXCEPT !.cancel = t]
              = Seen("queued", a, t, i, v, g, r, l, e)
        BY DEF Seen
    <2>3. [Seen("queued", a, t, i, v, g, r, l, e) EXCEPT !.step = "ready"]
              = Seen("queued", a, t, "ready", v, g, r, l, e)
        BY DEF Seen
    <2>4. [Seen("queued", a, t, "ready", v, g, r, l, e) EXCEPT !.value = o]
              = Seen("queued", a, t, "ready", o, g, r, l, e)
        BY DEF Seen
    <2> HIDE DEF x
    <2>5. y = Seen("queued", a, t, i, v, g, r, l, e)
        BY <2>1, <2>2
    <2> HIDE DEF y
    <2> QED
        BY <2>3, <2>4, <2>5
<1>3. y = Contract!Requeued(x)
    <2> HIDE DEF x
    <2> QED
        BY Zenon DEF Contract!Requeued, No
<1>4. Contract!Unsettled(x)
    <2> HIDE DEF x
    <2> QED
        BY <1>1, Zenon DEF Contract!Unsettled, No
<1>5. [y EXCEPT !.step = "ready", !.value = o]
          \in Contract!OutputConfirmed(x, o)
    <2> HIDE DEF x, y
    <2> QED
        BY <1>3, <1>4 DEF Contract!OutputConfirmed
<1> QED
    BY <1>2, <1>5, Zenon

-----------------------------------------------------------------------------
(* The step of the contract that an action is                              *)

(* The part of View that does not depend on the processes.                 *)
Late == appr[1]["after"].late
Gated == 1 \in AfterGated

LEMMA SeenRun ==
    View = Seen(run.status, Active, run.cancel, Phase(inv[1].status),
                inv[1].out, Gated, appr[1]["after"].state, Late,
                appr[1]["after"].effective)
    BY Zenon DEF View, Seen, Active, Gated, Late

LEMMA SeenRunNext ==
    View' = Seen(run'.status, Active', run'.cancel, Phase(inv'[1].status),
                 inv'[1].out, Gated, appr'[1]["after"].state, Late',
                 appr'[1]["after"].effective)
    BY Zenon DEF View, Seen, Active, Gated, Late, Phase

(* A step that shows nothing.                                              *)
LEMMA SeenSame ==
    ASSUME run'.status = run.status, run'.cancel = run.cancel,
           Phase(inv'[1].status) = Phase(inv[1].status),
           inv'[1].out = inv[1].out, appr' = appr,
           \A q \in Procs : pc'[q] \in Inside <=> pc[q] \in Inside
    PROVE  View' = View
<1>1. Active' = Active
    BY DEF Active, Executing, Inside
<1>2. Late' = Late
    BY DEF Late
<1> QED
    BY <1>1, <1>2, SeenRun, SeenRunNext

(* Who executes the run shows.                                             *)
LEMMA ActiveHere ==
    ASSUME NEW p \in Procs, pc[p] \in Inside
    PROVE  Yes(Active)
    BY Zenon DEF Active, Executing, Yes

LEMMA ActiveNext ==
    ASSUME NEW p \in Procs, pc'[p] \in Inside
    PROVE  Yes(Active')
    BY Zenon DEF Active, Executing, Yes, Inside

LEMMA ActiveNowhere ==
    ASSUME \A p \in Procs : pc[p] \notin Inside
    PROVE  No(Active)
    BY Zenon DEF Active, Executing, No

LEMMA ActiveGone ==
    ASSUME \A p \in Procs : pc'[p] \notin Inside
    PROVE  No(Active')
    BY Zenon DEF Active, Executing, No, Inside

(* What is known when a step is taken.                                     *)
Settled == Known /\ RunningInv /\ DisputeInv /\ OrderInv

(* The process that executes the run goes on,                              *)
LEMMA GoesOn ==
    ASSUME Settled, NEW p \in Procs, pc[p] \in Inside,
           NEW label \in Inside, pc' = [pc EXCEPT ![p] = label]
    PROVE  /\ run.status = "running" /\ Yes(Active) /\ Active' = Active
           /\ \A q \in Procs : pc'[q] \in Inside <=> pc[q] \in Inside
<1>1. pc'[p] = label /\ \A q \in Procs : q # p => pc'[q] = pc[q]
    BY PlainDomains DEF Settled
<1>2. run.status = "running"
    BY DEF Settled, RunningInv, Executing
<1>3. Yes(Active) /\ Yes(Active')
    BY <1>1, ActiveHere, ActiveNext
<1>4. Active' = Active
    BY <1>3, Zenon DEF Yes
<1> QED
    BY <1>1, <1>2, <1>3, <1>4

(* or leaves it to nobody.                                                 *)
LEMMA Leaves ==
    ASSUME Settled, NEW p \in Procs, pc[p] \in Inside,
           NEW label, label \notin Inside, pc' = [pc EXCEPT ![p] = label]
    PROVE  run.status = "running" /\ Yes(Active) /\ No(Active')
<1>1. \A q \in Procs : q # p => pc[q] \notin Inside
    BY Here DEF Settled
<1>2. \A q \in Procs : pc'[q] \notin Inside
    BY <1>1, PlainDomains DEF Settled
<1> QED
    BY <1>2, ActiveHere, ActiveGone DEF Settled, RunningInv, Executing

(* The ledger as the client sees it.                                       *)
LEMMA Phases ==
    /\ Phase("none") = "new" /\ Phase("pending") = "new"
    /\ Phase("running") = "running"
    /\ Phase("failed") = "broken" /\ Phase("uncertain") = "broken"
    /\ Phase("output_ready") = "ready" /\ Phase("succeeded") = "committed"
    BY DEF Phase

LEMMA StepStarted ==
    ASSUME Settled, NEW p \in Procs, Claim(p)
    PROVE  View' \in Contract!Started(View)
<1>1. /\ pc[p] \notin Inside /\ pc'[p] \in Inside
      /\ run'.status = "running" /\ run'.cancel = run.cancel
      /\ run.status \notin Contract!Finished
      /\ UNCHANGED <<inv, appr>>
      /\ \A q \in Procs : pc[q] \notin Inside
    BY PlainDomains
    DEF Settled, Claim, Known, FenceInv, ExecutorHoldsLease, Executing, Goto,
        Terminal, Contract!Finished, Inside
<1>2. No(Active) /\ Yes(Active') /\ Late' = Late
    BY <1>1, ActiveNowhere, ActiveNext DEF Late
<1> QED
    BY <1>1, <1>2, SeenRun, SeenRunNext, SeenStarted

LEMMA StepCalled ==
    ASSUME Settled, NEW p \in Procs, StartAttempt(p)
    PROVE  View' \in Contract!Called(View)
<1>1. pc[p] = "start" /\ pc' = [pc EXCEPT ![p] = "enter"]
    BY DEF StartAttempt, Goto
<1>2. /\ inv[1].status = "pending" /\ loc[p].out = inv[1].out /\ cur[p] = 1
    BY <1>1, Here DEF Settled, PlainAt, Inside, Leaving
<1>3. /\ inv'[1].status = "running" /\ inv'[1].out = inv[1].out
      /\ UNCHANGED <<run, appr>>
    BY <1>2, PlainDomains DEF Settled, StartAttempt, Save, Attempted, NoRecord
<1>4. run.status = "running" /\ Yes(Active) /\ Active' = Active /\ Late' = Late
    BY <1>1, <1>3, GoesOn DEF Inside, Late
<1> QED
    BY <1>2, <1>3, <1>4, Phases, SeenRun, SeenRunNext, SeenCalled

LEMMA StepReturned ==
    ASSUME Settled, NEW p \in Procs, SaveOutput(p)
    PROVE  \E o \in Outputs : View' \in Contract!Returned(View, o)
<1>1. pc[p] = "output"
    BY DEF SaveOutput
<1>2. /\ inv[1].status = "running" /\ loc[p].status = "output_ready"
      /\ loc[p].out \in Outputs /\ cur[p] = 1
    BY <1>1, Here
    DEF Settled, PlainAt, PlainLedger, LedgerAt, CopyAt, Inside, Leaving
<1>3. /\ inv'[1].status = "output_ready" /\ inv'[1].out = loc[p].out
      /\ UNCHANGED <<run, appr>>
    BY <1>2, PlainDomains DEF Settled, SaveOutput, Save
<1>4. \E label \in Inside : pc' = [pc EXCEPT ![p] = label]
    BY DEF SaveOutput, AfterOutput, Goto, Inside
<1>5. run.status = "running" /\ Yes(Active) /\ Active' = Active /\ Late' = Late
    BY <1>1, <1>3, <1>4, GoesOn DEF Inside, Late
<1>6. View' \in Contract!Returned(View, loc[p].out)
    BY <1>2, <1>3, <1>5, Phases, SeenRun, SeenRunNext, SeenReturned
<1> QED
    BY <1>2, <1>6

LEMMA StepBroken ==
    ASSUME Settled, NEW p \in Procs, SaveUncertain(p) \/ SaveFailed(p)
    PROVE  View' \in Contract!Broken(View)
<1>1. /\ pc[p] \in {"uncertain", "fail"} /\ Save(p, loc[p])
      /\ UNCHANGED <<run, appr>>
    BY DEF SaveUncertain, SaveFailed
<1>2. /\ inv[1].status = "running" /\ loc[p].status \in {"uncertain", "failed"}
      /\ loc[p].out = inv[1].out /\ cur[p] = 1
    BY <1>1, Here
    DEF Settled, PlainAt, PlainLedger, LedgerAt, CopyAt, Inside, Leaving
<1>3. inv'[1].status \in {"uncertain", "failed"} /\ inv'[1].out = inv[1].out
    BY <1>1, <1>2, PlainDomains DEF Settled, Save
<1>4. \E label \in Inside : pc' = [pc EXCEPT ![p] = label]
    BY DEF SaveUncertain, SaveFailed, Goto, Inside
<1>5. run.status = "running" /\ Yes(Active) /\ Active' = Active /\ Late' = Late
    BY ZenonT(60), <1>1, <1>4, GoesOn DEF Inside, Late
<1>6. Phase(inv[1].status) = "running" /\ Phase(inv'[1].status) = "broken"
    BY <1>2, <1>3, Phases
<1> QED
    BY <1>1, <1>3, <1>5, <1>6, SeenRun, SeenRunNext, SeenBroken

LEMMA StepReviewRequested ==
    ASSUME Settled, NEW p \in Procs, AfterGate(p)
    PROVE  View' = View \/ View' \in Contract!ReviewRequested(View)
<1>1. pc[p] = "after" /\ UNCHANGED <<run, inv>>
    BY DEF AfterGate
<1>2. /\ inv[1].status = "output_ready" /\ cur[p] = 1
      /\ Needs(1, loc[p].degraded) /\ Plain /\ PlainLedger
    BY <1>1, Here DEF Settled, LedgerAt, OutputAt, Inside, Leaving
<1>3. Yes(Gated)
    <2>1. 1 \in AfterGated
        BY <1>2 DEF Needs, Plain
    <2> QED
        BY <2>1, Zenon DEF Gated, Yes
<1>4. \E label \in Inside : pc' = [pc EXCEPT ![p] = label]
    BY DEF AfterGate, Raise, Goto, Inside
<1>5. /\ run.status = "running" /\ Yes(Active) /\ Active' = Active
      /\ \A q \in Procs : pc'[q] \in Inside <=> pc[q] \in Inside
    BY ZenonT(60), <1>1, <1>4, GoesOn DEF Inside
<1>6. CASE appr' = appr
    BY <1>1, <1>5, <1>6, SeenSame
<1>7. CASE appr' # appr
    <2>1. /\ appr[1]["after"] = NoApproval
          /\ appr'[1]["after"] = [state |-> "pending", late |-> FALSE,
                                  payload |-> loc[p].out,
                                  effective |-> NoOutput]
        BY <1>2, <1>7, PlainDomains
        DEF Settled, AfterGate, GateRequests, GateHolds, GateRefuses,
            GateOpens, PlainLedger, Kinds
    <2>2. /\ appr[1]["after"].state = "none"
          /\ appr'[1]["after"].state = "pending"
          /\ appr'[1]["after"].effective = appr[1]["after"].effective
          /\ Late' = Late
        BY <2>1 DEF NoApproval, Late
    <2> QED
        BY <1>1, <1>2, <1>3, <1>5, <2>2, Phases, SeenRun, SeenRunNext,
           SeenReviewRequested
<1> QED
    BY <1>6, <1>7

LEMMA StepCommitted ==
    ASSUME Settled, NEW p \in Procs, Commit(p)
    PROVE  View' \in Contract!Committed(View)
<1>1. pc[p] = "commit" /\ UNCHANGED <<run, appr>>
    BY DEF Commit
<1>2. /\ inv[1].status = "output_ready" /\ cur[p] = 1
      /\ 1 \in AfterGated => /\ appr[1]["after"].state = "approved"
                             /\ loc[p].out = appr[1]["after"].effective
      /\ 1 \notin AfterGated => loc[p].out = inv[1].out
    BY <1>1, Here
    DEF Settled, LedgerAt, OutputAt, PlainAt, Needs, Inside, Leaving
<1>3. inv'[1].status = "succeeded" /\ inv'[1].out = loc[p].out
    BY <1>2, PlainDomains DEF Settled, Commit, Save, NoRecord
<1>4. \E label \in Inside : pc' = [pc EXCEPT ![p] = label]
    BY DEF Commit, NextStep, Goto, Inside
<1>5. run.status = "running" /\ Yes(Active) /\ Active' = Active /\ Late' = Late
    BY <1>1, <1>4, GoesOn DEF Inside, Late
<1>6. CASE 1 \in AfterGated
    <2>1. Yes(Gated)
        BY <1>6, Zenon DEF Gated, Yes
    <2> QED
        BY <1>1, <1>2, <1>3, <1>5, <1>6, <2>1, Phases, SeenRun, SeenRunNext,
           SeenCommittedReviewed
<1>7. CASE 1 \notin AfterGated
    <2>1. ~Gated
        BY <1>7 DEF Gated
    <2>2. No(Gated)
        BY <2>1, SMT DEF No, Gated
    <2> QED
        BY <1>1, <1>2, <1>3, <1>5, <1>7, <2>2, Phases, SeenRun, SeenRunNext,
           SeenCommitted
<1> QED
    BY <1>6, <1>7

LEMMA StepEnded ==
    ASSUME Settled, NEW p \in Procs, Finalize(p)
    PROVE  View' \in Contract!Ended(View)
<1>1. pc[p] = "final" /\ UNCHANGED <<inv, appr>>
    BY DEF Finalize
<1>2. /\ run.owner = p /\ Justified(outcome[p]) /\ Fits(pc[p], outcome[p])
    BY <1>1, Here DEF Settled, PlainAt, Inside
<1>3. /\ run'.status = outcome[p] /\ run'.cancel = run.cancel
      /\ pc' = [pc EXCEPT ![p] = "idle"]
    BY <1>2, PlainDomains DEF Settled, Finalize, Goto
<1>4. run.status = "running" /\ Yes(Active) /\ No(Active') /\ Late' = Late
    BY <1>1, <1>3, Leaves DEF Inside, Late
<1>5. outcome[p] = "succeeded" => inv[1].status = "succeeded"
    BY PlainDomains
    DEF Settled, OrderInv, Concluded, Known, FenceInv, CommittedStays
<1>6. /\ Late => Yes(Late)
      /\ run.cancel => Yes(run.cancel)
    <2>1. run.cancel \in BOOLEAN /\ Late \in BOOLEAN
        BY PlainDomains
        DEF Settled, Known, TypeInv, RunType, ReviewType, Approval, Late, Kinds
    <2> QED
        BY <2>1, Zenon DEF Yes
<1>7. \/ outcome[p] = "succeeded" /\ Phase(inv[1].status) = "committed"
      \/ outcome[p] = "waiting" /\ appr[1]["after"].state # "none"
      \/ /\ outcome[p] = "failed"
         /\ \/ Phase(inv[1].status) = "broken"
            \/ appr[1]["after"].state = "rejected" \/ Yes(Late)
      \/ outcome[p] = "cancelled" /\ Yes(run.cancel)
      \/ /\ outcome[p] = "uncertain"
         /\ Phase(inv[1].status) \in {"running", "broken"}
    BY <1>1, <1>2, <1>5, <1>6, Phases
    DEF Justified, Fits, Outcome, Late, Unclear
<1> QED
    BY <1>1, <1>3, <1>4, <1>7, SeenRun, SeenRunNext, SeenEnded

LEMMA StepCrashed ==
    ASSUME Settled, NEW p \in Procs, Crash(p)
    PROVE  View' = View \/ View' \in Contract!Crashed(View)
<1>1. pc' = [pc EXCEPT ![p] = "idle"] /\ UNCHANGED <<run, inv, appr>>
    BY DEF Crash, Goto, db
<1>2. CASE pc[p] \in Inside
    <2>1. Yes(Active) /\ No(Active') /\ Late' = Late
        BY <1>1, <1>2, Leaves DEF Inside, Late
    <2> QED
        BY <1>1, <2>1, SeenRun, SeenRunNext, SeenCrashed
<1>3. CASE pc[p] \notin Inside
    <2>1. \A q \in Procs : pc'[q] \in Inside <=> pc[q] \in Inside
        BY <1>1, <1>3, PlainDomains DEF Settled, Inside
    <2> QED
        BY <1>1, <2>1, SeenSame
<1> QED
    BY <1>2, <1>3

LEMMA StepDoubted ==
    ASSUME Settled, NEW p \in Procs, MarkConflict(p), IsFiniteSet(Procs)
    PROVE  View' = View \/ View' \in Contract!Doubted(View)
<1>1. pc[p] = "conflict" /\ pc' = [pc EXCEPT ![p] = "idle"]
      /\ UNCHANGED <<inv, appr>>
    BY DEF MarkConflict, Goto
<1>2. \A q \in Procs : pc'[q] \in Inside <=> pc[q] \in Inside
    BY <1>1, PlainDomains DEF Settled, Inside
<1>3. CASE run.live
    BY <1>1, <1>2, <1>3, SeenSame DEF MarkConflict
<1>4. CASE ~run.live
    <2>1. run'.status = "uncertain" /\ run'.cancel = run.cancel
        BY <1>4, PlainDomains DEF Settled, MarkConflict
    <2>2. \A q \in Procs : pc[q] \notin Inside
        BY <1>4 DEF Settled, Known, FenceInv, ExecutorHoldsLease, Executing
    <2>3. No(Active) /\ No(Active') /\ Late' = Late
        BY <1>1, <1>2, <2>2, ActiveNowhere, ActiveGone DEF Late
    <2>4. Active' = Active
        BY <2>3, Zenon DEF No
    <2>5. Cardinality(Procs) > 1
        <3>1. PICK q \in Procs : q # p
            BY <1>1 DEF Settled, DisputeInv
        <3> DEFINE others == Procs \ {p}
        <3>2. /\ IsFiniteSet(others)
              /\ Cardinality(others) = Cardinality(Procs) - 1
            BY FS_RemoveElement
        <3>3. Cardinality(Procs) \in Nat /\ Cardinality(others) \in Nat
            BY <3>2, FS_CardinalityType
        <3>4. Cardinality(others) # 0
            BY <3>1, <3>2, FS_EmptySet
        <3> QED
            BY <3>2, <3>3, <3>4
    <2> QED
        BY <1>1, <2>1, <2>3, <2>4, <2>5, SeenRun, SeenRunNext, SeenDoubted
<1> QED
    BY <1>3, <1>4

LEMMA StepCancelled ==
    ASSUME Settled, Cancel
    PROVE  View' \in Contract!Cancelled(View)
<1>1. /\ run.status \notin Contract!Finished /\ UNCHANGED <<inv, appr, pc>>
      /\ run'.cancel = TRUE
      /\ run'.status = IF run.status = "running" THEN "running"
                         ELSE "cancelled"
    BY PlainDomains DEF Settled, Cancel, Terminal, Contract!Finished, local
<1>2. Active' = Active /\ Late' = Late /\ Yes(run'.cancel)
    BY <1>1, Zenon DEF Active, Executing, Late, Yes
<1>3. CASE run.status = "running"
    BY <1>1, <1>2, <1>3, SeenRun, SeenRunNext, SeenCancelRequested
<1>4. CASE run.status # "running"
    BY <1>1, <1>2, <1>4, SeenRun, SeenRunNext, SeenCancelled
<1> QED
    BY <1>3, <1>4

LEMMA StepReviewed ==
    ASSUME Settled, NEW s \in Steps, NEW k \in Kinds, Decide(s, k)
    PROVE  \E d \in {"approved", "rejected"}, o \in Outputs :
              View' \in Contract!Reviewed(View, d, o)
<1>1. s = 1 /\ k = "after"
    BY PlainDomains DEF Settled, Known, PlainInv, PlainLedger, Decide, Kinds
<1>2. PICK d \in {"approved", "rejected"}, o \in Outputs :
          appr' = [appr EXCEPT ![1]["after"] =
                      [appr[1]["after"] EXCEPT !.state = d, !.effective = o]]
    BY <1>1 DEF Decide
<1>3. appr[1]["after"].state = "pending" /\ ~Late /\ UNCHANGED <<run, inv, pc>>
    BY <1>1 DEF Decide, Late, local
<1>4. /\ appr'[1]["after"].state = d /\ appr'[1]["after"].effective = o
      /\ appr'[1]["after"].late = appr[1]["after"].late
    BY <1>2, PlainDomains DEF Settled, Kinds, NoApproval
<1>5. Active' = Active /\ Late' = Late /\ No(Late)
    <2>1. Late \in BOOLEAN
        BY PlainDomains
        DEF Settled, Known, TypeInv, ReviewType, Approval, Late, Kinds
    <2>2. No(Late)
        BY <1>3, <2>1, Zenon DEF No
    <2> QED
        BY <1>3, <1>4, <2>2 DEF Active, Executing, Late, Inside
<1>6. View' \in Contract!Reviewed(View, d, o)
    BY <1>3, <1>4, <1>5, SeenRun, SeenRunNext, SeenReviewed
<1> QED
    BY <1>6

LEMMA StepExpired ==
    ASSUME Settled, NEW s \in Steps, NEW k \in Kinds, Expire(s, k)
    PROVE  View' \in Contract!Expired(View)
<1>1. s = 1 /\ k = "after" /\ UNCHANGED <<run, inv, pc>>
    BY PlainDomains
    DEF Settled, Known, PlainInv, PlainLedger, Expire, Kinds, local
<1>2. /\ appr[1]["after"].state \in {"pending", "approved"}
      /\ appr'[1]["after"].state = appr[1]["after"].state
      /\ appr'[1]["after"].effective = appr[1]["after"].effective
      /\ appr'[1]["after"].late = TRUE
    BY <1>1, PlainDomains DEF Settled, Expire, Kinds, NoApproval
<1>3. Active' = Active /\ Yes(Late')
    BY <1>1, <1>2, Zenon DEF Active, Executing, Late, Yes
<1> QED
    BY <1>1, <1>2, <1>3, SeenRun, SeenRunNext, SeenExpired

LEMMA StepReconciled ==
    ASSUME Settled, NEW s \in Steps, ReconcileRetry(s) \/ ReconcileOutput(s)
    PROVE  \/ View' \in Contract!RetryGranted(View)
           \/ \E o \in Outputs : View' \in Contract!OutputConfirmed(View, o)
<1>1. /\ s = 1 /\ UNCHANGED <<appr, pc>>
      /\ run'.status = "queued" /\ run'.cancel = FALSE
      /\ inv[1].status \in {"running", "uncertain", "failed"}
      /\ \A p \in Procs : pc[p] \notin Inside
    BY PlainDomains
    DEF Settled, ReconcileRetry, ReconcileOutput, Reconcilable, Unclear, Known,
        FenceInv, ExecutorHoldsLease, Executing, local
<1>2. No(Active) /\ No(run'.cancel)
    BY <1>1, ActiveNowhere, Zenon DEF No
<1>3. Active' = Active /\ Late' = Late
    BY <1>1, Zenon DEF Active, Executing, Late
<1>4. Phase(inv[1].status) \in {"running", "broken"}
    BY <1>1, Phases
<1>5. CASE ReconcileRetry(s)
    <2>1. inv'[1].status = "pending" /\ inv'[1].out = inv[1].out
        BY <1>1, <1>5, PlainDomains DEF Settled, ReconcileRetry, NoRecord
    <2> QED
        BY <1>1, <1>2, <1>3, <1>4, <2>1, Phases, SeenRun, SeenRunNext,
           SeenRetryGranted
<1>6. CASE ReconcileOutput(s)
    <2>1. PICK o \in Outputs :
              inv'[1].status = "output_ready" /\ inv'[1].out = o
        BY ZenonT(60), <1>1, <1>6, PlainDomains
        DEF Settled, ReconcileOutput, NoRecord
    <2>2. View' \in Contract!OutputConfirmed(View, o)
        BY <1>1, <1>2, <1>3, <1>4, <2>1, Phases, SeenRun, SeenRunNext,
           SeenOutputConfirmed
    <2> QED
        BY <2>2
<1> QED
    BY <1>5, <1>6

(* The rest of what a process does does not show.                          *)
LEMMA StepHidden ==
    ASSUME Settled, NEW p \in Procs,
           Advance(p) \/ Disturb(p),
           ~Claim(p), ~StartAttempt(p), ~SaveOutput(p),
           ~SaveUncertain(p), ~SaveFailed(p), ~AfterGate(p), ~Commit(p),
           ~Finalize(p), ~Crash(p), ~MarkConflict(p)
    PROVE  View' = View
<1>1. ASSUME pc[p] \in Inside, NEW label \in Inside,
             pc' = [pc EXCEPT ![p] = label], UNCHANGED <<run, inv, appr>>
      PROVE  View' = View
    BY <1>1, GoesOn, SeenSame
<1>2. ASSUME pc[p] \notin Inside, NEW label \in Outside,
             pc' = [pc EXCEPT ![p] = label], UNCHANGED <<run, inv, appr>>
      PROVE  View' = View
    <2>1. \A q \in Procs : pc'[q] \in Inside <=> pc[q] \in Inside
        BY <1>2, PlainDomains DEF Settled, Inside, Outside
    <2> QED
        BY <1>2, <2>1, SeenSame
<1>3. CASE Poll(p)
    BY <1>2, <1>3 DEF Poll, Goto, db, Inside, Outside
<1>4. CASE Resume(p)
    BY <1>2, <1>4 DEF Resume, Goto, db, Inside, Outside
<1>5. CASE ClaimRefused(p)
    BY <1>2, <1>5
    DEF ClaimRefused, LeaveWithConflict, Goto, db, Inside, Outside
<1>6. CASE Walk(p)
    BY <1>1, <1>6 DEF Walk, RaiseUnauthorised, Raise, Goto, db, Inside
<1>7. CASE ReadRecord(p)
    BY <1>1, <1>7
    DEF ReadRecord, NextStep, AfterOutput, Raise, Goto, db, Inside
<1>8. CASE CreateRecord(p)
    <2>1. pc[p] = "create"
        BY <1>8 DEF CreateRecord
    <2>2. /\ cur[p] = 1 /\ inv[1].status = "none" /\ inv[1].out = NoOutput
        BY <2>1, Here DEF Settled, LedgerAt, PlainLedger, Inside, Leaving
    <2>3. \E label \in Inside : pc' = [pc EXCEPT ![p] = label]
        BY <1>8 DEF CreateRecord, Raise, Goto, Inside
    <2>4. \A q \in Procs : pc'[q] \in Inside <=> pc[q] \in Inside
        BY <2>1, <2>3, GoesOn DEF Inside
    <2>5. /\ inv'[1].status \in {"none", "pending"} /\ inv'[1].out = inv[1].out
          /\ run'.status = run.status /\ run'.cancel = run.cancel
          /\ appr' = appr
        BY <1>8, <2>2, PlainDomains DEF Settled, CreateRecord, NoRecord
    <2>6. Phase(inv'[1].status) = Phase(inv[1].status)
        BY <2>2, <2>5, Phases
    <2> QED
        BY <2>4, <2>5, <2>6, SeenSame
<1>9. CASE EnterHandler(p) \/ HandlerReturns(p) \/ TaskCancelled(p)
    BY <1>1, <1>9
    DEF EnterHandler, HandlerReturns, TaskCancelled, LosesAuthority,
        Unresolved, GiveUp, Goto, db, Inside
<1>10. CASE HandlerFails(p) \/ HandlerUnresolved(p)
    BY <1>1, <1>10
    DEF HandlerFails, HandlerUnresolved, Unresolved, GiveUp, Goto, db, Inside
<1>11. CASE SaveRefused(p) \/ WalkDone(p) \/ Unwind(p)
    BY <1>1, <1>11
    DEF SaveRefused, WalkDone, Unwind, RaiseUnauthorised, Raise, Goto, db,
        Inside
<1>12. CASE Heartbeat(p)
    BY <1>12, PlainDomains, SeenSame DEF Settled, Heartbeat, local
<1>13. ~(\/ BeforeGate(p) \/ ReviewInterrupt(p) \/ HandlerInterrupts(p)
         \/ Suspend(p) \/ Paused(p) \/ Retry(p))
    BY DEF Settled, Known, Plain, PlainInv, PlainAt, BeforeGate,
       ReviewInterrupt, HandlerInterrupts, Suspend, Paused, Retry
<1> QED
    BY <1>3, <1>4, <1>5, <1>6, <1>7, <1>8, <1>9, <1>10, <1>11, <1>12, <1>13
    DEF Advance, Disturb

(* Every step of the run is a step of the contract or does not show.       *)
LEMMA ContractStep ==
    ASSUME Settled, [Next]_vars, IsFiniteSet(Procs)
    PROVE  View' = View \/ View' \in Contract!Successors(View)
<1>1. CASE UNCHANGED vars
    BY <1>1, SeenSame DEF vars
<1>2. ASSUME NEW p \in Procs, Advance(p) \/ Disturb(p)
      PROVE  View' = View \/ View' \in Contract!Successors(View)
    BY <1>2, StepHidden, StepStarted, StepCalled, StepReturned, StepBroken,
       StepReviewRequested, StepCommitted, StepEnded, StepCrashed, StepDoubted,
       Offered
<1>3. ASSUME NEW s \in Steps, NEW k \in Kinds, Decide(s, k) \/ Expire(s, k)
      PROVE  View' \in Contract!Successors(View)
    BY <1>3, StepReviewed, StepExpired, Offered
<1>4. ASSUME NEW s \in Steps, ReconcileRetry(s) \/ ReconcileOutput(s)
      PROVE  View' \in Contract!Successors(View)
    BY <1>4, StepReconciled, Offered
<1>5. CASE Cancel
    BY <1>5, StepCancelled, Offered
<1>6. CASE LeaseExpires
    BY <1>6, PlainDomains, SeenSame DEF Settled, LeaseExpires, local
<1> QED
    BY <1>1, <1>2, <1>3, <1>4, <1>5, <1>6 DEF Next

LEMMA Plainly ==
    ASSUME Plain, ~Stalls
    PROVE  Spec => []PlainInv
<1>1. Init => PlainInv
    BY DEF Plain, Init, PlainInv, PlainLedger, PlainAt, NoRecord, NoApproval,
       Steps, Kinds
<1>2. (TypeInv /\ FenceInv /\ OutputInv /\ PlainInv /\ [Next]_vars)
         => PlainInv'
    BY PlainStep DEF Known
<1> QED
    BY <1>1, <1>2, Typing, Fenced, ReviewedOutputs, PTL DEF Spec

(* Whatever workers, commands, crashes, cancellations and reconciliations  *)
(* do to a run of one step, its clients see a behaviour of the contract.   *)
THEOREM ContractCorrect ==
    ASSUME Plain, ~Stalls, Drifted \cap Workers = {}, IsFiniteSet(Procs)
    PROVE  Spec => ImplementsContract
<1>1. Init => Contract!Init
    <2> SUFFICES ASSUME Init PROVE Contract!Init
        OBVIOUS
    <2>1. \A p \in Procs : pc[p] \notin Inside
        BY DEF Init, Inside
    <2>2. No(Active) /\ No(run.cancel) /\ No(Late)
        <3>1. run.cancel = FALSE /\ Late = FALSE
            BY DEF Init, Late, NoApproval, Plain, Steps, Kinds
        <3> QED
            BY <2>1, <3>1, ActiveNowhere, Zenon DEF No
    <2>3. View = Seen("queued", Active, run.cancel, "new", NoOutput, Gated,
                      "none", Late, NoOutput)
        <3>1. /\ run.status = "queued"
              /\ inv[1].status = "none" /\ inv[1].out = NoOutput
              /\ appr[1]["after"].state = "none"
              /\ appr[1]["after"].effective = NoOutput
            BY DEF Init, NoRecord, NoApproval, Plain, Steps, Kinds
        <3> QED
            BY <3>1, SeenRun, Phases
    <2>4. Seen("queued", FALSE, FALSE, "new", NoOutput, Gated, "none", FALSE,
               NoOutput) = Contract!Submitted(Gated)
        BY Zenon DEF Seen, Contract!Submitted
    <2>5. View = Contract!Submitted(Gated)
        BY <2>2, <2>3, <2>4, Zenon DEF No
    <2>6. Gated \in BOOLEAN
        BY SMT DEF Gated
    <2> QED
        BY <2>5, <2>6, Zenon DEF Contract!Init
<1>2. (TypeInv /\ FenceInv /\ OutputInv /\ PlainInv /\ RunningInv /\ DisputeInv
        /\ OrderInv /\ [Next]_vars)
        => [Contract!Next]_View
    BY ContractStep DEF Settled, Known, Contract!Next
<1> QED
    BY <1>1, <1>2, Typing, Fenced, ReviewedOutputs, Plainly, Running, Disputed,
       Ordered, PTL
    DEF Spec, ImplementsContract, Contract!Spec

=============================================================================
