--------------------------- MODULE AgentRunProofs ---------------------------
(***************************************************************************)
(* What holds of a run however its processes are scheduled, stalled,       *)
(* crashed and taken over: the records keep their types, the steps succeed *)
(* in their order, nothing that needs an approval beforehand happens       *)
(* without one, and the retry policy bounds the attempts.  The theorems    *)
(* are for every set of processes, every length of the sequence and every  *)
(* bound.                                                                  *)
(***************************************************************************)
EXTENDS AgentRun, TLAPS

(* TypeOK by the part of the state it speaks of, so that a step is only    *)
(* asked about the parts it writes.                                        *)
RunType == run \in [status : RunStatus, owner : Procs \cup {NoProc},
                    live : BOOLEAN, cancel : BOOLEAN, unclear : BOOLEAN,
                    count : Nat]
LedgerType == inv \in [Steps -> Record]
ReviewType == appr \in [Steps -> [Kinds -> Approval]]
CopyType == loc \in [Procs -> Record]
GhostType == /\ unsettled \in [Steps -> Nat]
             /\ done \subseteq Steps
             /\ crashes \in Nat
             /\ reconciles \in Nat

(* Where a process is: only a walk that is over, or an exception on its    *)
(* way out, may be past the last step, and what is about to be saved or    *)
(* finalized has its status.                                               *)
Leaving == {"done", "unwind", "final"}
Fits(label, status) ==
    /\ label = "final" => status \in Outcome \ {"none"}
    /\ label = "uncertain" => status \in {"uncertain", "cancelled"}
    /\ label = "fail" => status = "failed"
PlaceType ==
    /\ pc \in [Procs -> Outside \cup Inside]
    /\ cur \in [Procs -> 1..(N + 1)]
    /\ outcome \in [Procs -> Outcome]
    /\ \A p \in Procs : /\ pc[p] \notin Leaving => cur[p] \in Steps
                        /\ Fits(pc[p], outcome[p])

TypeInv == /\ RunType /\ LedgerType /\ ReviewType
           /\ PlaceType /\ CopyType /\ GhostType

Moves(p, label, status) ==
    /\ pc' = [pc EXCEPT ![p] = label]
    /\ outcome' = [outcome EXCEPT ![p] = status]
    /\ cur' = cur

LEMMA RecordTypes ==
    /\ NoRecord \in Record
    /\ NoApproval \in Approval
    /\ 1 \in Steps
    BY ConstantsAssumption DEF NoRecord, Record, NoApproval, Approval,
       InvStatus, Steps

LEMMA AttemptedType ==
    ASSUME NEW r \in Record
    PROVE  Attempted(r) \in Record
<1>1. /\ r.attempt + 0 \in Nat
      /\ r.attempt + 1 \in Nat
    BY DEF Record
<1>2. /\ r.attempt + (IF r.status = "interrupted" THEN 0 ELSE 1) \in Nat
    BY <1>1
<1>. QED
    BY <1>2 DEF Attempted, Record, InvStatus

(* A new status leaves a record a record, in a process and in the ledger.  *)
LEMMA StatusType ==
    ASSUME NEW st \in InvStatus, NEW S, NEW f \in [S -> Record], NEW x \in S
    PROVE  [f EXCEPT ![x].status = st] \in [S -> Record]
<1>1. [f[x] EXCEPT !.status = st] \in Record
    BY DEF Record
<1>2. [f EXCEPT ![x].status = st] = [f EXCEPT ![x] = [f[x] EXCEPT !.status = st]]
    OBVIOUS
<1> QED
    BY <1>1, <1>2

(* What a decision and the passing of time make of an approval.            *)
LEMMA ApprovalType ==
    ASSUME NEW a \in Approval
    PROVE  /\ [a EXCEPT !.late = TRUE] \in Approval
           /\ \A v \in {"approved", "rejected"}, x \in Outputs \cup {NoOutput} :
                 [a EXCEPT !.state = v, !.effective = x] \in Approval
    BY DEF Approval

LEMMA PlaceStep ==
    ASSUME PlaceType, NEW p \in Procs, NEW l \in Outside \cup Inside,
           NEW o \in Outcome, Moves(p, l, o), Fits(l, o),
           l \notin Leaving => pc[p] \notin Leaving
    PROVE  PlaceType'
<1>1. /\ pc' \in [Procs -> Outside \cup Inside]
      /\ cur' \in [Procs -> 1..(N + 1)]
      /\ outcome' \in [Procs -> Outcome]
    BY DEF PlaceType, Moves
<1>2. ASSUME NEW q \in Procs
      PROVE  /\ pc'[q] \notin Leaving => cur'[q] \in Steps
             /\ Fits(pc'[q], outcome'[q])
    <2>1. CASE q = p
        BY <2>1 DEF PlaceType, Moves
    <2>2. CASE q # p
        BY <2>2 DEF PlaceType, Moves
    <2> QED
        BY <2>1, <2>2
<1> QED
    BY <1>1, <1>2 DEF PlaceType

(* A process that goes on with the next step, or has none left.            *)
LEMMA NextStepPlace ==
    ASSUME PlaceType, NEW p \in Procs, pc[p] \notin Leaving, NextStep(p),
           outcome' = outcome
    PROVE  PlaceType'
<1>1. cur[p] \in Steps
    BY DEF PlaceType
<1>2. cur' = [cur EXCEPT ![p] = cur[p] + 1] /\ cur[p] + 1 \in 1..(N + 1)
    BY <1>1, ConstantsAssumption DEF NextStep, Steps
<1>3. cur' \in [Procs -> 1..(N + 1)]
    BY <1>2 DEF PlaceType
<1>4. PICK l \in {"done", "walk"} : /\ pc' = [pc EXCEPT ![p] = l]
                                    /\ l = "walk" => cur[p] # N
    BY DEF NextStep, Goto
<1>5. ASSUME NEW q \in Procs
      PROVE  /\ pc'[q] \notin Leaving => cur'[q] \in Steps
             /\ Fits(pc'[q], outcome'[q])
    <2>1. CASE q = p
        <3>1. cur[p] # N => cur[p] + 1 \in Steps
            BY <1>1, ConstantsAssumption DEF Steps
        <3>2. pc'[q] = l /\ cur'[q] = cur[p] + 1
            BY <1>2, <1>4, <2>1 DEF PlaceType
        <3> QED
            BY <1>4, <3>1, <3>2 DEF Leaving, Fits
    <2>2. CASE q # p
        <3>1. pc'[q] = pc[q] /\ cur'[q] = cur[q] /\ outcome'[q] = outcome[q]
            BY <1>2, <1>4, <2>2 DEF PlaceType
        <3> QED
            BY <3>1 DEF PlaceType
    <2> QED
        BY <2>1, <2>2
<1>6. pc' \in [Procs -> Outside \cup Inside]
    <2>1. l \in Outside \cup Inside
        BY DEF Outside, Inside
    <2> QED
        BY <1>4, <2>1 DEF PlaceType
<1> QED
    BY <1>3, <1>5, <1>6 DEF PlaceType

LEMMA GateType ==
    ASSUME ReviewType, NEW p \in Procs, cur[p] \in Steps, NEW k \in Kinds,
           NEW payload \in Outputs \cup {NoOutput},
           \/ GateRequests(p, k, payload) \/ GateHolds(p, k, payload)
           \/ GateRefuses(p, k, payload) \/ GateOpens(p, k, payload)
    PROVE  ReviewType'
<1> DEFINE a == [state |-> "pending", late |-> FALSE, payload |-> payload,
                 effective |-> NoOutput]
<1>1. a \in Approval
    BY DEF Approval
<1>2. CASE GateRequests(p, k, payload)
    <2>1. appr' = [appr EXCEPT ![cur[p]] = [appr[cur[p]] EXCEPT ![k] = a]]
        BY <1>2 DEF GateRequests
    <2>2. [appr[cur[p]] EXCEPT ![k] = a] \in [Kinds -> Approval]
        BY <1>1 DEF ReviewType
    <2> QED
        BY <2>1, <2>2 DEF ReviewType
<1> QED
    BY <1>2 DEF GateHolds, GateRefuses, GateOpens, ReviewType

(* One step of the run keeps the types; used by every later invariant.     *)
LEMMA TypeStep == TypeInv /\ [Next]_vars => TypeInv'
<1> SUFFICES ASSUME TypeInv, [Next]_vars PROVE TypeInv'
    OBVIOUS
<1>u. /\ UNCHANGED run => RunType'
      /\ UNCHANGED inv => LedgerType'
      /\ UNCHANGED appr => ReviewType'
      /\ UNCHANGED loc => CopyType'
      /\ UNCHANGED <<pc, cur, outcome>> => PlaceType'
      /\ UNCHANGED <<unsettled, done, crashes, reconciles>> => GhostType'
    BY DEF TypeInv, RunType, LedgerType, ReviewType, CopyType, PlaceType,
       GhostType
<1>a. /\ \A p \in Procs : /\ outcome[p] \in Outcome
                         /\ outcome = [outcome EXCEPT ![p] = outcome[p]]
      /\ {"waiting", "uncertain", "failed", "cancelled", "succeeded"}
             \subseteq Outcome
    BY DEF TypeInv, PlaceType, Outcome
<1>b. ASSUME NEW p \in Procs,
             \/ UNCHANGED loc
             \/ \E st \in {"uncertain", "failed"} :
                    loc' = [loc EXCEPT ![p].status = st]
      PROVE  CopyType'
    <2>1. CASE UNCHANGED loc
        BY <1>u, <2>1
    <2>2. ASSUME NEW st \in {"uncertain", "failed"},
                 loc' = [loc EXCEPT ![p].status = st]
          PROVE  CopyType'
        <3>1. [loc EXCEPT ![p].status = st] \in [Procs -> Record]
            BY StatusType DEF TypeInv, CopyType, InvStatus
        <3> QED
            BY <2>2, <3>1 DEF CopyType
    <2> QED
        BY <1>b, <2>1, <2>2
<1>c. ASSUME NEW s \in Steps, NEW st \in {"interrupted", "pending"},
             inv' = [inv EXCEPT ![s].status = st]
      PROVE  LedgerType'
    <2>1. [inv EXCEPT ![s].status = st] \in [Steps -> Record]
        BY StatusType DEF TypeInv, LedgerType, InvStatus
    <2> QED
        BY <1>c, <2>1 DEF LedgerType
<1>1. ASSUME NEW p \in Procs, Poll(p) PROVE TypeInv'
    <2>1. UNCHANGED <<run, inv, appr, loc, unsettled, done, crashes, reconciles>>
        BY <1>1 DEF Poll, Goto, db, local, ghost
    <2>2. \E l \in {"polled"}, o \in Outcome : Moves(p, l, o) /\ Fits(l, o)
        BY <1>1, <1>a DEF Poll, Goto, Moves, Fits, TypeInv, PlaceType
    <2>3. pc[p] \notin Leaving
        BY <1>1 DEF Poll, Leaving
    <2>4. PlaceType'
        BY <2>2, <2>3, PlaceStep DEF TypeInv, Outside, Inside, Leaving
    <2> QED
        BY <1>u, <2>1, <2>4 DEF TypeInv
<1>2. ASSUME NEW p \in Procs, Claim(p) PROVE TypeInv'
    <2>1. UNCHANGED <<inv, appr, loc, unsettled, done, crashes, reconciles>>
        BY <1>2 DEF Claim, Goto, db, local, ghost
    <2>2. \E l \in {"walk"}, o \in Outcome : Moves(p, l, o) /\ Fits(l, o)
        BY <1>2, <1>a DEF Claim, Goto, Moves, Fits, TypeInv, PlaceType
    <2>3. pc[p] \notin Leaving
        BY <1>2 DEF Claim, Leaving
    <2>4. PlaceType'
        BY <2>2, <2>3, PlaceStep DEF TypeInv, Outside, Inside, Leaving
    <2>5. RunType'
        BY <1>2 DEF Claim, RunType, TypeInv, RunStatus
    <2> QED
        BY <1>u, <2>1, <2>4, <2>5 DEF TypeInv
<1>3. ASSUME NEW p \in Procs, ClaimRefused(p) PROVE TypeInv'
    <2>1. UNCHANGED <<run, inv, appr, loc, unsettled, done, crashes, reconciles>>
        BY <1>3 DEF ClaimRefused, LeaveWithConflict, Goto, db, local, ghost
    <2>2. \E l \in {"idle", "conflict"}, o \in Outcome : Moves(p, l, o) /\ Fits(l, o)
        BY <1>3, <1>a DEF ClaimRefused, LeaveWithConflict, Goto, Moves, Fits, TypeInv, PlaceType
    <2>3. pc[p] \notin Leaving
        BY <1>3 DEF ClaimRefused, Leaving
    <2>4. PlaceType'
        BY <2>2, <2>3, PlaceStep DEF TypeInv, Outside, Inside, Leaving
    <2> QED
        BY <1>u, <2>1, <2>4 DEF TypeInv
<1>4. ASSUME NEW p \in Procs, MarkConflict(p) PROVE TypeInv'
    <2>1. UNCHANGED <<inv, appr, loc, unsettled, done, crashes, reconciles>>
        BY <1>4 DEF MarkConflict, Goto, db, local, ghost
    <2>2. \E l \in {"idle"}, o \in Outcome : Moves(p, l, o) /\ Fits(l, o)
        BY <1>4, <1>a DEF MarkConflict, Goto, Moves, Fits, TypeInv, PlaceType
    <2>3. pc[p] \notin Leaving
        BY <1>4 DEF MarkConflict, Leaving
    <2>4. PlaceType'
        BY <2>2, <2>3, PlaceStep DEF TypeInv, Outside, Inside, Leaving
    <2>5. RunType'
        BY <1>4 DEF MarkConflict, RunType, TypeInv, RunStatus
    <2> QED
        BY <1>u, <2>1, <2>4, <2>5 DEF TypeInv
<1>5. ASSUME NEW p \in Procs, Walk(p) PROVE TypeInv'
    <2>1. UNCHANGED <<run, inv, appr, loc, unsettled, done, crashes, reconciles>>
        BY <1>5 DEF Walk, RaiseUnauthorised, Raise, Goto, db, local, ghost
    <2>2. \E l \in {"read", "unwind", "final"}, o \in Outcome : Moves(p, l, o) /\ Fits(l, o)
        BY <1>5, <1>a DEF Walk, RaiseUnauthorised, Raise, Goto, Moves, Fits, TypeInv, PlaceType
    <2>3. pc[p] \notin Leaving
        BY <1>5 DEF Walk, Leaving
    <2>4. PlaceType'
        BY <2>2, <2>3, PlaceStep DEF TypeInv, Outside, Inside, Leaving
    <2> QED
        BY <1>u, <2>1, <2>4 DEF TypeInv
<1>6. ASSUME NEW p \in Procs, ReadRecord(p) PROVE TypeInv'
    <2>1. UNCHANGED <<run, inv, appr, unsettled, done, crashes, reconciles>>
        BY <1>6 DEF ReadRecord, AfterOutput, Raise, Goto, NextStep, db, local, ghost
    <2>2. PlaceType'
        <3>1. pc[p] \notin Leaving
            BY <1>6 DEF ReadRecord, Leaving
        <3>2. CASE NextStep(p) /\ UNCHANGED outcome
            BY <3>1, <3>2, NextStepPlace DEF TypeInv
        <3>3. CASE ~(NextStep(p) /\ UNCHANGED outcome)
            <4>1. \E l \in {"before", "create", "start", "review", "after",
                           "commit", "final"}, o \in Outcome :
                      Moves(p, l, o) /\ Fits(l, o)
                BY <1>6, <1>a, <3>3
                DEF ReadRecord, AfterOutput, Raise, Goto, Moves, Fits
            <4> QED
                BY <3>1, <4>1, PlaceStep DEF TypeInv, Outside, Inside
        <3> QED
            BY <3>2, <3>3
    <2>3. CopyType'
        <3>1. cur[p] \in Steps /\ loc' = [loc EXCEPT ![p] = inv[cur[p]]]
            BY <1>6 DEF ReadRecord, TypeInv, PlaceType, Leaving
        <3> QED
            BY <3>1 DEF TypeInv, LedgerType, CopyType
    <2> QED
        BY <1>u, <2>1, <2>2, <2>3 DEF TypeInv
<1>7. ASSUME NEW p \in Procs, BeforeGate(p) PROVE TypeInv'
    <2>1. UNCHANGED <<run, inv, loc, unsettled, done, crashes, reconciles>>
        BY <1>7 DEF BeforeGate, Raise, Goto, db, local, ghost
    <2>2. \E l \in {"create", "final"}, o \in Outcome : Moves(p, l, o) /\ Fits(l, o)
        BY <1>7, <1>a DEF BeforeGate, Raise, Goto, Moves, Fits, TypeInv, PlaceType
    <2>3. pc[p] \notin Leaving
        BY <1>7 DEF BeforeGate, Leaving
    <2>4. PlaceType'
        BY <2>2, <2>3, PlaceStep DEF TypeInv, Outside, Inside, Leaving
    <2>5. ReviewType'
        <3>1. cur[p] \in Steps
            BY <1>7 DEF BeforeGate, TypeInv, PlaceType, Leaving
        <3> QED
            BY <1>7, <3>1, GateType DEF BeforeGate, Kinds, TypeInv
    <2> QED
        BY <1>u, <2>1, <2>4, <2>5 DEF TypeInv
<1>8. ASSUME NEW p \in Procs, CreateRecord(p) PROVE TypeInv'
    <2>1. UNCHANGED <<appr, unsettled, done, crashes, reconciles>>
        BY <1>8 DEF CreateRecord, Raise, Goto, db, local, ghost
    <2>2. \E l \in {"start", "final"}, o \in Outcome : Moves(p, l, o) /\ Fits(l, o)
        BY <1>8, <1>a DEF CreateRecord, Raise, Goto, Moves, Fits, TypeInv, PlaceType
    <2>3. pc[p] \notin Leaving
        BY <1>8 DEF CreateRecord, Leaving
    <2>4. PlaceType'
        BY <2>2, <2>3, PlaceStep DEF TypeInv, Outside, Inside, Leaving
    <2>5. RunType'
        BY <1>8 DEF CreateRecord, TypeInv, RunType
    <2>6. LedgerType'
        <3>1. [NoRecord EXCEPT !.status = "pending"] \in Record
            BY RecordTypes DEF Record, InvStatus
        <3> QED
            BY <1>8, <3>1 DEF CreateRecord, TypeInv, LedgerType
    <2>7. CopyType'
        <3>1. [NoRecord EXCEPT !.status = "pending"] \in Record
            BY RecordTypes DEF Record, InvStatus
        <3> QED
            BY <1>8, <3>1 DEF CreateRecord, TypeInv, CopyType
    <2> QED
        BY <1>u, <2>1, <2>4, <2>5, <2>6, <2>7 DEF TypeInv
<1>9. ASSUME NEW p \in Procs, ReviewInterrupt(p) PROVE TypeInv'
    <2>1. UNCHANGED <<run, inv, loc, unsettled, done, crashes, reconciles>>
        BY <1>9 DEF ReviewInterrupt, Raise, Goto, db, local, ghost
    <2>2. \E l \in {"start", "final"}, o \in Outcome : Moves(p, l, o) /\ Fits(l, o)
        BY <1>9, <1>a DEF ReviewInterrupt, Raise, Goto, Moves, Fits, TypeInv, PlaceType
    <2>3. pc[p] \notin Leaving
        BY <1>9 DEF ReviewInterrupt, Leaving
    <2>4. PlaceType'
        BY <2>2, <2>3, PlaceStep DEF TypeInv, Outside, Inside, Leaving
    <2>5. ReviewType'
        <3>1. cur[p] \in Steps
            BY <1>9 DEF ReviewInterrupt, TypeInv, PlaceType, Leaving
        <3> QED
            BY <1>9, <3>1, GateType DEF ReviewInterrupt, Kinds, TypeInv
    <2> QED
        BY <1>u, <2>1, <2>4, <2>5 DEF TypeInv
<1>10. ASSUME NEW p \in Procs, StartAttempt(p) PROVE TypeInv'
    <2>1. UNCHANGED <<run, appr, unsettled, done, crashes, reconciles>>
        BY <1>10 DEF StartAttempt, Save, Goto, db, local, ghost
    <2>2. \E l \in {"enter"}, o \in Outcome : Moves(p, l, o) /\ Fits(l, o)
        BY <1>10, <1>a DEF StartAttempt, Save, Goto, Moves, Fits, TypeInv, PlaceType
    <2>3. pc[p] \notin Leaving
        BY <1>10 DEF StartAttempt, Leaving
    <2>4. PlaceType'
        BY <2>2, <2>3, PlaceStep DEF TypeInv, Outside, Inside, Leaving
    <2>5. LedgerType'
        BY <1>10, AttemptedType DEF StartAttempt, Save, TypeInv, LedgerType, CopyType
    <2>6. CopyType'
        BY <1>10, AttemptedType DEF StartAttempt, Save, TypeInv, CopyType
    <2> QED
        BY <1>u, <2>1, <2>4, <2>5, <2>6 DEF TypeInv
<1>11. ASSUME NEW p \in Procs, EnterHandler(p) PROVE TypeInv'
    <2>1. UNCHANGED <<run, inv, appr>>
        BY <1>11 DEF EnterHandler, LosesAuthority, GiveUp, Unresolved, Goto, db, local, ghost
    <2>2. \E l \in {"handler", "uncertain"}, o \in Outcome : Moves(p, l, o) /\ Fits(l, o)
        BY <1>11, <1>a DEF EnterHandler, LosesAuthority, GiveUp, Unresolved, Goto, Moves, Fits, TypeInv, PlaceType
    <2>3. pc[p] \notin Leaving
        BY <1>11 DEF EnterHandler, Leaving
    <2>4. PlaceType'
        BY <2>2, <2>3, PlaceStep DEF TypeInv, Outside, Inside, Leaving
    <2>5. CopyType'
        BY <1>11, <1>b DEF EnterHandler, LosesAuthority, GiveUp, Unresolved, Goto
    <2>6. GhostType'
        BY <1>11 DEF EnterHandler, TypeInv, GhostType
    <2> QED
        BY <1>u, <2>1, <2>4, <2>5, <2>6 DEF TypeInv
<1>12. ASSUME NEW p \in Procs, HandlerReturns(p) PROVE TypeInv'
    <2>1. UNCHANGED <<run, inv, appr, unsettled, done, crashes, reconciles>>
        BY <1>12 DEF HandlerReturns, LosesAuthority, GiveUp, Unresolved, Goto, db, local, ghost
    <2>2. \E l \in {"output", "uncertain"}, o \in Outcome : Moves(p, l, o) /\ Fits(l, o)
        BY <1>12, <1>a DEF HandlerReturns, LosesAuthority, GiveUp, Unresolved, Goto, Moves, Fits, TypeInv, PlaceType
    <2>3. pc[p] \notin Leaving
        BY <1>12 DEF HandlerReturns, Leaving
    <2>4. PlaceType'
        BY <2>2, <2>3, PlaceStep DEF TypeInv, Outside, Inside, Leaving
    <2>5. CopyType'
        <3>1. ASSUME NEW o \in Outputs, NEW d \in BOOLEAN
              PROVE  [loc[p] EXCEPT !.status = "output_ready", !.out = o,
                                    !.degraded = d] \in Record
            BY DEF TypeInv, CopyType, Record, InvStatus
        <3>2. CASE Authorised(p)
            <4>1. PICK o \in Outputs, d \in BOOLEAN : loc' = [loc EXCEPT ![p] =
                      [loc[p] EXCEPT !.status = "output_ready", !.out = o,
                                     !.degraded = d]]
                BY <1>12, <3>2 DEF HandlerReturns
            <4> QED
                BY <3>1, <4>1 DEF TypeInv, CopyType
        <3>3. CASE ~Authorised(p)
            BY <1>12, <1>b, <3>3 DEF HandlerReturns, LosesAuthority, GiveUp, Unresolved, Goto
        <3> QED
            BY <3>2, <3>3
    <2> QED
        BY <1>u, <2>1, <2>4, <2>5 DEF TypeInv
<1>13. ASSUME NEW p \in Procs, HandlerFails(p) PROVE TypeInv'
    <2>1. UNCHANGED <<run, inv, appr, unsettled, done, crashes, reconciles>>
        BY <1>13 DEF HandlerFails, GiveUp, Goto, db, local, ghost
    <2>2. \E l \in {"fail"}, o \in Outcome : Moves(p, l, o) /\ Fits(l, o)
        BY <1>13, <1>a DEF HandlerFails, GiveUp, Goto, Moves, Fits, TypeInv, PlaceType
    <2>3. pc[p] \notin Leaving
        BY <1>13 DEF HandlerFails, Leaving
    <2>4. PlaceType'
        BY <2>2, <2>3, PlaceStep DEF TypeInv, Outside, Inside, Leaving
    <2>5. CopyType'
        BY <1>13, <1>b DEF HandlerFails, GiveUp, Goto
    <2> QED
        BY <1>u, <2>1, <2>4, <2>5 DEF TypeInv
<1>14. ASSUME NEW p \in Procs, HandlerUnresolved(p) PROVE TypeInv'
    <2>1. UNCHANGED <<run, inv, appr, unsettled, done, crashes, reconciles>>
        BY <1>14 DEF HandlerUnresolved, GiveUp, Unresolved, Goto, db, local, ghost
    <2>2. \E l \in {"uncertain"}, o \in Outcome : Moves(p, l, o) /\ Fits(l, o)
        BY <1>14, <1>a DEF HandlerUnresolved, GiveUp, Unresolved, Goto, Moves, Fits, TypeInv, PlaceType
    <2>3. pc[p] \notin Leaving
        BY <1>14 DEF HandlerUnresolved, Leaving
    <2>4. PlaceType'
        BY <2>2, <2>3, PlaceStep DEF TypeInv, Outside, Inside, Leaving
    <2>5. CopyType'
        BY <1>14, <1>b DEF HandlerUnresolved, GiveUp, Unresolved, Goto
    <2> QED
        BY <1>u, <2>1, <2>4, <2>5 DEF TypeInv
<1>15. ASSUME NEW p \in Procs, HandlerInterrupts(p) PROVE TypeInv'
    <2>1. UNCHANGED <<run, appr, loc>>
        BY <1>15 DEF HandlerInterrupts, Goto, db, local, ghost
    <2>2. \E l \in {"suspend"}, o \in Outcome : Moves(p, l, o) /\ Fits(l, o)
        BY <1>15, <1>a DEF HandlerInterrupts, Goto, Moves, Fits, TypeInv, PlaceType
    <2>3. pc[p] \notin Leaving
        BY <1>15 DEF HandlerInterrupts, Leaving
    <2>4. PlaceType'
        BY <2>2, <2>3, PlaceStep DEF TypeInv, Outside, Inside, Leaving
    <2>5. LedgerType'
        BY <1>15, <1>c DEF HandlerInterrupts, TypeInv, PlaceType, Leaving
    <2>6. GhostType'
        BY <1>15 DEF HandlerInterrupts, TypeInv, GhostType
    <2> QED
        BY <1>u, <2>1, <2>4, <2>5, <2>6 DEF TypeInv
<1>16. ASSUME NEW p \in Procs, Suspend(p) PROVE TypeInv'
    <2>1. UNCHANGED <<run, inv, unsettled, done, crashes, reconciles>>
        BY <1>16 DEF Suspend, GiveUp, Goto, db, local, ghost
    <2>2. \E l \in {"paused", "fail"}, o \in Outcome : Moves(p, l, o) /\ Fits(l, o)
        BY <1>16, <1>a DEF Suspend, GiveUp, Goto, Moves, Fits, TypeInv, PlaceType
    <2>3. pc[p] \notin Leaving
        BY <1>16 DEF Suspend, Leaving
    <2>4. PlaceType'
        BY <2>2, <2>3, PlaceStep DEF TypeInv, Outside, Inside, Leaving
    <2>5. ReviewType'
        <3>1. cur[p] \in Steps
            BY <1>16 DEF Suspend, TypeInv, PlaceType, Leaving
        <3> QED
            BY <1>16, <3>1, GateType DEF Suspend, Kinds, TypeInv
    <2>6. CopyType'
        BY <1>16, <1>b DEF Suspend, GiveUp, Goto
    <2> QED
        BY <1>u, <2>1, <2>4, <2>5, <2>6 DEF TypeInv
<1>17. ASSUME NEW p \in Procs, Paused(p) PROVE TypeInv'
    <2>1. UNCHANGED <<run, inv, appr, unsettled, done, crashes, reconciles>>
        BY <1>17 DEF Paused, Raise, GiveUp, Unresolved, Goto, db, local, ghost
    <2>2. \E l \in {"final", "uncertain"}, o \in Outcome : Moves(p, l, o) /\ Fits(l, o)
        BY <1>17, <1>a DEF Paused, Raise, GiveUp, Unresolved, Goto, Moves, Fits, TypeInv, PlaceType
    <2>3. pc[p] \notin Leaving
        BY <1>17 DEF Paused, Leaving
    <2>4. PlaceType'
        BY <2>2, <2>3, PlaceStep DEF TypeInv, Outside, Inside, Leaving
    <2>5. CopyType'
        BY <1>17, <1>b DEF Paused, Raise, GiveUp, Unresolved, Goto
    <2> QED
        BY <1>u, <2>1, <2>4, <2>5 DEF TypeInv
<1>18. ASSUME NEW p \in Procs, SaveUncertain(p) PROVE TypeInv'
    <2>1. UNCHANGED <<run, appr, unsettled, done, crashes, reconciles>>
        BY <1>18 DEF SaveUncertain, Save, Goto, db, local, ghost
    <2>2. \E l \in {"unwind", "final"}, o \in Outcome : Moves(p, l, o) /\ Fits(l, o)
        BY <1>18, <1>a DEF SaveUncertain, Save, Goto, Moves, Fits, TypeInv, PlaceType
    <2>3. pc[p] \notin Leaving
        BY <1>18 DEF SaveUncertain, Leaving
    <2>4. PlaceType'
        BY <2>2, <2>3, PlaceStep DEF TypeInv, Outside, Inside, Leaving
    <2>5. LedgerType'
        BY <1>18 DEF SaveUncertain, Save, TypeInv, LedgerType, CopyType
    <2>6. CopyType'
        BY <1>18 DEF SaveUncertain, Save, TypeInv, CopyType
    <2> QED
        BY <1>u, <2>1, <2>4, <2>5, <2>6 DEF TypeInv
<1>19. ASSUME NEW p \in Procs, SaveFailed(p) PROVE TypeInv'
    <2>1. UNCHANGED <<run, appr>>
        BY <1>19 DEF SaveFailed, Save, Goto, db, local, ghost
    <2>2. \E l \in {"final", "backoff"}, o \in Outcome : Moves(p, l, o) /\ Fits(l, o)
        BY <1>19, <1>a DEF SaveFailed, Save, Goto, Moves, Fits, TypeInv, PlaceType
    <2>3. pc[p] \notin Leaving
        BY <1>19 DEF SaveFailed, Leaving
    <2>4. PlaceType'
        BY <2>2, <2>3, PlaceStep DEF TypeInv, Outside, Inside, Leaving
    <2>5. LedgerType'
        BY <1>19 DEF SaveFailed, Save, TypeInv, LedgerType, CopyType
    <2>6. CopyType'
        BY <1>19 DEF SaveFailed, Save, TypeInv, CopyType
    <2>7. GhostType'
        BY <1>19 DEF SaveFailed, TypeInv, GhostType
    <2> QED
        BY <1>u, <2>1, <2>4, <2>5, <2>6, <2>7 DEF TypeInv
<1>20. ASSUME NEW p \in Procs, Retry(p) PROVE TypeInv'
    <2>1. UNCHANGED <<run, inv, appr, loc, unsettled, done, crashes, reconciles>>
        BY <1>20 DEF Retry, Goto, db, local, ghost
    <2>2. \E l \in {"start"}, o \in Outcome : Moves(p, l, o) /\ Fits(l, o)
        BY <1>20, <1>a DEF Retry, Goto, Moves, Fits, TypeInv, PlaceType
    <2>3. pc[p] \notin Leaving
        BY <1>20 DEF Retry, Leaving
    <2>4. PlaceType'
        BY <2>2, <2>3, PlaceStep DEF TypeInv, Outside, Inside, Leaving
    <2> QED
        BY <1>u, <2>1, <2>4 DEF TypeInv
<1>21. ASSUME NEW p \in Procs, SaveOutput(p) PROVE TypeInv'
    <2>1. UNCHANGED <<run, appr, unsettled, done, crashes, reconciles>>
        BY <1>21 DEF SaveOutput, Save, AfterOutput, Goto, db, local, ghost
    <2>2. \E l \in {"after", "commit"}, o \in Outcome : Moves(p, l, o) /\ Fits(l, o)
        BY <1>21, <1>a DEF SaveOutput, Save, AfterOutput, Goto, Moves, Fits, TypeInv, PlaceType
    <2>3. pc[p] \notin Leaving
        BY <1>21 DEF SaveOutput, Leaving
    <2>4. PlaceType'
        BY <2>2, <2>3, PlaceStep DEF TypeInv, Outside, Inside, Leaving
    <2>5. LedgerType'
        BY <1>21 DEF SaveOutput, Save, TypeInv, LedgerType, CopyType
    <2>6. CopyType'
        BY <1>21 DEF SaveOutput, Save, TypeInv, CopyType
    <2> QED
        BY <1>u, <2>1, <2>4, <2>5, <2>6 DEF TypeInv
<1>22. ASSUME NEW p \in Procs, AfterGate(p) PROVE TypeInv'
    <2>1. UNCHANGED <<run, inv, unsettled, done, crashes, reconciles>>
        BY <1>22 DEF AfterGate, Raise, Goto, db, local, ghost
    <2>2. \E l \in {"commit", "final"}, o \in Outcome : Moves(p, l, o) /\ Fits(l, o)
        BY <1>22, <1>a DEF AfterGate, Raise, Goto, Moves, Fits, TypeInv, PlaceType
    <2>3. pc[p] \notin Leaving
        BY <1>22 DEF AfterGate, Leaving
    <2>4. PlaceType'
        BY <2>2, <2>3, PlaceStep DEF TypeInv, Outside, Inside, Leaving
    <2>5. ReviewType'
        <3>1. cur[p] \in Steps /\ loc[p].out \in Outputs \cup {NoOutput}
            BY <1>22 DEF AfterGate, TypeInv, PlaceType, CopyType, Record, Leaving
        <3> QED
            BY <1>22, <3>1, GateType DEF AfterGate, Kinds, TypeInv
    <2>6. CopyType'
        <3>1. cur[p] \in Steps
            BY <1>22 DEF AfterGate, TypeInv, PlaceType, Leaving
        <3>2. appr[cur[p]]["after"].effective \in Outputs \cup {NoOutput}
            BY <3>1 DEF TypeInv, ReviewType, Approval, Kinds
        <3>3. [loc[p] EXCEPT !.out = appr[cur[p]]["after"].effective] \in Record
            BY <3>2 DEF TypeInv, CopyType, Record
        <3>4. \/ UNCHANGED loc
              \/ loc' = [loc EXCEPT ![p] =
                           [loc[p] EXCEPT !.out = appr[cur[p]]["after"].effective]]
            BY <1>22 DEF AfterGate
        <3> QED
            BY <3>3, <3>4 DEF TypeInv, CopyType
    <2> QED
        BY <1>u, <2>1, <2>4, <2>5, <2>6 DEF TypeInv
<1>23. ASSUME NEW p \in Procs, Commit(p) PROVE TypeInv'
    <2>1. UNCHANGED <<run, appr>>
        BY <1>23 DEF Commit, Save, db, local, ghost
    <2>2. PlaceType'
        BY <1>23, NextStepPlace DEF Commit, Leaving, TypeInv
    <2>3. LedgerType'
        <3>1. [loc[p] EXCEPT !.status = "succeeded"] \in Record
            BY DEF TypeInv, CopyType, Record, InvStatus
        <3> QED
            BY <1>23, <3>1 DEF Commit, Save, TypeInv, LedgerType
    <2>4. CopyType'
        <3>1. [loc[p] EXCEPT !.status = "succeeded"] \in Record
            BY DEF TypeInv, CopyType, Record, InvStatus
        <3> QED
            BY <1>23, <3>1 DEF Commit, Save, TypeInv, CopyType
    <2>5. GhostType'
        BY <1>23 DEF Commit, TypeInv, GhostType, PlaceType, Leaving
    <2> QED
        BY <1>u, <2>1, <2>2, <2>3, <2>4, <2>5 DEF TypeInv
<1>24. ASSUME NEW p \in Procs, SaveRefused(p) PROVE TypeInv'
    <2>1. UNCHANGED <<run, inv, appr, loc, unsettled, done, crashes, reconciles>>
        BY <1>24 DEF SaveRefused, Raise, Goto, db, local, ghost
    <2>2. \E l \in {"final"}, o \in Outcome : Moves(p, l, o) /\ Fits(l, o)
        BY <1>24, <1>a DEF SaveRefused, Raise, Goto, Moves, Fits, TypeInv, PlaceType
    <2>3. pc[p] \notin Leaving
        BY <1>24 DEF SaveRefused, Leaving
    <2>4. PlaceType'
        BY <2>2, <2>3, PlaceStep DEF TypeInv, Outside, Inside, Leaving
    <2> QED
        BY <1>u, <2>1, <2>4 DEF TypeInv
<1>25. ASSUME NEW p \in Procs, WalkDone(p) PROVE TypeInv'
    <2>1. UNCHANGED <<run, inv, appr, loc, unsettled, done, crashes, reconciles>>
        BY <1>25 DEF WalkDone, RaiseUnauthorised, Raise, Goto, db, local, ghost
    <2>2. \E l \in {"final", "unwind"}, o \in Outcome : Moves(p, l, o) /\ Fits(l, o)
        BY <1>25, <1>a DEF WalkDone, RaiseUnauthorised, Raise, Goto, Moves, Fits, TypeInv, PlaceType
    <2>3. PlaceType'
        BY <2>2, PlaceStep DEF TypeInv, Outside, Inside, Leaving
    <2> QED
        BY <1>u, <2>1, <2>3 DEF TypeInv
<1>26. ASSUME NEW p \in Procs, Unwind(p) PROVE TypeInv'
    <2>1. UNCHANGED <<run, inv, appr, loc, unsettled, done, crashes, reconciles>>
        BY <1>26 DEF Unwind, Raise, Goto, db, local, ghost
    <2>2. \E l \in {"final"}, o \in Outcome : Moves(p, l, o) /\ Fits(l, o)
        BY <1>26, <1>a DEF Unwind, Raise, Goto, Moves, Fits, TypeInv, PlaceType
    <2>3. PlaceType'
        BY <2>2, PlaceStep DEF TypeInv, Outside, Inside, Leaving
    <2> QED
        BY <1>u, <2>1, <2>3 DEF TypeInv
<1>27. ASSUME NEW p \in Procs, Finalize(p) PROVE TypeInv'
    <2>1. UNCHANGED <<inv, appr, unsettled, done, crashes, reconciles>>
        BY <1>27 DEF Finalize, Forget, LeaveWithConflict, Goto, db, local, ghost
    <2>2. PlaceType'
        <3>1. /\ cur' = [cur EXCEPT ![p] = 1]
              /\ outcome' = [outcome EXCEPT ![p] = "none"]
            BY <1>27 DEF Finalize, Forget, LeaveWithConflict, Goto
        <3>2. PICK l \in Outside : /\ pc' = [pc EXCEPT ![p] = l]
                                 /\ l \in {"idle", "conflict"}
            BY <1>27 DEF Finalize, Forget, LeaveWithConflict, Goto, Outside
        <3>3. /\ pc' \in [Procs -> Outside \cup Inside]
              /\ cur' \in [Procs -> 1..(N + 1)]
              /\ outcome' \in [Procs -> Outcome]
            BY <3>1, <3>2, RecordTypes, ConstantsAssumption
            DEF TypeInv, PlaceType, Outcome, Steps
        <3>4. ASSUME NEW q \in Procs
              PROVE  /\ pc'[q] \notin Leaving => cur'[q] \in Steps
                     /\ Fits(pc'[q], outcome'[q])
            <4>1. CASE q = p
                BY <3>1, <3>2, <4>1, RecordTypes DEF TypeInv, PlaceType, Fits
            <4>2. CASE q # p
                BY <3>1, <3>2, <4>2 DEF TypeInv, PlaceType
            <4> QED
                BY <4>1, <4>2
        <3> QED
            BY <3>3, <3>4 DEF PlaceType
    <2>3. RunType'
        <3>1. run.owner = p => outcome[p] \in RunStatus
            BY <1>27 DEF Finalize, TypeInv, PlaceType, Fits, Outcome, RunStatus,
               Terminal
        <3> QED
            BY <1>27, <3>1 DEF Finalize, TypeInv, RunType, HasUnclearEffects
    <2>4. CopyType'
        BY <1>27, RecordTypes DEF Finalize, Forget, LeaveWithConflict, Goto, TypeInv, CopyType
    <2> QED
        BY <1>u, <2>1, <2>2, <2>3, <2>4 DEF TypeInv
<1>28. ASSUME NEW p \in Procs, Resume(p) PROVE TypeInv'
    <2>1. UNCHANGED <<run, inv, appr, loc, unsettled, done, crashes, reconciles>>
        BY <1>28 DEF Resume, Goto, db, local, ghost
    <2>2. \E l \in {"polled"}, o \in Outcome : Moves(p, l, o) /\ Fits(l, o)
        BY <1>28, <1>a DEF Resume, Goto, Moves, Fits, TypeInv, PlaceType
    <2>3. pc[p] \notin Leaving
        BY <1>28 DEF Resume, Leaving
    <2>4. PlaceType'
        BY <2>2, <2>3, PlaceStep DEF TypeInv, Outside, Inside, Leaving
    <2> QED
        BY <1>u, <2>1, <2>4 DEF TypeInv
<1>29. ASSUME NEW p \in Procs, Heartbeat(p) PROVE TypeInv'
    <2>1. UNCHANGED <<inv, appr, loc, pc, cur, outcome, unsettled, done, crashes, reconciles>>
        BY <1>29 DEF Heartbeat, db, local, ghost
    <2>2. RunType'
        BY <1>29 DEF Heartbeat, TypeInv, RunType
    <2> QED
        BY <1>u, <2>1, <2>2 DEF TypeInv
<1>30. ASSUME NEW p \in Procs, TaskCancelled(p) PROVE TypeInv'
    <2>1. UNCHANGED <<run, inv, appr, unsettled, done, crashes, reconciles>>
        BY <1>30 DEF TaskCancelled, GiveUp, Unresolved, Goto, db, local, ghost
    <2>2. \E l \in {"uncertain", "unwind"}, o \in Outcome : Moves(p, l, o) /\ Fits(l, o)
        BY <1>30, <1>a DEF TaskCancelled, GiveUp, Unresolved, Goto, Moves, Fits, TypeInv, PlaceType
    <2>3. pc[p] \notin Leaving
        BY <1>30 DEF TaskCancelled, Leaving
    <2>4. PlaceType'
        BY <2>2, <2>3, PlaceStep DEF TypeInv, Outside, Inside, Leaving
    <2>5. CopyType'
        BY <1>30, <1>b DEF TaskCancelled, GiveUp, Unresolved, Goto
    <2> QED
        BY <1>u, <2>1, <2>4, <2>5 DEF TypeInv
<1>31. ASSUME NEW p \in Procs, Crash(p) PROVE TypeInv'
    <2>1. UNCHANGED <<run, inv, appr>>
        BY <1>31 DEF Crash, Forget, Goto, db, local, ghost
    <2>2. PlaceType'
        <3>1. /\ cur' = [cur EXCEPT ![p] = 1]
              /\ outcome' = [outcome EXCEPT ![p] = "none"]
            BY <1>31 DEF Crash, Forget, Goto
        <3>2. PICK l \in Outside : /\ pc' = [pc EXCEPT ![p] = l]
                                 /\ l \in {"idle", "conflict"}
            BY <1>31 DEF Crash, Forget, Goto, Outside
        <3>3. /\ pc' \in [Procs -> Outside \cup Inside]
              /\ cur' \in [Procs -> 1..(N + 1)]
              /\ outcome' \in [Procs -> Outcome]
            BY <3>1, <3>2, RecordTypes, ConstantsAssumption
            DEF TypeInv, PlaceType, Outcome, Steps
        <3>4. ASSUME NEW q \in Procs
              PROVE  /\ pc'[q] \notin Leaving => cur'[q] \in Steps
                     /\ Fits(pc'[q], outcome'[q])
            <4>1. CASE q = p
                BY <3>1, <3>2, <4>1, RecordTypes DEF TypeInv, PlaceType, Fits
            <4>2. CASE q # p
                BY <3>1, <3>2, <4>2 DEF TypeInv, PlaceType
            <4> QED
                BY <4>1, <4>2
        <3> QED
            BY <3>3, <3>4 DEF PlaceType
    <2>3. CopyType'
        BY <1>31, RecordTypes DEF Crash, Forget, Goto, TypeInv, CopyType
    <2>4. GhostType'
        BY <1>31 DEF Crash, ghost, TypeInv, GhostType
    <2> QED
        BY <1>u, <2>1, <2>2, <2>3, <2>4 DEF TypeInv
<1>32. ASSUME NEW s \in Steps, NEW k \in Kinds,
             Decide(s, k) PROVE TypeInv'
    <2>1. UNCHANGED <<run, inv, loc, pc, cur, outcome, unsettled, done, crashes, reconciles>>
        BY <1>32 DEF Decide, db, local, ghost
    <2>2. ReviewType'
        <3>1. ASSUME NEW v \in {"approved", "rejected"},
                     NEW x \in Outputs \cup {NoOutput}
              PROVE  [appr[s][k] EXCEPT !.state = v, !.effective = x] \in Approval
            BY ApprovalType DEF TypeInv, ReviewType
        <3>2. PICK v \in {"approved", "rejected"},
                   x \in IF k = "after" THEN Outputs ELSE {NoOutput} :
                  appr' = [appr EXCEPT ![s][k] =
                      [appr[s][k] EXCEPT !.state = v, !.effective = x]]
            BY <1>32 DEF Decide
        <3>4. x \in Outputs \cup {NoOutput}
            OBVIOUS
        <3>5. appr' = [appr EXCEPT ![s] = [appr[s] EXCEPT ![k] =
                  [appr[s][k] EXCEPT !.state = v, !.effective = x]]]
            BY <3>2
        <3>3. [appr[s] EXCEPT ![k] =
                  [appr[s][k] EXCEPT !.state = v, !.effective = x]]
                  \in [Kinds -> Approval]
            BY <3>1, <3>4 DEF TypeInv, ReviewType
        <3> QED
            BY <3>3, <3>5 DEF TypeInv, ReviewType
    <2> QED
        BY <1>u, <2>1, <2>2 DEF TypeInv
<1>33. ASSUME NEW s \in Steps, NEW k \in Kinds,
             Expire(s, k) PROVE TypeInv'
    <2>1. UNCHANGED <<run, inv, loc, pc, cur, outcome, unsettled, done, crashes, reconciles>>
        BY <1>33 DEF Expire, db, local, ghost
    <2>2. ReviewType'
        <3>1. [appr[s][k] EXCEPT !.late = TRUE] \in Approval
            BY ApprovalType DEF TypeInv, ReviewType
        <3>2. [appr[s] EXCEPT ![k] = [appr[s][k] EXCEPT !.late = TRUE]]
                  \in [Kinds -> Approval]
            BY <3>1 DEF TypeInv, ReviewType
        <3>3. appr' = [appr EXCEPT ![s] =
                  [appr[s] EXCEPT ![k] = [appr[s][k] EXCEPT !.late = TRUE]]]
            BY <1>33 DEF Expire
        <3> QED
            BY <3>2, <3>3 DEF TypeInv, ReviewType
    <2> QED
        BY <1>u, <2>1, <2>2 DEF TypeInv
<1>34. ASSUME NEW s \in Steps, ReconcileRetry(s) PROVE TypeInv'
    <2>1. UNCHANGED <<appr, loc, pc, cur, outcome>>
        BY <1>34 DEF ReconcileRetry, Reconcilable, db, local, ghost
    <2>2. RunType'
        BY <1>34 DEF ReconcileRetry, Reconcilable, TypeInv, RunType, RunStatus
    <2>3. LedgerType'
        BY <1>34, <1>c DEF ReconcileRetry
    <2>4. GhostType'
        BY <1>34 DEF ReconcileRetry, Reconcilable, ghost, TypeInv, GhostType
    <2> QED
        BY <1>u, <2>1, <2>2, <2>3, <2>4 DEF TypeInv
<1>35. ASSUME NEW s \in Steps, ReconcileOutput(s) PROVE TypeInv'
    <2>1. UNCHANGED <<appr, loc, pc, cur, outcome>>
        BY <1>35 DEF ReconcileOutput, Reconcilable, db, local, ghost
    <2>2. RunType'
        BY <1>35 DEF ReconcileOutput, Reconcilable, TypeInv, RunType, RunStatus
    <2>3. LedgerType'
        <3>1. ASSUME NEW o \in Outputs
              PROVE  [inv[s] EXCEPT !.status = "output_ready", !.out = o] \in Record
            BY DEF TypeInv, LedgerType, Record, InvStatus
        <3>2. PICK o \in Outputs : inv' = [inv EXCEPT ![s] =
                  [inv[s] EXCEPT !.status = "output_ready", !.out = o]]
            BY <1>35 DEF ReconcileOutput
        <3> QED
            BY <3>1, <3>2 DEF TypeInv, LedgerType
    <2>4. GhostType'
        BY <1>35 DEF ReconcileOutput, Reconcilable, ghost, TypeInv, GhostType
    <2> QED
        BY <1>u, <2>1, <2>2, <2>3, <2>4 DEF TypeInv
<1>36. ASSUME Cancel PROVE TypeInv'
    <2>1. UNCHANGED <<inv, appr, loc, pc, cur, outcome, unsettled, done, crashes, reconciles>>
        BY <1>36 DEF Cancel, db, local, ghost
    <2>2. RunType'
        BY <1>36 DEF Cancel, TypeInv, RunType, RunStatus, Terminal
    <2> QED
        BY <1>u, <2>1, <2>2 DEF TypeInv
<1>37. ASSUME LeaseExpires PROVE TypeInv'
    <2>1. UNCHANGED <<inv, appr, loc, pc, cur, outcome, unsettled, done, crashes, reconciles>>
        BY <1>37 DEF LeaseExpires, db, local, ghost
    <2>2. RunType'
        BY <1>37 DEF LeaseExpires, TypeInv, RunType
    <2> QED
        BY <1>u, <2>1, <2>2 DEF TypeInv
<1>38. CASE UNCHANGED vars
    BY <1>u, <1>38 DEF vars, TypeInv
<1> QED
    BY <1>1, <1>2, <1>3, <1>4, <1>5, <1>6, <1>7, <1>8, <1>9, <1>10,
       <1>11, <1>12, <1>13, <1>14, <1>15, <1>16, <1>17, <1>18, <1>19,
       <1>20, <1>21, <1>22, <1>23, <1>24, <1>25, <1>26, <1>27, <1>28,
       <1>29, <1>30, <1>31, <1>32, <1>33, <1>34, <1>35, <1>36, <1>37,
       <1>38
    DEF Next, Advance, Disturb

LEMMA Typing == Spec => []TypeInv
<1>1. Init => TypeInv
    BY ConstantsAssumption, RecordTypes
    DEF Init, TypeInv, RunType, LedgerType, ReviewType, PlaceType, CopyType,
        GhostType, RunStatus, Outcome, Outside, Leaving, Fits, Steps
<1>2. QED
    BY <1>1, TypeStep, PTL DEF Spec

(* Every variable of the run keeps its type, for all constants.            *)
THEOREM TypeCorrect == Spec => []TypeOK
<1>1. TypeInv => TypeOK
    BY DEF TypeInv, TypeOK, RunType, LedgerType, ReviewType, PlaceType,
       CopyType, GhostType
<1>2. QED
    BY <1>1, Typing, PTL

-----------------------------------------------------------------------------
(* Reviews, as every step leaves them                                     *)

(* What may become of a review: it is requested by a process at its gate,  *)
(* decided once while it is pending, and expires.                          *)
Requested(s, k) ==
    /\ appr[s][k].state = "none" /\ appr'[s][k].state = "pending"
    /\ \E p \in Procs : /\ cur[p] = s
                        /\ \/ k = "before" /\ pc[p] = "before"
                           \/ k = "tool" /\ pc[p] \in {"review", "suspend"}
                           \/ k = "after" /\ pc[p] = "after"
Decided(s, k) ==
    /\ appr[s][k].state = "pending"
    /\ appr'[s][k].state \in {"approved", "rejected"}
    /\ UNCHANGED <<run, inv, local, ghost, crashes, reconciles>>
Aged(s, k) ==
    /\ appr[s][k].state \in {"pending", "approved"}
    /\ appr'[s][k] = [appr[s][k] EXCEPT !.late = TRUE]

LEMMA ReviewChanges ==
    ASSUME TypeInv, [Next]_vars, NEW s \in Steps, NEW k \in Kinds
    PROVE  \/ appr'[s][k] = appr[s][k]
           \/ Requested(s, k) \/ Decided(s, k) \/ Aged(s, k)
<1>d. /\ DOMAIN appr = Steps /\ \A r \in Steps : DOMAIN appr[r] = Kinds
      /\ {"before", "after", "tool"} = Kinds
      /\ \A r \in Steps, l \in Kinds :
            DOMAIN appr[r][l] = {"state", "late", "payload", "effective"}
      /\ \A p \in Procs : pc[p] \notin Leaving => cur[p] \in Steps
    BY DEF TypeInv, ReviewType, Kinds, Approval, PlaceType
<1>1. CASE UNCHANGED appr
    BY <1>1
<1>2. ASSUME NEW p \in Procs,
             BeforeGate(p) \/ ReviewInterrupt(p) \/ Suspend(p) \/ AfterGate(p)
      PROVE  appr'[s][k] = appr[s][k] \/ Requested(s, k)
    <2>1. CASE BeforeGate(p)
        BY <1>d, <2>1 DEF BeforeGate, Requested, GateRequests, GateHolds,
           GateRefuses, GateOpens, Leaving
    <2>2. CASE ReviewInterrupt(p)
        BY <1>d, <2>2 DEF ReviewInterrupt, Requested, GateRequests, GateHolds,
           GateRefuses, GateOpens, Leaving
    <2>3. CASE Suspend(p)
        BY <1>d, <2>3 DEF Suspend, Requested, GateRequests, GateHolds,
           GateRefuses, GateOpens, Leaving
    <2>4. CASE AfterGate(p)
        BY <1>d, <2>4 DEF AfterGate, Requested, GateRequests, GateHolds,
           GateRefuses, GateOpens, Leaving
    <2> QED
        BY <1>2, <2>1, <2>2, <2>3, <2>4
<1>3. ASSUME NEW r \in Steps, NEW l \in Kinds, Decide(r, l)
      PROVE  appr'[s][k] = appr[s][k] \/ Decided(s, k)
    BY <1>d, <1>3 DEF Decide, Decided
<1>4. ASSUME NEW r \in Steps, NEW l \in Kinds, Expire(r, l)
      PROVE  appr'[s][k] = appr[s][k] \/ Aged(s, k)
    BY <1>d, <1>4 DEF Expire, Aged
<1>5. ASSUME NEW p \in Procs, Advance(p)
      PROVE  \/ UNCHANGED appr
             \/ BeforeGate(p) \/ ReviewInterrupt(p) \/ Suspend(p) \/ AfterGate(p)
    BY <1>5
    DEF Advance, Poll, Claim, ClaimRefused, MarkConflict, Walk, ReadRecord,
        CreateRecord, StartAttempt, EnterHandler, HandlerReturns,
        HandlerFails, HandlerUnresolved, HandlerInterrupts, Paused,
        SaveUncertain, SaveFailed, Retry, SaveOutput, Commit, SaveRefused,
        WalkDone, Unwind, Finalize, db
<1> QED
    BY <1>1, <1>2, <1>3, <1>4, <1>5
    DEF Next, Disturb, Resume, Heartbeat, TaskCancelled, Crash, Cancel,
        LeaseExpires, ReconcileRetry, ReconcileOutput, db, vars

(* Nothing takes a decision back.                                          *)
LEMMA DecisionStays ==
    ASSUME TypeInv, [Next]_vars, NEW s \in Steps, NEW k \in Kinds,
           appr[s][k].state \in {"approved", "rejected"}
    PROVE  /\ appr'[s][k].state = appr[s][k].state
           /\ appr'[s][k].effective = appr[s][k].effective
<1>1. ~Requested(s, k) /\ ~Decided(s, k)
    BY DEF Requested, Decided
<1>2. DOMAIN appr[s][k] = {"state", "late", "payload", "effective"}
    BY DEF TypeInv, ReviewType, Approval
<1>3. appr'[s][k] = appr[s][k] \/ Aged(s, k)
    BY <1>1, ReviewChanges
<1> QED
    BY <1>2, <1>3 DEF Aged

-----------------------------------------------------------------------------
(* The order of the steps                                                  *)

(* Every process has seen the steps in front of it succeed.                *)
Behind == \A p \in Procs : 1..(cur[p] - 1) \subseteq done

(* Success is concluded only from a finished walk.                         *)
Concluded ==
    /\ \A p \in Procs : pc[p] = "done" \/ outcome[p] = "succeeded"
                            => done = Steps
    /\ run.status = "succeeded" => done = Steps

(* `done` remembers every success the ledger shows, and the ledger shows   *)
(* nothing ahead of it.                                                    *)
Recorded ==
    \A s \in Steps :
        /\ inv[s].status = "succeeded" => s \in done
        /\ inv[s].status # "none" \/ unsettled[s] > 0
               => 1..(s - 1) \subseteq done

(* No process is about to save a copy of a success it has read.            *)
CopyIsOpen ==
    \A p \in Procs : pc[p] \in {"uncertain", "fail", "output"}
                         => loc[p].status # "succeeded"

OrderInv == Behind /\ Concluded /\ Recorded /\ CopyIsOpen

LEMMA Domains ==
    TypeInv => /\ DOMAIN pc = Procs /\ DOMAIN cur = Procs
               /\ DOMAIN loc = Procs /\ DOMAIN outcome = Procs
               /\ DOMAIN inv = Steps /\ DOMAIN unsettled = Steps
               /\ DOMAIN run = {"status", "owner", "live", "cancel",
                                "unclear", "count"}
               /\ \A p \in Procs : DOMAIN loc[p] = DOMAIN NoRecord
               /\ \A s \in Steps : DOMAIN inv[s] = DOMAIN NoRecord
               /\ "status" \in DOMAIN NoRecord
    BY DEF TypeInv, PlaceType, CopyType, LedgerType, GhostType, RunType,
       Record, NoRecord

(* Going on to the next step, or ending the walk, after a success.          *)
LEMMA NextStepOrder ==
    ASSUME PlaceType, Behind, done \subseteq Steps, NEW p \in Procs,
           cur[p] \in Steps, NextStep(p), done \subseteq done',
           cur[p] \in done', done' \subseteq Steps
    PROVE  Behind' /\ (pc'[p] = "done" => done' = Steps)
<1>1. DOMAIN cur = Procs /\ DOMAIN pc = Procs /\ cur[p] \in Int /\ N \in Nat
    BY ConstantsAssumption DEF PlaceType, Steps
<1>2. 1..cur[p] = 1..(cur[p] - 1) \cup {cur[p]}
    BY <1>1 DEF Steps
<1>3. 1..cur[p] \subseteq done'
    BY <1>2 DEF Behind
<1>4. cur' = [cur EXCEPT ![p] = cur[p] + 1] /\ (cur[p] + 1) - 1 = cur[p]
    BY <1>1 DEF NextStep
<1>5. Behind'
    BY <1>1, <1>3, <1>4 DEF Behind
<1>6. pc'[p] = "done" => cur[p] = N
    BY <1>1 DEF NextStep, Goto
<1> QED
    BY <1>3, <1>5, <1>6 DEF Steps

LEMMA OrderStep == TypeInv /\ OrderInv /\ [Next]_vars => OrderInv'
<1> SUFFICES ASSUME TypeInv, OrderInv, [Next]_vars PROVE OrderInv'
    OBVIOUS
<1>d. /\ DOMAIN pc = Procs /\ DOMAIN cur = Procs
      /\ DOMAIN loc = Procs /\ DOMAIN outcome = Procs
      /\ DOMAIN inv = Steps /\ DOMAIN unsettled = Steps
      /\ DOMAIN run = {"status", "owner", "live", "cancel", "unclear", "count"}
      /\ \A p \in Procs : DOMAIN loc[p] = DOMAIN NoRecord
      /\ \A s \in Steps : DOMAIN inv[s] = DOMAIN NoRecord
      /\ "status" \in DOMAIN NoRecord
      /\ \A p \in Procs : cur[p] \in 1..(N + 1)
      /\ \A p \in Procs : pc[p] \notin Leaving => cur[p] \in Steps
      /\ \A s \in Steps : unsettled[s] \in Nat
      /\ done \subseteq Steps
    BY Domains DEF TypeInv, PlaceType, GhostType
<1> USE DEF OrderInv, Behind, Concluded, Recorded, CopyIsOpen, Leaving, db,
           local, ghost
<1>1. ASSUME NEW p \in Procs, Poll(p) PROVE OrderInv'
    BY <1>1, <1>d DEF Poll, Goto
<1>2. ASSUME NEW p \in Procs, Claim(p) PROVE OrderInv'
    BY <1>2, <1>d DEF Claim, Goto
<1>3. ASSUME NEW p \in Procs, ClaimRefused(p) PROVE OrderInv'
    BY <1>3, <1>d DEF ClaimRefused, LeaveWithConflict, Goto
<1>4. ASSUME NEW p \in Procs, MarkConflict(p) PROVE OrderInv'
    BY <1>4, <1>d DEF MarkConflict, Goto
<1>5. ASSUME NEW p \in Procs, Walk(p) PROVE OrderInv'
    BY <1>5, <1>d DEF Walk, RaiseUnauthorised, Raise, Goto
<1>6. ASSUME NEW p \in Procs, ReadRecord(p) PROVE OrderInv'
    <2>1. cur[p] \in Steps /\ UNCHANGED <<run, inv, done, unsettled>>
        BY <1>6, <1>d DEF ReadRecord
    <2>2. CASE inv[cur[p]].status = "succeeded"
        <3>0. NextStep(p) /\ UNCHANGED outcome
            BY <1>6, <2>2 DEF ReadRecord, Unclear
        <3>1. cur[p] \in done
            BY <2>1, <2>2
        <3>2. Behind' /\ (pc'[p] = "done" => done' = Steps)
            BY <1>d, <2>1, <3>0, <3>1, NextStepOrder DEF TypeInv
        <3>3. Concluded' /\ Recorded' /\ CopyIsOpen'
            BY <1>6, <1>d, <2>1, <3>0, <3>2 DEF ReadRecord, NextStep, Goto
        <3> QED
            BY <3>2, <3>3
    <2>3. CASE inv[cur[p]].status # "succeeded"
        BY <1>6, <1>d, <2>1, <2>3 DEF ReadRecord, AfterOutput, Raise, Goto
    <2> QED
        BY <2>2, <2>3
<1>7. ASSUME NEW p \in Procs, BeforeGate(p) PROVE OrderInv'
    BY <1>7, <1>d
    DEF BeforeGate, GateRequests, GateHolds, GateRefuses, GateOpens, Raise,
        Goto
<1>8. ASSUME NEW p \in Procs, CreateRecord(p) PROVE OrderInv'
    BY <1>8, <1>d DEF CreateRecord, NoRecord, Raise, Goto
<1>9. ASSUME NEW p \in Procs, ReviewInterrupt(p) PROVE OrderInv'
    BY <1>9, <1>d
    DEF ReviewInterrupt, GateRequests, GateHolds, GateRefuses, GateOpens,
        Raise, Goto
<1>10. ASSUME NEW p \in Procs, StartAttempt(p) PROVE OrderInv'
    BY <1>10, <1>d DEF StartAttempt, Save, Attempted, Goto
<1>11. ASSUME NEW p \in Procs, EnterHandler(p) PROVE OrderInv'
    BY <1>11, <1>d DEF EnterHandler, LosesAuthority, Unresolved, GiveUp, Goto
<1>12. ASSUME NEW p \in Procs, HandlerReturns(p) PROVE OrderInv'
    <2>1. UNCHANGED <<run, inv, cur, done, unsettled>>
        BY <1>12 DEF HandlerReturns
    <2>2. Behind' /\ Recorded'
        BY <2>1
    <2>3. /\ \E l \in {"output", "uncertain"} : pc' = [pc EXCEPT ![p] = l]
          /\ \E r : loc' = [loc EXCEPT ![p] = r]
          /\ loc'[p].status \in {"output_ready", "uncertain"}
          /\ \/ UNCHANGED outcome
             \/ \E o \in {"cancelled", "uncertain"} :
                    outcome' = [outcome EXCEPT ![p] = o]
        <3>1. CASE Authorised(p)
            <4>1. PICK x \in Outputs, d \in BOOLEAN : loc' = [loc EXCEPT ![p] =
                      [loc[p] EXCEPT !.status = "output_ready", !.out = x,
                                     !.degraded = d]]
                BY <1>12, <3>1 DEF HandlerReturns
            <4> QED
                BY <1>12, <1>d, <3>1, <4>1 DEF HandlerReturns, Goto
        <3>2. CASE ~Authorised(p)
            BY <1>12, <1>d, <3>2
            DEF HandlerReturns, LosesAuthority, Unresolved, GiveUp, Goto
        <3> QED
            BY <3>1, <3>2
    <2>4. Concluded' /\ CopyIsOpen'
        BY <1>d, <2>1, <2>3
    <2> QED
        BY <2>2, <2>4
<1>13. ASSUME NEW p \in Procs, HandlerFails(p) PROVE OrderInv'
    BY <1>13, <1>d DEF HandlerFails, GiveUp, Goto
<1>14. ASSUME NEW p \in Procs, HandlerUnresolved(p) PROVE OrderInv'
    BY <1>14, <1>d DEF HandlerUnresolved, Unresolved, GiveUp, Goto
<1>15. ASSUME NEW p \in Procs, HandlerInterrupts(p) PROVE OrderInv'
    BY <1>15, <1>d DEF HandlerInterrupts, Goto
<1>16. ASSUME NEW p \in Procs, Suspend(p) PROVE OrderInv'
    BY <1>16, <1>d
    DEF Suspend, GateRequests, GateHolds, GateRefuses, GateOpens, GiveUp, Goto
<1>17. ASSUME NEW p \in Procs, Paused(p) PROVE OrderInv'
    BY <1>17, <1>d DEF Paused, Unresolved, GiveUp, Raise, Goto
<1>18. ASSUME NEW p \in Procs, SaveUncertain(p) PROVE OrderInv'
    BY <1>18, <1>d DEF SaveUncertain, Save, Goto
<1>19. ASSUME NEW p \in Procs, SaveFailed(p) PROVE OrderInv'
    BY <1>19, <1>d DEF SaveFailed, Save, Goto
<1>20. ASSUME NEW p \in Procs, Retry(p) PROVE OrderInv'
    BY <1>20, <1>d DEF Retry, Goto
<1>21. ASSUME NEW p \in Procs, SaveOutput(p) PROVE OrderInv'
    BY <1>21, <1>d DEF SaveOutput, Save, AfterOutput, Goto
<1>22. ASSUME NEW p \in Procs, AfterGate(p) PROVE OrderInv'
    BY <1>22, <1>d
    DEF AfterGate, GateRequests, GateHolds, GateRefuses, GateOpens, Raise,
        Goto
<1>23. ASSUME NEW p \in Procs, Commit(p) PROVE OrderInv'
    <2>1. /\ cur[p] \in Steps /\ done' = done \cup {cur[p]}
          /\ UNCHANGED <<run, outcome, unsettled>>
        BY <1>23, <1>d DEF Commit
    <2>2. Behind' /\ (pc'[p] = "done" => done' = Steps)
        BY <1>23, <1>d, <2>1, NextStepOrder DEF Commit, TypeInv
    <2>3. Recorded'
        BY <1>23, <1>d, <2>1 DEF Commit, Save
    <2>4. Concluded' /\ CopyIsOpen'
        <3>1. \E l \in {"done", "walk"} : pc' = [pc EXCEPT ![p] = l]
            BY <1>23 DEF Commit, NextStep, Goto
        <3>2. \A q \in Procs : q # p => loc'[q] = loc[q] /\ pc'[q] = pc[q]
            BY <1>23, <1>d, <3>1 DEF Commit, Save
        <3> QED
            BY <1>d, <2>1, <2>2, <3>1, <3>2
    <2> QED
        BY <2>2, <2>3, <2>4
<1>24. ASSUME NEW p \in Procs, SaveRefused(p) PROVE OrderInv'
    BY <1>24, <1>d DEF SaveRefused, Raise, Goto
<1>25. ASSUME NEW p \in Procs, WalkDone(p) PROVE OrderInv'
    BY <1>25, <1>d DEF WalkDone, RaiseUnauthorised, Raise, Goto
<1>26. ASSUME NEW p \in Procs, Unwind(p) PROVE OrderInv'
    BY <1>26, <1>d DEF Unwind, Raise, Goto
<1>27. ASSUME NEW p \in Procs, Finalize(p) PROVE OrderInv'
    <2>1. /\ UNCHANGED <<inv, done, unsettled>>
          /\ cur' = [cur EXCEPT ![p] = 1]
          /\ outcome' = [outcome EXCEPT ![p] = "none"]
          /\ \E l \in {"idle", "conflict"} : pc' = [pc EXCEPT ![p] = l]
          /\ loc' = [loc EXCEPT ![p] = NoRecord]
          /\ run'.status \in {run.status, outcome[p]}
        BY <1>27, <1>d DEF Finalize, Forget, LeaveWithConflict, Goto
    <2>2. Behind' /\ Recorded'
        BY <1>d, <2>1
    <2>3. Concluded' /\ CopyIsOpen'
        BY <1>d, <2>1
    <2> QED
        BY <2>2, <2>3
<1>28. ASSUME NEW p \in Procs, Resume(p) PROVE OrderInv'
    BY <1>28, <1>d DEF Resume, Goto
<1>29. ASSUME NEW p \in Procs, Heartbeat(p) PROVE OrderInv'
    BY <1>29, <1>d DEF Heartbeat
<1>30. ASSUME NEW p \in Procs, TaskCancelled(p) PROVE OrderInv'
    BY <1>30, <1>d DEF TaskCancelled, Unresolved, GiveUp, Goto
<1>31. ASSUME NEW p \in Procs, Crash(p) PROVE OrderInv'
    BY <1>31, <1>d DEF Crash, Forget, Goto, NoRecord
<1>32. ASSUME NEW s \in Steps, NEW k \in Kinds, Decide(s, k)
      PROVE  OrderInv'
    BY <1>32, <1>d DEF Decide
<1>33. ASSUME NEW s \in Steps, NEW k \in Kinds, Expire(s, k)
      PROVE  OrderInv'
    BY <1>33, <1>d DEF Expire
<1>34. ASSUME NEW s \in Steps, ReconcileRetry(s) PROVE OrderInv'
    <2>1. /\ UNCHANGED <<pc, cur, loc, outcome, done>>
          /\ run'.status = "queued"
          /\ inv[s].status # "none"
        BY <1>34, <1>d DEF ReconcileRetry, Reconcilable, Unclear
    <2>2. /\ inv'[s].status = "pending"
          /\ \A r \in Steps : r # s => inv'[r] = inv[r]
          /\ \A r \in Steps : unsettled'[r] > 0 => unsettled[r] > 0
        BY <1>34, <1>d DEF ReconcileRetry, Reconcilable, NoRecord
    <2>3. Recorded'
        BY <2>1, <2>2
    <2> QED
        BY <2>1, <2>3
<1>35. ASSUME NEW s \in Steps, ReconcileOutput(s) PROVE OrderInv'
    <2>1. /\ UNCHANGED <<pc, cur, loc, outcome, done>>
          /\ run'.status = "queued"
          /\ inv[s].status # "none"
        BY <1>35, <1>d DEF ReconcileOutput, Reconcilable, Unclear
    <2>2. /\ inv'[s].status = "output_ready"
          /\ \A r \in Steps : r # s => inv'[r] = inv[r]
          /\ \A r \in Steps : unsettled'[r] > 0 => unsettled[r] > 0
        BY <1>35, <1>d DEF ReconcileOutput, Reconcilable, NoRecord
    <2>3. Recorded'
        BY <2>1, <2>2
    <2> QED
        BY <2>1, <2>3
<1>36. ASSUME Cancel PROVE OrderInv'
    BY <1>36, <1>d DEF Cancel, Terminal
<1>37. ASSUME LeaseExpires PROVE OrderInv'
    BY <1>37, <1>d DEF LeaseExpires
<1>38. CASE UNCHANGED vars
    BY <1>38 DEF vars
<1> QED
    BY <1>1, <1>2, <1>3, <1>4, <1>5, <1>6, <1>7, <1>8, <1>9, <1>10,
       <1>11, <1>12, <1>13, <1>14, <1>15, <1>16, <1>17, <1>18, <1>19,
       <1>20, <1>21, <1>22, <1>23, <1>24, <1>25, <1>26, <1>27, <1>28,
       <1>29, <1>30, <1>31, <1>32, <1>33, <1>34, <1>35, <1>36, <1>37,
       <1>38
    DEF Next, Advance, Disturb

LEMMA Ordered == Spec => []OrderInv
<1>1. Init => OrderInv
    BY ConstantsAssumption
    DEF Init, OrderInv, Behind, Concluded, Recorded, CopyIsOpen, NoRecord
<1>2. QED
    BY <1>1, OrderStep, Typing, PTL DEF Spec

(* No step is recorded, let alone executed, before all the steps in front  *)
(* of it succeeded.                                                        *)
THEOREM OrderCorrect == Spec => []StepsInOrder
<1>1. OrderInv => StepsInOrder
    BY DEF OrderInv, Recorded, StepsInOrder
<1>2. QED
    BY <1>1, Ordered, PTL

(* A run reports success only when every step of the sequence succeeded.   *)
THEOREM SuccessCorrect == Spec => []SuccessIsComplete
<1>1. OrderInv => SuccessIsComplete
    BY DEF OrderInv, Concluded, SuccessIsComplete
<1>2. QED
    BY <1>1, Ordered, PTL

-----------------------------------------------------------------------------
(* Approval beforehand                                                     *)

Approved(s) == appr[s]["before"].state = "approved"

(* The labels of _step behind the approval of the step.                    *)
PastGate == {"create", "review", "start", "enter", "handler", "suspend",
             "paused", "uncertain", "fail", "backoff", "output", "after",
             "commit"}

ReviewInv ==
    /\ \A s \in BeforeGated :
          inv[s].status # "none" \/ unsettled[s] > 0 => Approved(s)
    /\ \A p \in Procs :
          pc[p] \in PastGate /\ cur[p] \in BeforeGated => Approved(cur[p])

LEMMA ReviewStep == TypeInv /\ ReviewInv /\ [Next]_vars => ReviewInv'
<1> SUFFICES ASSUME TypeInv, ReviewInv, [Next]_vars PROVE ReviewInv'
    OBVIOUS
<1>d. /\ DOMAIN pc = Procs /\ DOMAIN cur = Procs
      /\ DOMAIN loc = Procs /\ DOMAIN outcome = Procs
      /\ DOMAIN inv = Steps /\ DOMAIN unsettled = Steps
      /\ \A p \in Procs : "status" \in DOMAIN loc[p]
      /\ \A s \in Steps : "status" \in DOMAIN inv[s]
      /\ \A p \in Procs : pc[p] \notin Leaving => cur[p] \in Steps
      /\ \A s \in Steps : unsettled[s] \in Nat
      /\ BeforeGated \subseteq Steps
    BY ConstantsAssumption DEF TypeInv, PlaceType, CopyType, LedgerType,
       GhostType, Record
<1>e. \A s \in Steps : Approved(s) => Approved(s)'
    BY DecisionStays DEF Approved, Kinds
<1> USE DEF ReviewInv, PastGate, Leaving, db, local, ghost
<1>1. ASSUME NEW p \in Procs, Poll(p) PROVE ReviewInv'
    BY <1>1, <1>d, <1>e DEF Poll, Goto
<1>2. ASSUME NEW p \in Procs, Claim(p) PROVE ReviewInv'
    BY <1>2, <1>d, <1>e DEF Claim, Goto
<1>3. ASSUME NEW p \in Procs, ClaimRefused(p) PROVE ReviewInv'
    BY <1>3, <1>d, <1>e DEF ClaimRefused, LeaveWithConflict, Goto
<1>4. ASSUME NEW p \in Procs, MarkConflict(p) PROVE ReviewInv'
    BY <1>4, <1>d, <1>e DEF MarkConflict, Goto
<1>5. ASSUME NEW p \in Procs, Walk(p) PROVE ReviewInv'
    BY <1>5, <1>d, <1>e DEF Walk, RaiseUnauthorised, Raise, Goto
<1>6. ASSUME NEW p \in Procs, ReadRecord(p) PROVE ReviewInv'
    BY <1>6, <1>d, <1>e DEF ReadRecord, NextStep, AfterOutput, Raise, Goto
<1>7. ASSUME NEW p \in Procs, BeforeGate(p) PROVE ReviewInv'
    <2>1. /\ cur[p] \in Steps /\ UNCHANGED <<inv, cur, unsettled>>
          /\ pc'[p] = "create" => Approved(cur[p])
          /\ \E l \in {"create", "final"} : pc' = [pc EXCEPT ![p] = l]
        BY <1>7, <1>d DEF BeforeGate, GateOpens, Approved, Raise, Goto
    <2> QED
        BY <1>d, <1>e, <2>1
<1>8. ASSUME NEW p \in Procs, CreateRecord(p) PROVE ReviewInv'
    BY <1>8, <1>d, <1>e DEF CreateRecord, NoRecord, Raise, Goto
<1>9. ASSUME NEW p \in Procs, ReviewInterrupt(p) PROVE ReviewInv'
    BY <1>9, <1>d, <1>e
    DEF ReviewInterrupt, GateRequests, GateHolds, GateRefuses, GateOpens,
        Raise, Goto
<1>10. ASSUME NEW p \in Procs, StartAttempt(p) PROVE ReviewInv'
    BY <1>10, <1>d, <1>e DEF StartAttempt, Save, Attempted, Goto
<1>11. ASSUME NEW p \in Procs, EnterHandler(p) PROVE ReviewInv'
    BY <1>11, <1>d, <1>e
    DEF EnterHandler, LosesAuthority, Unresolved, GiveUp, Goto
<1>12. ASSUME NEW p \in Procs, HandlerReturns(p) PROVE ReviewInv'
    BY <1>12, <1>d, <1>e
    DEF HandlerReturns, LosesAuthority, Unresolved, GiveUp, Goto
<1>13. ASSUME NEW p \in Procs, HandlerFails(p) PROVE ReviewInv'
    BY <1>13, <1>d, <1>e DEF HandlerFails, GiveUp, Goto
<1>14. ASSUME NEW p \in Procs, HandlerUnresolved(p) PROVE ReviewInv'
    BY <1>14, <1>d, <1>e DEF HandlerUnresolved, Unresolved, GiveUp, Goto
<1>15. ASSUME NEW p \in Procs, HandlerInterrupts(p) PROVE ReviewInv'
    BY <1>15, <1>d, <1>e DEF HandlerInterrupts, Goto
<1>16. ASSUME NEW p \in Procs, Suspend(p) PROVE ReviewInv'
    BY <1>16, <1>d, <1>e
    DEF Suspend, GateRequests, GateHolds, GateRefuses, GateOpens, GiveUp, Goto
<1>17. ASSUME NEW p \in Procs, Paused(p) PROVE ReviewInv'
    BY <1>17, <1>d, <1>e DEF Paused, Unresolved, GiveUp, Raise, Goto
<1>18. ASSUME NEW p \in Procs, SaveUncertain(p) PROVE ReviewInv'
    BY <1>18, <1>d, <1>e DEF SaveUncertain, Save, Goto
<1>19. ASSUME NEW p \in Procs, SaveFailed(p) PROVE ReviewInv'
    BY <1>19, <1>d, <1>e DEF SaveFailed, Save, Goto
<1>20. ASSUME NEW p \in Procs, Retry(p) PROVE ReviewInv'
    BY <1>20, <1>d, <1>e DEF Retry, Goto
<1>21. ASSUME NEW p \in Procs, SaveOutput(p) PROVE ReviewInv'
    BY <1>21, <1>d, <1>e DEF SaveOutput, Save, AfterOutput, Goto
<1>22. ASSUME NEW p \in Procs, AfterGate(p) PROVE ReviewInv'
    BY <1>22, <1>d, <1>e
    DEF AfterGate, GateRequests, GateHolds, GateRefuses, GateOpens, Raise,
        Goto
<1>23. ASSUME NEW p \in Procs, Commit(p) PROVE ReviewInv'
    BY <1>23, <1>d, <1>e DEF Commit, Save, NextStep, Goto
<1>24. ASSUME NEW p \in Procs, SaveRefused(p) PROVE ReviewInv'
    BY <1>24, <1>d, <1>e DEF SaveRefused, Raise, Goto
<1>25. ASSUME NEW p \in Procs, WalkDone(p) PROVE ReviewInv'
    BY <1>25, <1>d, <1>e DEF WalkDone, RaiseUnauthorised, Raise, Goto
<1>26. ASSUME NEW p \in Procs, Unwind(p) PROVE ReviewInv'
    BY <1>26, <1>d, <1>e DEF Unwind, Raise, Goto
<1>27. ASSUME NEW p \in Procs, Finalize(p) PROVE ReviewInv'
    BY <1>27, <1>d, <1>e
    DEF Finalize, Forget, LeaveWithConflict, Goto, NoRecord
<1>28. ASSUME NEW p \in Procs, Resume(p) PROVE ReviewInv'
    BY <1>28, <1>d, <1>e DEF Resume, Goto
<1>29. ASSUME NEW p \in Procs, Heartbeat(p) PROVE ReviewInv'
    BY <1>29, <1>d, <1>e DEF Heartbeat
<1>30. ASSUME NEW p \in Procs, TaskCancelled(p) PROVE ReviewInv'
    BY <1>30, <1>d, <1>e DEF TaskCancelled, Unresolved, GiveUp, Goto
<1>31. ASSUME NEW p \in Procs, Crash(p) PROVE ReviewInv'
    BY <1>31, <1>d, <1>e DEF Crash, Forget, Goto, NoRecord
<1>32. ASSUME NEW s \in Steps, NEW k \in Kinds, Decide(s, k)
      PROVE  ReviewInv'
    BY <1>32, <1>d, <1>e DEF Decide
<1>33. ASSUME NEW s \in Steps, NEW k \in Kinds, Expire(s, k)
      PROVE  ReviewInv'
    BY <1>33, <1>d, <1>e DEF Expire
<1>34. ASSUME NEW s \in Steps, ReconcileRetry(s) PROVE ReviewInv'
    <2>1. UNCHANGED <<pc, cur>> /\ inv[s].status # "none"
        BY <1>34, <1>d DEF ReconcileRetry, Reconcilable, Unclear
    <2>2. /\ \A r \in Steps : r # s => inv'[r] = inv[r]
          /\ \A r \in Steps : unsettled'[r] > 0 => unsettled[r] > 0
        BY <1>34, <1>d DEF ReconcileRetry, Reconcilable
    <2> QED
        BY <1>d, <1>e, <2>1, <2>2
<1>35. ASSUME NEW s \in Steps, ReconcileOutput(s) PROVE ReviewInv'
    <2>1. UNCHANGED <<pc, cur>> /\ inv[s].status # "none"
        BY <1>35, <1>d DEF ReconcileOutput, Reconcilable, Unclear
    <2>2. /\ \A r \in Steps : r # s => inv'[r] = inv[r]
          /\ \A r \in Steps : unsettled'[r] > 0 => unsettled[r] > 0
        BY <1>35, <1>d DEF ReconcileOutput, Reconcilable
    <2> QED
        BY <1>d, <1>e, <2>1, <2>2
<1>36. ASSUME Cancel PROVE ReviewInv'
    BY <1>36, <1>d, <1>e DEF Cancel, Terminal
<1>37. ASSUME LeaseExpires PROVE ReviewInv'
    BY <1>37, <1>d, <1>e DEF LeaseExpires
<1>38. CASE UNCHANGED vars
    BY <1>38, <1>d, <1>e DEF vars
<1> QED
    BY <1>1, <1>2, <1>3, <1>4, <1>5, <1>6, <1>7, <1>8, <1>9, <1>10,
       <1>11, <1>12, <1>13, <1>14, <1>15, <1>16, <1>17, <1>18, <1>19,
       <1>20, <1>21, <1>22, <1>23, <1>24, <1>25, <1>26, <1>27, <1>28,
       <1>29, <1>30, <1>31, <1>32, <1>33, <1>34, <1>35, <1>36, <1>37,
       <1>38
    DEF Next, Advance, Disturb

LEMMA Reviewed == Spec => []ReviewInv
<1>1. Init => ReviewInv
    BY ConstantsAssumption DEF Init, ReviewInv, PastGate, NoRecord
<1>2. QED
    BY <1>1, ReviewStep, Typing, PTL DEF Spec

(* A step whose policy asks for approval beforehand is neither recorded    *)
(* nor executed before a reviewer approved it.                             *)
THEOREM ReviewCorrect == Spec => []NoUnreviewedEffect
<1>1. ReviewInv => NoUnreviewedEffect
    BY DEF ReviewInv, NoUnreviewedEffect, Approved
<1>2. QED
    BY <1>1, Reviewed, PTL

-----------------------------------------------------------------------------
(* The retry policy                                                        *)

(* Attempts a step may have used: the policy's and one per reconciliation. *)
Allowed == RetryAttempts + reconciles

(* A record that waits for an attempt has one left, also in the copy of    *)
(* the process that is about to start it.                                  *)
BudgetInv ==
    /\ \A s \in Steps :
          /\ inv[s].attempt <= Allowed
          /\ inv[s].status \in {"none", "pending"} => inv[s].attempt < Allowed
    /\ \A p \in Procs :
          /\ loc[p].attempt <= Allowed
          /\ pc[p] \in {"start", "backoff"} /\ loc[p].status # "interrupted"
                => loc[p].attempt < Allowed
          /\ pc[p] = "review" => loc[p].status = "interrupted"
          /\ pc[p] \in {"uncertain", "fail", "output"}
                => loc[p].status \notin {"none", "pending"}

LEMMA BudgetStep == TypeInv /\ BudgetInv /\ [Next]_vars => BudgetInv'
<1> SUFFICES ASSUME TypeInv, BudgetInv, [Next]_vars PROVE BudgetInv'
    OBVIOUS
<1>d. /\ DOMAIN pc = Procs /\ DOMAIN cur = Procs
      /\ DOMAIN loc = Procs /\ DOMAIN inv = Steps
      /\ \A p \in Procs : /\ "status" \in DOMAIN loc[p]
                          /\ "attempt" \in DOMAIN loc[p]
                          /\ loc[p].attempt \in Nat
      /\ \A s \in Steps : /\ "status" \in DOMAIN inv[s]
                          /\ "attempt" \in DOMAIN inv[s]
                          /\ inv[s].attempt \in Nat
      /\ \A p \in Procs : pc[p] \notin Leaving => cur[p] \in Steps
      /\ reconciles \in Nat /\ RetryAttempts \in Nat /\ RetryAttempts > 0
    BY ConstantsAssumption DEF TypeInv, PlaceType, CopyType, LedgerType,
       GhostType, Record
<1> USE DEF BudgetInv, Allowed, Leaving, db, local, ghost
<1>1. ASSUME NEW p \in Procs, Poll(p) PROVE BudgetInv'
    BY <1>1, <1>d DEF Poll, Goto
<1>2. ASSUME NEW p \in Procs, Claim(p) PROVE BudgetInv'
    BY <1>2, <1>d DEF Claim, Goto
<1>3. ASSUME NEW p \in Procs, ClaimRefused(p) PROVE BudgetInv'
    BY <1>3, <1>d DEF ClaimRefused, LeaveWithConflict, Goto
<1>4. ASSUME NEW p \in Procs, MarkConflict(p) PROVE BudgetInv'
    BY <1>4, <1>d DEF MarkConflict, Goto
<1>5. ASSUME NEW p \in Procs, Walk(p) PROVE BudgetInv'
    BY <1>5, <1>d DEF Walk, RaiseUnauthorised, Raise, Goto
<1>6. ASSUME NEW p \in Procs, ReadRecord(p) PROVE BudgetInv'
    BY <1>6, <1>d DEF ReadRecord, NextStep, AfterOutput, Raise, Goto
<1>7. ASSUME NEW p \in Procs, BeforeGate(p) PROVE BudgetInv'
    BY <1>7, <1>d
    DEF BeforeGate, GateRequests, GateHolds, GateRefuses, GateOpens, Raise,
        Goto
<1>8. ASSUME NEW p \in Procs, CreateRecord(p) PROVE BudgetInv'
    BY <1>8, <1>d DEF CreateRecord, NoRecord, Raise, Goto
<1>9. ASSUME NEW p \in Procs, ReviewInterrupt(p) PROVE BudgetInv'
    BY <1>9, <1>d
    DEF ReviewInterrupt, GateRequests, GateHolds, GateRefuses, GateOpens,
        Raise, Goto
<1>10. ASSUME NEW p \in Procs, StartAttempt(p) PROVE BudgetInv'
    BY <1>10, <1>d DEF StartAttempt, Save, Attempted, Goto
<1>11. ASSUME NEW p \in Procs, EnterHandler(p) PROVE BudgetInv'
    BY <1>11, <1>d DEF EnterHandler, LosesAuthority, Unresolved, GiveUp, Goto
<1>12. ASSUME NEW p \in Procs, HandlerReturns(p) PROVE BudgetInv'
    <2>1. UNCHANGED <<inv, cur, reconciles>> /\ pc[p] = "handler"
        BY <1>12 DEF HandlerReturns
    <2>2. /\ \E l \in {"output", "uncertain"} : pc' = [pc EXCEPT ![p] = l]
          /\ \E r : loc' = [loc EXCEPT ![p] = r]
          /\ loc'[p].status \in {"output_ready", "uncertain"}
          /\ loc'[p].attempt = loc[p].attempt
        <3>1. CASE Authorised(p)
            <4>1. PICK x \in Outputs, d \in BOOLEAN : loc' = [loc EXCEPT ![p] =
                      [loc[p] EXCEPT !.status = "output_ready", !.out = x,
                                     !.degraded = d]]
                BY <1>12, <3>1 DEF HandlerReturns
            <4> QED
                BY <1>12, <1>d, <3>1, <4>1 DEF HandlerReturns, Goto
        <3>2. CASE ~Authorised(p)
            BY <1>12, <1>d, <3>2
            DEF HandlerReturns, LosesAuthority, Unresolved, GiveUp, Goto
        <3> QED
            BY <3>1, <3>2
    <2> QED
        BY <1>d, <2>1, <2>2
<1>13. ASSUME NEW p \in Procs, HandlerFails(p) PROVE BudgetInv'
    BY <1>13, <1>d DEF HandlerFails, GiveUp, Goto
<1>14. ASSUME NEW p \in Procs, HandlerUnresolved(p) PROVE BudgetInv'
    BY <1>14, <1>d DEF HandlerUnresolved, Unresolved, GiveUp, Goto
<1>15. ASSUME NEW p \in Procs, HandlerInterrupts(p) PROVE BudgetInv'
    BY <1>15, <1>d DEF HandlerInterrupts, Goto
<1>16. ASSUME NEW p \in Procs, Suspend(p) PROVE BudgetInv'
    BY <1>16, <1>d
    DEF Suspend, GateRequests, GateHolds, GateRefuses, GateOpens, GiveUp, Goto
<1>17. ASSUME NEW p \in Procs, Paused(p) PROVE BudgetInv'
    BY <1>17, <1>d DEF Paused, Unresolved, GiveUp, Raise, Goto
<1>18. ASSUME NEW p \in Procs, SaveUncertain(p) PROVE BudgetInv'
    BY <1>18, <1>d DEF SaveUncertain, Save, Goto
<1>19. ASSUME NEW p \in Procs, SaveFailed(p) PROVE BudgetInv'
    BY <1>19, <1>d DEF SaveFailed, Save, Goto
<1>20. ASSUME NEW p \in Procs, Retry(p) PROVE BudgetInv'
    BY <1>20, <1>d DEF Retry, Goto
<1>21. ASSUME NEW p \in Procs, SaveOutput(p) PROVE BudgetInv'
    BY <1>21, <1>d DEF SaveOutput, Save, AfterOutput, Goto
<1>22. ASSUME NEW p \in Procs, AfterGate(p) PROVE BudgetInv'
    BY <1>22, <1>d
    DEF AfterGate, GateRequests, GateHolds, GateRefuses, GateOpens, Raise,
        Goto
<1>23. ASSUME NEW p \in Procs, Commit(p) PROVE BudgetInv'
    BY <1>23, <1>d DEF Commit, Save, NextStep, Goto
<1>24. ASSUME NEW p \in Procs, SaveRefused(p) PROVE BudgetInv'
    BY <1>24, <1>d DEF SaveRefused, Raise, Goto
<1>25. ASSUME NEW p \in Procs, WalkDone(p) PROVE BudgetInv'
    BY <1>25, <1>d DEF WalkDone, RaiseUnauthorised, Raise, Goto
<1>26. ASSUME NEW p \in Procs, Unwind(p) PROVE BudgetInv'
    BY <1>26, <1>d DEF Unwind, Raise, Goto
<1>27. ASSUME NEW p \in Procs, Finalize(p) PROVE BudgetInv'
    BY <1>27, <1>d DEF Finalize, Forget, LeaveWithConflict, Goto, NoRecord
<1>28. ASSUME NEW p \in Procs, Resume(p) PROVE BudgetInv'
    BY <1>28, <1>d DEF Resume, Goto
<1>29. ASSUME NEW p \in Procs, Heartbeat(p) PROVE BudgetInv'
    BY <1>29, <1>d DEF Heartbeat
<1>30. ASSUME NEW p \in Procs, TaskCancelled(p) PROVE BudgetInv'
    BY <1>30, <1>d DEF TaskCancelled, Unresolved, GiveUp, Goto
<1>31. ASSUME NEW p \in Procs, Crash(p) PROVE BudgetInv'
    BY <1>31, <1>d DEF Crash, Forget, Goto, NoRecord
<1>32. ASSUME NEW s \in Steps, NEW k \in Kinds, Decide(s, k)
      PROVE  BudgetInv'
    BY <1>32, <1>d DEF Decide
<1>33. ASSUME NEW s \in Steps, NEW k \in Kinds, Expire(s, k)
      PROVE  BudgetInv'
    BY <1>33, <1>d DEF Expire
<1>34. ASSUME NEW s \in Steps, ReconcileRetry(s) PROVE BudgetInv'
    BY <1>34, <1>d DEF ReconcileRetry, Reconcilable
<1>35. ASSUME NEW s \in Steps, ReconcileOutput(s) PROVE BudgetInv'
    BY <1>35, <1>d DEF ReconcileOutput, Reconcilable
<1>36. ASSUME Cancel PROVE BudgetInv'
    BY <1>36, <1>d DEF Cancel, Terminal
<1>37. ASSUME LeaseExpires PROVE BudgetInv'
    BY <1>37, <1>d DEF LeaseExpires
<1>38. CASE UNCHANGED vars
    BY <1>38, <1>d DEF vars
<1> QED
    BY <1>1, <1>2, <1>3, <1>4, <1>5, <1>6, <1>7, <1>8, <1>9, <1>10, <1>11,
       <1>12, <1>13, <1>14, <1>15, <1>16, <1>17, <1>18, <1>19, <1>20, <1>21,
       <1>22, <1>23, <1>24, <1>25, <1>26, <1>27, <1>28, <1>29, <1>30, <1>31,
       <1>32, <1>33, <1>34, <1>35, <1>36, <1>37, <1>38
    DEF Next, Advance, Disturb

(* Crashes, takeovers and stalls do not widen the retry policy: a step is  *)
(* attempted at most as often as the policy says and operators granted.    *)
THEOREM BudgetCorrect == Spec => []RetryBudget
<1>1. Init => BudgetInv
    BY ConstantsAssumption DEF Init, BudgetInv, Allowed, NoRecord
<1>2. BudgetInv => RetryBudget
    BY DEF BudgetInv, RetryBudget, Allowed
<1>3. QED
    BY <1>1, <1>2, BudgetStep, Typing, PTL DEF Spec

-----------------------------------------------------------------------------
(***************************************************************************)
(* What the lease protects as long as no process outlives it: at most one  *)
(* process executes the run, the ledger tells it all it has to know to     *)
(* never repeat an effect, what is committed is what reviewers let         *)
(* through, and the status a run ends with is true and stays.  The proofs  *)
(* are for any number of workers and command lines, crashes,               *)
(* cancellations and reconciliations.                                      *)
(***************************************************************************)

(* What the ledger shows for the step a process is at.                     *)
LedgerAt(p) ==
    LET shown == inv[cur[p]].status IN
    /\ pc[p] \in {"before", "create"} => shown = "none"
    /\ pc[p] \in {"review", "start", "backoff"}
           => shown \in {"pending", "interrupted", "failed"}
    /\ pc[p] = "enter" => shown = "running" /\ unsettled[cur[p]] = 0
    /\ pc[p] \in {"handler", "suspend", "paused", "uncertain", "fail", "output"}
           => shown \in {"running", "interrupted"}
    /\ pc[p] \in {"after", "commit"} => shown = "output_ready"

(* What a process is about to save.                                        *)
CopyAt(p) ==
    /\ pc[p] = "uncertain" => loc[p].status = "uncertain"
    /\ pc[p] = "fail" => loc[p].status = "failed"
    /\ pc[p] = "output" => loc[p].status = "output_ready"

FenceInv ==
    /\ ExecutorHoldsLease
    /\ \A p \in Procs : LedgerAt(p) /\ CopyAt(p)
    /\ EffectsInLedger
    /\ CommittedStays
    /\ NoBlindReexecution

(* Two processes that execute the run are the same process.                *)
LEMMA Alone ==
    ASSUME ExecutorHoldsLease, NEW p \in Procs, pc[p] \in Inside,
           NEW q \in Procs, q # p
    PROVE  pc[q] \notin Inside
    BY DEF ExecutorHoldsLease, Executing

LEMMA FenceStep == ~Stalls /\ TypeInv /\ FenceInv /\ [Next]_vars => FenceInv'
<1> SUFFICES ASSUME ~Stalls, TypeInv, FenceInv, [Next]_vars PROVE FenceInv'
    OBVIOUS
<1>d. /\ DOMAIN pc = Procs /\ DOMAIN cur = Procs
      /\ DOMAIN loc = Procs /\ DOMAIN outcome = Procs
      /\ DOMAIN inv = Steps /\ DOMAIN unsettled = Steps
      /\ DOMAIN run = {"status", "owner", "live", "cancel", "unclear", "count"}
      /\ \A p \in Procs : "status" \in DOMAIN loc[p]
      /\ \A s \in Steps : "status" \in DOMAIN inv[s]
      /\ "status" \in DOMAIN NoRecord
      /\ \A p \in Procs : pc[p] \notin Leaving => cur[p] \in Steps
      /\ \A s \in Steps : unsettled[s] \in Nat
      /\ done \subseteq Steps
    BY DEF TypeInv, PlaceType, CopyType, LedgerType, GhostType, RunType,
       Record, NoRecord
<1> USE DEF FenceInv, ExecutorHoldsLease, Executing, Inside, LedgerAt, CopyAt,
           EffectsInLedger, CommittedStays, NoBlindReexecution, Unclear,
           Leaving, db, local, ghost
<1>1. ASSUME NEW p \in Procs, Poll(p) PROVE FenceInv'
    BY <1>1, <1>d DEF Poll, Goto
<1>2. ASSUME NEW p \in Procs, Claim(p) PROVE FenceInv'
    BY <1>2, <1>d DEF Claim, Goto
<1>3. ASSUME NEW p \in Procs, ClaimRefused(p) PROVE FenceInv'
    BY <1>3, <1>d DEF ClaimRefused, LeaveWithConflict, Goto
<1>4. ASSUME NEW p \in Procs, MarkConflict(p) PROVE FenceInv'
    BY <1>4, <1>d DEF MarkConflict, Goto
<1>5. ASSUME NEW p \in Procs, Walk(p) PROVE FenceInv'
    BY <1>5, <1>d DEF Walk, RaiseUnauthorised, Raise, Goto
<1>6. ASSUME NEW p \in Procs, ReadRecord(p) PROVE FenceInv'
    BY <1>6, <1>d DEF ReadRecord, NextStep, AfterOutput, Raise, Goto
<1>7. ASSUME NEW p \in Procs, BeforeGate(p) PROVE FenceInv'
    BY <1>7, <1>d
    DEF BeforeGate, GateRequests, GateHolds, GateRefuses, GateOpens, Raise,
        Goto
<1>8. ASSUME NEW p \in Procs, CreateRecord(p) PROVE FenceInv'
    BY SMTT(30), <1>8, <1>d DEF CreateRecord, NoRecord, Raise, Goto
<1>9. ASSUME NEW p \in Procs, ReviewInterrupt(p) PROVE FenceInv'
    BY <1>9, <1>d
    DEF ReviewInterrupt, GateRequests, GateHolds, GateRefuses, GateOpens,
        Raise, Goto
<1>10. ASSUME NEW p \in Procs, StartAttempt(p) PROVE FenceInv'
    BY <1>10, <1>d DEF StartAttempt, Save, Attempted, Goto
<1>11. ASSUME NEW p \in Procs, EnterHandler(p) PROVE FenceInv'
    BY <1>11, <1>d DEF EnterHandler, LosesAuthority, Unresolved, GiveUp, Goto
<1>12. ASSUME NEW p \in Procs, HandlerReturns(p) PROVE FenceInv'
    <2>1. /\ UNCHANGED <<run, inv, cur, done, unsettled>>
          /\ pc[p] = "handler"
        BY <1>12 DEF HandlerReturns
    <2>2. CASE Authorised(p)
        <3> HIDE DEF FenceInv, EffectsInLedger, Unclear, LedgerAt, CopyAt, db,
                     local, ghost
        <3>1. PICK x \in Outputs, d \in BOOLEAN : loc' = [loc EXCEPT ![p] =
                  [loc[p] EXCEPT !.status = "output_ready", !.out = x,
                                 !.degraded = d]]
            BY <1>12, <2>2 DEF HandlerReturns
        <3>2. pc' = [pc EXCEPT ![p] = "output"]
            BY <1>12, <2>2 DEF HandlerReturns, Goto
        <3> USE DEF FenceInv, EffectsInLedger, Unclear, LedgerAt, CopyAt, db,
                    local, ghost
        <3>3. \A q \in Procs : LedgerAt(q)' /\ CopyAt(q)'
            BY <1>d, <2>1, <3>1, <3>2
        <3> QED
            BY <1>d, <2>1, <3>2, <3>3
    <2>3. CASE ~Authorised(p)
        <3>1. /\ pc' = [pc EXCEPT ![p] = "uncertain"]
              /\ loc' = [loc EXCEPT ![p].status = "uncertain"]
            BY <1>12, <2>3
            DEF HandlerReturns, LosesAuthority, Unresolved, GiveUp, Goto
        <3> QED
            BY <1>d, <2>1, <3>1
    <2> QED
        BY <2>2, <2>3
<1>13. ASSUME NEW p \in Procs, HandlerFails(p) PROVE FenceInv'
    BY <1>13, <1>d DEF HandlerFails, GiveUp, Goto
<1>14. ASSUME NEW p \in Procs, HandlerUnresolved(p) PROVE FenceInv'
    BY <1>14, <1>d DEF HandlerUnresolved, Unresolved, GiveUp, Goto
<1>15. ASSUME NEW p \in Procs, HandlerInterrupts(p) PROVE FenceInv'
    BY <1>15, <1>d DEF HandlerInterrupts, Goto
<1>16. ASSUME NEW p \in Procs, Suspend(p) PROVE FenceInv'
    BY <1>16, <1>d
    DEF Suspend, GateRequests, GateHolds, GateRefuses, GateOpens, GiveUp, Goto
<1>17. ASSUME NEW p \in Procs, Paused(p) PROVE FenceInv'
    BY <1>17, <1>d DEF Paused, Unresolved, GiveUp, Raise, Goto
<1>18. ASSUME NEW p \in Procs, SaveUncertain(p) PROVE FenceInv'
    BY <1>18, <1>d DEF SaveUncertain, Save, Goto
<1>19. ASSUME NEW p \in Procs, SaveFailed(p) PROVE FenceInv'
    BY <1>19, <1>d DEF SaveFailed, Save, Goto
<1>20. ASSUME NEW p \in Procs, Retry(p) PROVE FenceInv'
    BY <1>20, <1>d DEF Retry, Goto
<1>21. ASSUME NEW p \in Procs, SaveOutput(p) PROVE FenceInv'
    BY <1>21, <1>d DEF SaveOutput, Save, AfterOutput, Goto
<1>22. ASSUME NEW p \in Procs, AfterGate(p) PROVE FenceInv'
    BY <1>22, <1>d
    DEF AfterGate, GateRequests, GateHolds, GateRefuses, GateOpens, Raise,
        Goto
<1>23. ASSUME NEW p \in Procs, Commit(p) PROVE FenceInv'
    BY <1>23, <1>d DEF Commit, Save, NextStep, Goto
<1>24. ASSUME NEW p \in Procs, SaveRefused(p) PROVE FenceInv'
    BY <1>24, <1>d DEF SaveRefused, Raise, Goto
<1>25. ASSUME NEW p \in Procs, WalkDone(p) PROVE FenceInv'
    BY <1>25, <1>d DEF WalkDone, RaiseUnauthorised, Raise, Goto
<1>26. ASSUME NEW p \in Procs, Unwind(p) PROVE FenceInv'
    BY <1>26, <1>d DEF Unwind, Raise, Goto
<1>27. ASSUME NEW p \in Procs, Finalize(p) PROVE FenceInv'
    BY <1>27, <1>d DEF Finalize, Forget, LeaveWithConflict, Goto, NoRecord
<1>28. ASSUME NEW p \in Procs, Resume(p) PROVE FenceInv'
    BY <1>28, <1>d DEF Resume, Goto
<1>29. ASSUME NEW p \in Procs, Heartbeat(p) PROVE FenceInv'
    BY <1>29, <1>d DEF Heartbeat
<1>30. ASSUME NEW p \in Procs, TaskCancelled(p) PROVE FenceInv'
    BY <1>30, <1>d DEF TaskCancelled, Unresolved, GiveUp, Goto
<1>31. ASSUME NEW p \in Procs, Crash(p) PROVE FenceInv'
    BY <1>31, <1>d DEF Crash, Forget, Goto, NoRecord
<1>32. ASSUME NEW s \in Steps, NEW k \in Kinds, Decide(s, k)
      PROVE  FenceInv'
    BY <1>32, <1>d DEF Decide
<1>33. ASSUME NEW s \in Steps, NEW k \in Kinds, Expire(s, k)
      PROVE  FenceInv'
    BY <1>33, <1>d DEF Expire
<1>34. ASSUME NEW s \in Steps, ReconcileRetry(s) PROVE FenceInv'
    BY <1>34, <1>d DEF ReconcileRetry, Reconcilable
<1>35. ASSUME NEW s \in Steps, ReconcileOutput(s) PROVE FenceInv'
    BY <1>35, <1>d DEF ReconcileOutput, Reconcilable
<1>36. ASSUME Cancel PROVE FenceInv'
    BY <1>36, <1>d DEF Cancel, Terminal
<1>37. ASSUME LeaseExpires PROVE FenceInv'
    BY <1>37, <1>d DEF LeaseExpires
<1>38. CASE UNCHANGED vars
    BY <1>38 DEF vars
<1> QED
    BY <1>1, <1>2, <1>3, <1>4, <1>5, <1>6, <1>7, <1>8, <1>9, <1>10,
       <1>11, <1>12, <1>13, <1>14, <1>15, <1>16, <1>17, <1>18, <1>19,
       <1>20, <1>21, <1>22, <1>23, <1>24, <1>25, <1>26, <1>27, <1>28,
       <1>29, <1>30, <1>31, <1>32, <1>33, <1>34, <1>35, <1>36, <1>37,
       <1>38
    DEF Next, Advance, Disturb

LEMMA Fenced ==
    ASSUME ~Stalls
    PROVE  Spec => [](TypeInv /\ FenceInv)
<1>1. Init => FenceInv
    BY DEF Init, FenceInv, ExecutorHoldsLease, Executing, Inside, LedgerAt,
       CopyAt, EffectsInLedger, CommittedStays, NoBlindReexecution
<1>2. TypeInv /\ FenceInv /\ [Next]_vars => FenceInv'
    BY FenceStep
<1>3. QED
    BY <1>1, <1>2, Typing, PTL DEF Spec

(* No effect is repeated blindly, whatever crashes, takeovers and retries  *)
(* happen: a handler is entered again only after its last execution was    *)
(* accounted for.                                                          *)
THEOREM FencedCorrect ==
    ASSUME ~Stalls
    PROVE  Spec => []NoBlindReexecution
<1>1. FenceInv => NoBlindReexecution
    BY DEF FenceInv
<1>2. QED
    BY <1>1, Fenced, PTL

(* A step once saved as succeeded stays succeeded in the ledger.           *)
THEOREM CommitCorrect ==
    ASSUME ~Stalls
    PROVE  Spec => []CommittedStays
<1>1. FenceInv => CommittedStays
    BY DEF FenceInv
<1>2. QED
    BY <1>1, Fenced, PTL

(* The ledger shows every effect that may have happened.                   *)
THEOREM LedgerCorrect ==
    ASSUME ~Stalls
    PROVE  Spec => []EffectsInLedger
<1>1. FenceInv => EffectsInLedger
    BY DEF FenceInv
<1>2. QED
    BY <1>1, Fenced, PTL

(* Whoever executes the run holds its unexpired lease.                     *)
THEOREM LeaseCorrect ==
    ASSUME ~Stalls
    PROVE  Spec => []ExecutorHoldsLease
<1>1. FenceInv => ExecutorHoldsLease
    BY DEF FenceInv
<1>2. QED
    BY <1>1, Fenced, PTL

-----------------------------------------------------------------------------
(* The output of a step and the review it needs                            *)

(* The ledger of a committed step is never written again.                  *)
LEMMA CommittedKept ==
    ASSUME TypeInv, FenceInv, [Next]_vars, NEW s \in done
    PROVE  inv'[s] = inv[s]
<1>d. /\ DOMAIN inv = Steps /\ s \in Steps /\ inv[s].status = "succeeded"
      /\ \A p \in Procs : LedgerAt(p) 
    BY DEF TypeInv, LedgerType, GhostType, FenceInv, CommittedStays
<1>1. CASE UNCHANGED inv
    BY <1>1
<1>2. ASSUME NEW p \in Procs, cur[p] # s,
             \E r : inv' = [inv EXCEPT ![cur[p]] = r]
      PROVE  inv'[s] = inv[s]
    BY <1>d, <1>2
<1>3. ASSUME NEW p \in Procs, Advance(p)
      PROVE  \/ UNCHANGED inv
             \/ cur[p] # s /\ \E r : inv' = [inv EXCEPT ![cur[p]] = r]
    <2>0. LedgerAt(p)
        BY <1>d
    <2>1. CASE CreateRecord(p)
        BY <1>d, <2>0, <2>1 DEF CreateRecord, LedgerAt
    <2>2. CASE StartAttempt(p) \/ SaveUncertain(p) \/ SaveFailed(p)
        BY <1>d, <2>0, <2>2
        DEF StartAttempt, SaveUncertain, SaveFailed, Save, LedgerAt
    <2>3. CASE SaveOutput(p) \/ Commit(p)
        BY <1>d, <2>0, <2>3 DEF SaveOutput, Commit, Save, LedgerAt
    <2>4. CASE HandlerInterrupts(p)
        BY <1>d, <2>0, <2>4 DEF HandlerInterrupts, LedgerAt
    <2> QED
        BY <1>3, <2>1, <2>2, <2>3, <2>4
        DEF Advance, Poll, Claim, ClaimRefused, MarkConflict, Walk,
            ReadRecord, BeforeGate, ReviewInterrupt, EnterHandler,
            HandlerReturns, HandlerFails, HandlerUnresolved, Suspend, Paused,
            Retry, AfterGate, SaveRefused, WalkDone, Unwind, Finalize, db
<1>4. ASSUME NEW r \in Steps, ReconcileRetry(r) \/ ReconcileOutput(r)
      PROVE  inv'[s] = inv[s]
    <2>1. r # s
        BY <1>d, <1>4
        DEF ReconcileRetry, ReconcileOutput, Reconcilable, Unclear
    <2> QED
        BY <1>d, <1>4, <2>1 DEF ReconcileRetry, ReconcileOutput
<1> QED
    BY <1>1, <1>2, <1>3, <1>4
    DEF Next, Disturb, Resume, Heartbeat, TaskCancelled, Crash, Decide, Expire,
        Cancel, LeaseExpires, db, vars

(* Does the output of a step need a review?                                *)
Needs(s, degraded) == s \in AfterGated \/ (s \in DegradeBlocked /\ degraded)

(* A review of an output belongs to the output the ledger holds, and what  *)
(* a process is about to commit has passed it.                             *)
OutputAt(p) ==
    LET s == cur[p] IN
    pc[p] \in {"after", "commit"} =>
        /\ loc[p].degraded = inv[s].degraded
        /\ pc[p] = "after" => Needs(s, loc[p].degraded)
        /\ pc[p] = "commit" /\ Needs(s, loc[p].degraded) =>
              /\ appr[s]["after"].state = "approved"
              /\ loc[p].out = appr[s]["after"].effective

ReviewedOnlyIfNeeded ==
    \A s \in Steps :
        appr[s]["after"].state # "none" =>
            /\ inv[s].status \in {"output_ready", "succeeded"}
            /\ Needs(s, inv[s].degraded)

OutputInv ==
    /\ ReviewedOnlyIfNeeded
    /\ \A p \in Procs : OutputAt(p)
    /\ CommitsReviewedOutput

(* What a gate may do to the reviews.                                      *)
Touched(s, k) ==
    /\ \A r \in Steps, l \in Kinds :
          r # s \/ l # k => appr'[r][l] = appr[r][l]
    /\ \/ appr'[s][k] = appr[s][k]
       \/ appr[s][k].state = "none" /\ appr'[s][k].state = "pending"

LEMMA GateLeaves ==
    ASSUME TypeInv, NEW p \in Procs, cur[p] \in Steps, NEW k \in Kinds,
           NEW payload,
           \/ GateRequests(p, k, payload) \/ GateHolds(p, k, payload)
           \/ GateRefuses(p, k, payload) \/ GateOpens(p, k, payload)
    PROVE  Touched(cur[p], k)
<1>1. DOMAIN appr = Steps /\ \A s \in Steps : DOMAIN appr[s] = Kinds
    BY DEF TypeInv, ReviewType
<1>2. CASE UNCHANGED appr
    BY <1>2 DEF Touched
<1>3. CASE GateRequests(p, k, payload)
    <2> DEFINE a == [state |-> "pending", late |-> FALSE,
                     payload |-> payload, effective |-> NoOutput]
    <2>1. a.state = "pending"
        OBVIOUS
    <2>2. /\ appr[cur[p]][k].state = "none"
          /\ appr' = [appr EXCEPT ![cur[p]][k] = a]
        BY <1>3 DEF GateRequests
    <2> HIDE DEF a
    <2> QED
        BY <1>1, <2>1, <2>2 DEF Touched
<1> QED
    BY <1>2, <1>3 DEF GateHolds, GateRefuses, GateOpens

(* A process at a gate goes on only when it opens.                         *)
LEMMA BeforeGateMoves ==
    ASSUME TypeInv, NEW p \in Procs, BeforeGate(p)
    PROVE  /\ pc[p] = "before" /\ UNCHANGED <<run, inv, cur, loc, ghost>>
           /\ Touched(cur[p], "before")
           /\ pc' = [pc EXCEPT ![p] = pc'[p]] /\ pc'[p] \in {"final", "create"}
<1>1. cur[p] \in Steps /\ DOMAIN pc = Procs /\ "before" \in Kinds
    BY DEF BeforeGate, TypeInv, PlaceType, Leaving, Kinds
<1>2. Touched(cur[p], "before")
    BY <1>1, GateLeaves DEF BeforeGate
<1>3. \E l \in {"final", "create"} : pc' = [pc EXCEPT ![p] = l]
    BY DEF BeforeGate, Raise, Goto
<1> QED
    BY <1>1, <1>2, <1>3 DEF BeforeGate

LEMMA ReviewInterruptMoves ==
    ASSUME TypeInv, NEW p \in Procs, ReviewInterrupt(p)
    PROVE  /\ pc[p] = "review" /\ UNCHANGED <<run, inv, cur, loc, ghost>>
           /\ Touched(cur[p], "tool")
           /\ pc' = [pc EXCEPT ![p] = pc'[p]] /\ pc'[p] \in {"final", "start"}
           /\ pc'[p] = "start" =>
                  appr' = appr /\ appr[cur[p]]["tool"].state = "approved"
<1>1. cur[p] \in Steps /\ DOMAIN pc = Procs /\ "tool" \in Kinds
    BY DEF ReviewInterrupt, TypeInv, PlaceType, Leaving, Kinds
<1>2. Touched(cur[p], "tool")
    BY <1>1, GateLeaves DEF ReviewInterrupt
<1>3. \/ pc' = [pc EXCEPT ![p] = "final"]
      \/ /\ pc' = [pc EXCEPT ![p] = "start"]
         /\ appr' = appr /\ appr[cur[p]]["tool"].state = "approved"
    BY DEF ReviewInterrupt, Raise, Goto, GateOpens
<1> QED
    BY <1>1, <1>2, <1>3 DEF ReviewInterrupt

LEMMA AfterGateMoves ==
    ASSUME TypeInv, NEW p \in Procs, AfterGate(p)
    PROVE  /\ pc[p] = "after" /\ UNCHANGED <<run, inv, cur, ghost>>
           /\ Touched(cur[p], "after")
           /\ pc' = [pc EXCEPT ![p] = pc'[p]] /\ pc'[p] \in {"final", "commit"}
           /\ pc'[p] = "final" => loc' = loc
           /\ pc'[p] = "commit" =>
                  /\ appr' = appr /\ appr[cur[p]]["after"].state = "approved"
                  /\ loc' = [loc EXCEPT ![p].out =
                                appr[cur[p]]["after"].effective]
<1>1. cur[p] \in Steps /\ DOMAIN pc = Procs /\ "after" \in Kinds
    BY DEF AfterGate, TypeInv, PlaceType, Leaving, Kinds
<1>2. Touched(cur[p], "after")
    BY <1>1, GateLeaves DEF AfterGate
<1>3. \/ pc' = [pc EXCEPT ![p] = "final"] /\ loc' = loc
      \/ /\ pc' = [pc EXCEPT ![p] = "commit"]
         /\ appr' = appr /\ appr[cur[p]]["after"].state = "approved"
         /\ loc' = [loc EXCEPT ![p].out = appr[cur[p]]["after"].effective]
    BY DEF AfterGate, Raise, Goto, GateOpens
<1> QED
    BY <1>1, <1>2, <1>3 DEF AfterGate

(* A step of one process that is not about its output.                     *)
LEMMA OutputUntouched ==
    ASSUME TypeInv, OutputInv, NEW p \in Procs, UNCHANGED <<inv, cur, done>>,
           pc'[p] \notin {"after", "commit"},
           \A q \in Procs : q # p => pc'[q] = pc[q] /\ loc'[q] = loc[q],
           \A s \in Steps : appr'[s]["after"] = appr[s]["after"]
    PROVE  OutputInv'
<1>1. ASSUME NEW q \in Procs PROVE OutputAt(q)'
    <2>1. pc[q] \in {"after", "commit"} => cur[q] \in Steps
        BY DEF TypeInv, PlaceType, Leaving
    <2> QED
        BY <2>1 DEF OutputInv, OutputAt, Needs
<1>2. ReviewedOnlyIfNeeded'
    BY DEF OutputInv, ReviewedOnlyIfNeeded, Needs
<1>3. CommitsReviewedOutput'
    BY DEF OutputInv, CommitsReviewedOutput, TypeInv, GhostType
<1> QED
    BY <1>1, <1>2, <1>3 DEF OutputInv

LEMMA OutputStep ==
    TypeInv /\ FenceInv /\ OutputInv /\ [Next]_vars => OutputInv'
<1> SUFFICES ASSUME TypeInv, FenceInv, OutputInv, [Next]_vars
             PROVE  OutputInv'
    OBVIOUS
<1>d. /\ DOMAIN pc = Procs /\ DOMAIN cur = Procs
      /\ DOMAIN loc = Procs /\ DOMAIN inv = Steps
      /\ DOMAIN appr = Steps /\ \A s \in Steps : DOMAIN appr[s] = Kinds
      /\ "after" \in Kinds /\ done \subseteq Steps
      /\ \A p \in Procs : {"status", "out", "degraded"} \subseteq DOMAIN loc[p]
      /\ \A s \in Steps : {"status", "out", "degraded"} \subseteq DOMAIN inv[s]
      /\ \A s \in Steps, k \in Kinds : DOMAIN appr[s][k] = DOMAIN NoApproval
      /\ DOMAIN NoApproval = {"state", "late", "payload", "effective"}
      /\ \A p \in Procs : pc[p] \notin Leaving => cur[p] \in Steps
    BY DEF TypeInv, PlaceType, CopyType, LedgerType, GhostType, ReviewType,
       Record, Approval, NoApproval, Kinds
<1>e. \A s \in Steps : 
          appr[s]["after"].state = "approved" =>
             /\ appr'[s]["after"].state = "approved"
             /\ appr'[s]["after"].effective = appr[s]["after"].effective
    BY <1>d, DecisionStays
<1>f. /\ \A p \in Procs : LedgerAt(p) /\ CopyAt(p)
      /\ \A p, q \in Procs : pc[p] \in Inside /\ pc[q] \in Inside => p = q
      /\ \A s \in done : inv[s].status = "succeeded" /\ inv'[s] = inv[s]
    BY Alone, CommittedKept DEF FenceInv, CommittedStays
<1> USE DEF OutputInv, OutputAt, ReviewedOnlyIfNeeded, CommitsReviewedOutput,
           Needs, LedgerAt, CopyAt, Leaving, Inside, db, local, ghost
<1>1. ASSUME NEW p \in Procs, Poll(p) PROVE OutputInv'
    BY <1>1, <1>d, <1>e, <1>f DEF Poll, Goto
<1>2. ASSUME NEW p \in Procs, Claim(p) PROVE OutputInv'
    BY <1>2, <1>d, <1>e, <1>f DEF Claim, Goto
<1>3. ASSUME NEW p \in Procs, ClaimRefused(p) PROVE OutputInv'
    BY <1>3, <1>d, <1>e, <1>f DEF ClaimRefused, LeaveWithConflict, Goto
<1>4. ASSUME NEW p \in Procs, MarkConflict(p) PROVE OutputInv'
    BY <1>4, <1>d, <1>e, <1>f DEF MarkConflict, Goto
<1>5. ASSUME NEW p \in Procs, Walk(p) PROVE OutputInv'
    BY <1>5, <1>d, <1>e, <1>f DEF Walk, RaiseUnauthorised, Raise, Goto
<1>6. ASSUME NEW p \in Procs, ReadRecord(p) PROVE OutputInv'
    BY <1>6, <1>d, <1>e, <1>f
    DEF ReadRecord, NextStep, AfterOutput, Raise, Goto
<1>7. ASSUME NEW p \in Procs, BeforeGate(p) PROVE OutputInv'
    BY <1>7, <1>d, BeforeGateMoves, OutputUntouched DEF Touched
<1>8. ASSUME NEW p \in Procs, CreateRecord(p) PROVE OutputInv'
    BY <1>8, <1>d, <1>e, <1>f DEF CreateRecord, NoRecord, Raise, Goto
<1>9. ASSUME NEW p \in Procs, ReviewInterrupt(p) PROVE OutputInv'
    BY <1>9, <1>d, ReviewInterruptMoves, OutputUntouched DEF Touched
<1>10. ASSUME NEW p \in Procs, StartAttempt(p) PROVE OutputInv'
    BY <1>10, <1>d, <1>e, <1>f DEF StartAttempt, Save, Attempted, Goto
<1>11. ASSUME NEW p \in Procs, EnterHandler(p) PROVE OutputInv'
    BY <1>11, <1>d, <1>e, <1>f
    DEF EnterHandler, LosesAuthority, Unresolved, GiveUp, Goto
<1>12. ASSUME NEW p \in Procs, HandlerReturns(p) PROVE OutputInv'
    <2>1. /\ UNCHANGED <<inv, appr, cur, done>>
          /\ \E l \in {"output", "uncertain"} : pc' = [pc EXCEPT ![p] = l]
          /\ \A q \in Procs : q # p => loc'[q] = loc[q]
        BY <1>12, <1>d
        DEF HandlerReturns, LosesAuthority, Unresolved, GiveUp, Goto
    <2>2. \A q \in Procs : OutputAt(q)'
        BY <1>d, <2>1
    <2> QED
        BY <2>1, <2>2
<1>13. ASSUME NEW p \in Procs, HandlerFails(p) PROVE OutputInv'
    BY <1>13, <1>d, <1>e, <1>f DEF HandlerFails, GiveUp, Goto
<1>14. ASSUME NEW p \in Procs, HandlerUnresolved(p) PROVE OutputInv'
    BY <1>14, <1>d, <1>e, <1>f DEF HandlerUnresolved, Unresolved, GiveUp, Goto
<1>15. ASSUME NEW p \in Procs, HandlerInterrupts(p) PROVE OutputInv'
    BY <1>15, <1>d, <1>e, <1>f DEF HandlerInterrupts, Goto
<1>16. ASSUME NEW p \in Procs, Suspend(p) PROVE OutputInv'
    <2>1. UNCHANGED <<inv, cur, done>> /\ pc[p] = "suspend"
        BY <1>16 DEF Suspend
    <2>2. \/ pc' = [pc EXCEPT ![p] = "paused"] /\ loc' = loc
          \/ /\ pc' = [pc EXCEPT ![p] = "fail"]
             /\ loc' = [loc EXCEPT ![p].status = "failed"]
        BY <1>16 DEF Suspend, GiveUp, Goto
    <2>3. \A s \in Steps : appr'[s]["after"] = appr[s]["after"]
        BY <1>16, <1>d
        DEF Suspend, GateRequests, GateHolds, GateRefuses, GateOpens
    <2>4. /\ pc'[p] \notin {"after", "commit"}
          /\ \A q \in Procs : q # p => pc'[q] = pc[q] /\ loc'[q] = loc[q]
        BY <1>d, <2>2
    <2> QED
        BY <2>1, <2>3, <2>4, OutputUntouched
<1>17. ASSUME NEW p \in Procs, Paused(p) PROVE OutputInv'
    BY <1>17, <1>d, <1>e, <1>f DEF Paused, Unresolved, GiveUp, Raise, Goto
<1>18. ASSUME NEW p \in Procs, SaveUncertain(p) PROVE OutputInv'
    BY <1>18, <1>d, <1>e, <1>f DEF SaveUncertain, Save, Goto
<1>19. ASSUME NEW p \in Procs, SaveFailed(p) PROVE OutputInv'
    BY <1>19, <1>d, <1>e, <1>f DEF SaveFailed, Save, Goto
<1>20. ASSUME NEW p \in Procs, Retry(p) PROVE OutputInv'
    BY <1>20, <1>d, <1>e, <1>f DEF Retry, Goto
<1>21. ASSUME NEW p \in Procs, SaveOutput(p) PROVE OutputInv'
    BY <1>21, <1>d, <1>e, <1>f DEF SaveOutput, Save, AfterOutput, Goto
<1>22. ASSUME NEW p \in Procs, AfterGate(p) PROVE OutputInv'
    <2> DEFINE s == cur[p]
    <2>1. /\ s \in Steps /\ UNCHANGED <<inv, cur, done>> /\ pc[p] = "after"
          /\ pc' = [pc EXCEPT ![p] = pc'[p]] /\ Touched(s, "after")
          /\ inv[s].status = "output_ready" /\ s \notin done
          /\ Needs(s, inv[s].degraded) /\ loc[p].degraded = inv[s].degraded
        BY <1>22, <1>d, <1>f, AfterGateMoves
    <2>2. \A q \in Procs : q # p => /\ pc'[q] = pc[q]
                                    /\ pc[q] \notin {"after", "commit"}
        BY <1>d, <1>f, <2>1
    <2>3. \A r \in Steps : r # s => appr'[r]["after"] = appr[r]["after"]
        BY <1>d, <2>1 DEF Touched
    <2> HIDE DEF s
    <2>4. ReviewedOnlyIfNeeded' /\ CommitsReviewedOutput'
        BY <1>d, <2>1, <2>3
    <2>5. CASE pc'[p] = "final"
        BY <2>2, <2>4, <2>5
    <2>6. CASE pc'[p] = "commit"
        <3>1. /\ appr' = appr /\ appr[s]["after"].state = "approved"
              /\ loc' = [loc EXCEPT ![p].out = appr[s]["after"].effective]
            BY <1>22, <2>6, AfterGateMoves DEF s
        <3>2. /\ loc'[p].out = appr[s]["after"].effective
              /\ loc'[p].degraded = inv[s].degraded
            BY <1>d, <2>1, <3>1
        <3>3. OutputAt(p)'
            BY <2>1, <2>6, <3>1, <3>2 DEF s
        <3>4. \A q \in Procs : q # p => OutputAt(q)'
            BY <2>2
        <3> QED
            BY <2>4, <3>3, <3>4
    <2> QED
        BY <1>22, <2>5, <2>6, AfterGateMoves
<1>23. ASSUME NEW p \in Procs, Commit(p) PROVE OutputInv'
    BY <1>23, <1>d, <1>e, <1>f DEF Commit, Save, NextStep, Goto
<1>24. ASSUME NEW p \in Procs, SaveRefused(p) PROVE OutputInv'
    BY <1>24, <1>d, <1>e, <1>f DEF SaveRefused, Raise, Goto
<1>25. ASSUME NEW p \in Procs, WalkDone(p) PROVE OutputInv'
    BY <1>25, <1>d, <1>e, <1>f DEF WalkDone, RaiseUnauthorised, Raise, Goto
<1>26. ASSUME NEW p \in Procs, Unwind(p) PROVE OutputInv'
    BY <1>26, <1>d, <1>e, <1>f DEF Unwind, Raise, Goto
<1>27. ASSUME NEW p \in Procs, Finalize(p) PROVE OutputInv'
    <2>1. /\ UNCHANGED <<inv, appr, done>>
          /\ \E l \in {"idle", "conflict"} : pc' = [pc EXCEPT ![p] = l]
          /\ \A q \in Procs : q # p => cur'[q] = cur[q] /\ loc'[q] = loc[q]
        BY <1>27, <1>d DEF Finalize, Forget, LeaveWithConflict, Goto
    <2>2. \A q \in Procs : OutputAt(q)'
        BY <1>d, <2>1
    <2> QED
        BY <2>1, <2>2
<1>28. ASSUME NEW p \in Procs, Resume(p) PROVE OutputInv'
    BY <1>28, <1>d, <1>e, <1>f DEF Resume, Goto
<1>29. ASSUME NEW p \in Procs, Heartbeat(p) PROVE OutputInv'
    BY <1>29, <1>d, <1>e, <1>f DEF Heartbeat
<1>30. ASSUME NEW p \in Procs, TaskCancelled(p) PROVE OutputInv'
    BY <1>30, <1>d, <1>e, <1>f DEF TaskCancelled, Unresolved, GiveUp, Goto
<1>31. ASSUME NEW p \in Procs, Crash(p) PROVE OutputInv'
    <2>1. /\ UNCHANGED <<inv, appr, done>>
          /\ \E l \in {"idle"} : pc' = [pc EXCEPT ![p] = l]
          /\ \A q \in Procs : q # p => cur'[q] = cur[q] /\ loc'[q] = loc[q]
        BY <1>31, <1>d DEF Crash, Forget, Goto
    <2>2. \A q \in Procs : OutputAt(q)'
        BY <1>d, <2>1
    <2> QED
        BY <2>1, <2>2
<1>32. ASSUME NEW s \in Steps, NEW k \in Kinds, Decide(s, k)
      PROVE  OutputInv'
    BY <1>32, <1>d, <1>e, <1>f DEF Decide
<1>33. ASSUME NEW s \in Steps, NEW k \in Kinds, Expire(s, k)
      PROVE  OutputInv'
    BY <1>33, <1>d, <1>e, <1>f DEF Expire
<1>34. ASSUME NEW s \in Steps, ReconcileRetry(s) PROVE OutputInv'
    <2>1. /\ UNCHANGED <<appr, pc, cur, loc, done>>
          /\ \A r \in Steps : r # s => inv'[r] = inv[r]
        BY <1>34, <1>d DEF ReconcileRetry
    <2>2. inv[s].status \notin {"output_ready", "succeeded"}
        BY <1>34, <1>d DEF ReconcileRetry, Reconcilable, Unclear
    <2>3. \A q \in Procs : OutputAt(q)'
        BY <1>d, <1>f, <2>1, <2>2
    <2>4. ReviewedOnlyIfNeeded' /\ CommitsReviewedOutput'
        BY <1>d, <1>f, <2>1, <2>2
    <2> QED
        BY <2>3, <2>4
<1>35. ASSUME NEW s \in Steps, ReconcileOutput(s) PROVE OutputInv'
    <2>1. /\ UNCHANGED <<appr, pc, cur, loc, done>>
          /\ \A r \in Steps : r # s => inv'[r] = inv[r]
        BY <1>35, <1>d DEF ReconcileOutput
    <2>2. inv[s].status \notin {"output_ready", "succeeded"}
        BY <1>35, <1>d DEF ReconcileOutput, Reconcilable, Unclear
    <2>3. \A q \in Procs : OutputAt(q)'
        BY <1>d, <1>f, <2>1, <2>2
    <2>4. ReviewedOnlyIfNeeded' /\ CommitsReviewedOutput'
        BY <1>d, <1>f, <2>1, <2>2
    <2> QED
        BY <2>3, <2>4
<1>36. ASSUME Cancel PROVE OutputInv'
    BY <1>36, <1>d, <1>e, <1>f DEF Cancel, Terminal
<1>37. ASSUME LeaseExpires PROVE OutputInv'
    BY <1>37, <1>d, <1>e, <1>f DEF LeaseExpires
<1>38. CASE UNCHANGED vars
    BY <1>38, <1>d, <1>e, <1>f DEF vars
<1> QED
    BY <1>1, <1>2, <1>3, <1>4, <1>5, <1>6, <1>7, <1>8, <1>9, <1>10, <1>11,
       <1>12, <1>13, <1>14, <1>15, <1>16, <1>17, <1>18, <1>19, <1>20, <1>21,
       <1>22, <1>23, <1>24, <1>25, <1>26, <1>27, <1>28, <1>29, <1>30, <1>31,
       <1>32, <1>33, <1>34, <1>35, <1>36, <1>37, <1>38
    DEF Next, Advance, Disturb

LEMMA ReviewedOutputs ==
    ASSUME ~Stalls
    PROVE  Spec => []OutputInv
<1>1. Init => OutputInv
    BY DEF Init, OutputInv, OutputAt, ReviewedOnlyIfNeeded, NoApproval, Kinds,
       CommitsReviewedOutput
<1>2. QED
    BY <1>1, OutputStep, Fenced, PTL DEF Spec

(* The output committed for a step that needs review afterwards is the one *)
(* the reviewer let through.                                               *)
THEOREM OutputCorrect ==
    ASSUME ~Stalls
    PROVE  Spec => []CommitsReviewedOutput
<1>1. OutputInv => CommitsReviewedOutput
    BY DEF OutputInv
<1>2. QED
    BY <1>1, ReviewedOutputs, PTL

-----------------------------------------------------------------------------
(* Rejections                                                              *)

Undenied == {"none", "approved"}

(* Where a process may be while a review of its step is open or rejected.  *)
GateAt(p) ==
    LET s == cur[p] IN
    /\ pc[p] = "before" => s \in BeforeGated
    /\ pc[p] \in {"start", "enter", "handler", "uncertain", "fail", "backoff",
                  "output"}
           => appr[s]["tool"].state \in Undenied
    /\ pc[p] \in {"review", "suspend"} => inv[s].status = "interrupted"
    /\ pc[p] = "suspend" => appr[s]["tool"].state = "none"

GateInv ==
    /\ \A s \in Steps :
          /\ appr[s]["before"].state # "none" => s \in BeforeGated
          /\ appr[s]["tool"].state \notin Undenied
                => inv[s].status = "interrupted"
    /\ \A p \in Procs : GateAt(p)

LEMMA GateStep ==
    TypeInv /\ FenceInv /\ GateInv /\ [Next]_vars => GateInv'
<1> SUFFICES ASSUME TypeInv, FenceInv, GateInv, [Next]_vars
             PROVE  GateInv'
    OBVIOUS
<1>d. /\ DOMAIN pc = Procs /\ DOMAIN cur = Procs
      /\ DOMAIN inv = Steps
      /\ DOMAIN appr = Steps /\ \A s \in Steps : DOMAIN appr[s] = Kinds
      /\ Kinds = {"before", "after", "tool"}
      /\ \A p \in Procs : "status" \in DOMAIN loc[p]
      /\ \A s \in Steps : "status" \in DOMAIN inv[s]
      /\ \A s \in Steps, k \in Kinds : DOMAIN appr[s][k] = DOMAIN NoApproval
      /\ DOMAIN NoApproval = {"state", "late", "payload", "effective"}
      /\ \A p \in Procs : pc[p] \notin Leaving => cur[p] \in Steps
    BY DEF TypeInv, PlaceType, CopyType, LedgerType, ReviewType,
       Record, Approval, NoApproval, Kinds
<1>f. /\ \A p \in Procs : LedgerAt(p) /\ CopyAt(p)
      /\ \A p, q \in Procs : pc[p] \in Inside /\ pc[q] \in Inside => p = q
    BY Alone DEF FenceInv
<1> USE DEF GateInv, GateAt, Undenied, LedgerAt, CopyAt, Leaving, Inside, db,
           local, ghost
<1>1. ASSUME NEW p \in Procs, Poll(p) PROVE GateInv'
    BY <1>1, <1>d, <1>f DEF Poll, Goto
<1>2. ASSUME NEW p \in Procs, Claim(p) PROVE GateInv'
    BY <1>2, <1>d, <1>f DEF Claim, Goto
<1>3. ASSUME NEW p \in Procs, ClaimRefused(p) PROVE GateInv'
    BY <1>3, <1>d, <1>f DEF ClaimRefused, LeaveWithConflict, Goto
<1>4. ASSUME NEW p \in Procs, MarkConflict(p) PROVE GateInv'
    BY <1>4, <1>d, <1>f DEF MarkConflict, Goto
<1>5. ASSUME NEW p \in Procs, Walk(p) PROVE GateInv'
    BY <1>5, <1>d, <1>f DEF Walk, RaiseUnauthorised, Raise, Goto
<1>6. ASSUME NEW p \in Procs, ReadRecord(p) PROVE GateInv'
    BY <1>6, <1>d, <1>f DEF ReadRecord, NextStep, AfterOutput, Raise, Goto
<1>7. ASSUME NEW p \in Procs, BeforeGate(p) PROVE GateInv'
    <2>1. /\ pc[p] = "before" /\ UNCHANGED <<inv, cur>>
          /\ cur[p] \in Steps /\ Touched(cur[p], "before")
          /\ pc' = [pc EXCEPT ![p] = pc'[p]] /\ pc'[p] \in {"final", "create"}
        BY <1>7, <1>d, BeforeGateMoves
    <2>2. \A s \in Steps : /\ appr'[s]["tool"] = appr[s]["tool"]
                           /\ s # cur[p] =>
                                  appr'[s]["before"] = appr[s]["before"]
        BY <1>d, <2>1 DEF Touched
    <2> QED
        BY <1>d, <2>1, <2>2
<1>8. ASSUME NEW p \in Procs, CreateRecord(p) PROVE GateInv'
    BY <1>8, <1>d, <1>f DEF CreateRecord, NoRecord, Raise, Goto
<1>9. ASSUME NEW p \in Procs, ReviewInterrupt(p) PROVE GateInv'
    <2>1. /\ pc[p] = "review" /\ UNCHANGED <<inv, cur>>
          /\ cur[p] \in Steps /\ Touched(cur[p], "tool")
          /\ pc' = [pc EXCEPT ![p] = pc'[p]] /\ pc'[p] \in {"final", "start"}
          /\ pc'[p] = "start" => appr'[cur[p]]["tool"].state = "approved"
        BY <1>9, <1>d, ReviewInterruptMoves
    <2>2. \A q \in Procs : q # p => pc'[q] = pc[q] /\ pc[q] \notin Inside
        BY <1>d, <1>f, <2>1
    <2>3. \A s \in Steps : /\ appr'[s]["before"] = appr[s]["before"]
                           /\ s # cur[p] => appr'[s]["tool"] = appr[s]["tool"]
        BY <1>d, <2>1 DEF Touched
    <2> QED
        BY <2>1, <2>2, <2>3
<1>10. ASSUME NEW p \in Procs, StartAttempt(p) PROVE GateInv'
    BY <1>10, <1>d, <1>f DEF StartAttempt, Save, Attempted, Goto
<1>11. ASSUME NEW p \in Procs, EnterHandler(p) PROVE GateInv'
    BY <1>11, <1>d, <1>f
    DEF EnterHandler, LosesAuthority, Unresolved, GiveUp, Goto
<1>12. ASSUME NEW p \in Procs, HandlerReturns(p) PROVE GateInv'
    <2>1. /\ UNCHANGED <<inv, appr, cur>> /\ pc[p] = "handler"
          /\ \E l \in {"output", "uncertain"} : pc' = [pc EXCEPT ![p] = l]
        BY <1>12 DEF HandlerReturns, LosesAuthority, Unresolved, GiveUp, Goto
    <2> QED
        BY <1>d, <2>1
<1>13. ASSUME NEW p \in Procs, HandlerFails(p) PROVE GateInv'
    BY <1>13, <1>d, <1>f DEF HandlerFails, GiveUp, Goto
<1>14. ASSUME NEW p \in Procs, HandlerUnresolved(p) PROVE GateInv'
    BY <1>14, <1>d, <1>f DEF HandlerUnresolved, Unresolved, GiveUp, Goto
<1>15. ASSUME NEW p \in Procs, HandlerInterrupts(p) PROVE GateInv'
    BY <1>15, <1>d, <1>f DEF HandlerInterrupts, Goto
<1>16. ASSUME NEW p \in Procs, Suspend(p) PROVE GateInv'
    <2>1. /\ pc[p] = "suspend" /\ UNCHANGED <<inv, cur>> /\ cur[p] \in Steps
          /\ inv[cur[p]].status = "interrupted"
        BY <1>16, <1>d DEF Suspend
    <2>2. /\ GateRequests(p, "tool", NoOutput)
          /\ pc' = [pc EXCEPT ![p] = "paused"]
        BY <1>16, <2>1
        DEF Suspend, GateHolds, GateRefuses, GateOpens, Goto
    <2>3. Touched(cur[p], "tool")
        BY <1>d, <2>1, <2>2, GateLeaves
    <2>4. \A q \in Procs : q # p => pc'[q] = pc[q] /\ pc[q] \notin Inside
        BY <1>d, <1>f, <2>1, <2>2
    <2>5. \A s \in Steps : /\ appr'[s]["before"] = appr[s]["before"]
                           /\ s # cur[p] => appr'[s]["tool"] = appr[s]["tool"]
        BY <1>d, <2>3 DEF Touched
    <2>6. pc'[p] = "paused"
        BY <1>d, <2>2
    <2> QED
        BY <2>1, <2>4, <2>5, <2>6
<1>17. ASSUME NEW p \in Procs, Paused(p) PROVE GateInv'
    BY <1>17, <1>d, <1>f DEF Paused, Unresolved, GiveUp, Raise, Goto
<1>18. ASSUME NEW p \in Procs, SaveUncertain(p) PROVE GateInv'
    BY <1>18, <1>d, <1>f DEF SaveUncertain, Save, Goto
<1>19. ASSUME NEW p \in Procs, SaveFailed(p) PROVE GateInv'
    BY <1>19, <1>d, <1>f DEF SaveFailed, Save, Goto
<1>20. ASSUME NEW p \in Procs, Retry(p) PROVE GateInv'
    BY <1>20, <1>d, <1>f DEF Retry, Goto
<1>21. ASSUME NEW p \in Procs, SaveOutput(p) PROVE GateInv'
    BY <1>21, <1>d, <1>f DEF SaveOutput, Save, AfterOutput, Goto
<1>22. ASSUME NEW p \in Procs, AfterGate(p) PROVE GateInv'
    <2>1. /\ pc[p] = "after" /\ UNCHANGED <<inv, cur>>
          /\ cur[p] \in Steps /\ Touched(cur[p], "after")
          /\ pc' = [pc EXCEPT ![p] = pc'[p]] /\ pc'[p] \in {"final", "commit"}
        BY <1>22, <1>d, AfterGateMoves
    <2>2. \A s \in Steps : /\ appr'[s]["tool"] = appr[s]["tool"]
                           /\ appr'[s]["before"] = appr[s]["before"]
        BY <1>d, <2>1 DEF Touched
    <2>3. \A q \in Procs : q # p => pc'[q] = pc[q] /\ pc[q] \notin Inside
        BY <1>d, <1>f, <2>1
    <2> QED
        BY <2>1, <2>2, <2>3
<1>23. ASSUME NEW p \in Procs, Commit(p) PROVE GateInv'
    BY <1>23, <1>d, <1>f DEF Commit, Save, NextStep, Goto
<1>24. ASSUME NEW p \in Procs, SaveRefused(p) PROVE GateInv'
    BY <1>24, <1>d, <1>f DEF SaveRefused, Raise, Goto
<1>25. ASSUME NEW p \in Procs, WalkDone(p) PROVE GateInv'
    BY <1>25, <1>d, <1>f DEF WalkDone, RaiseUnauthorised, Raise, Goto
<1>26. ASSUME NEW p \in Procs, Unwind(p) PROVE GateInv'
    BY <1>26, <1>d, <1>f DEF Unwind, Raise, Goto
<1>27. ASSUME NEW p \in Procs, Finalize(p) PROVE GateInv'
    BY <1>27, <1>d, <1>f
    DEF Finalize, Forget, LeaveWithConflict, Goto, NoRecord
<1>28. ASSUME NEW p \in Procs, Resume(p) PROVE GateInv'
    BY <1>28, <1>d, <1>f DEF Resume, Goto
<1>29. ASSUME NEW p \in Procs, Heartbeat(p) PROVE GateInv'
    BY <1>29, <1>d, <1>f DEF Heartbeat
<1>30. ASSUME NEW p \in Procs, TaskCancelled(p) PROVE GateInv'
    BY <1>30, <1>d, <1>f DEF TaskCancelled, Unresolved, GiveUp, Goto
<1>31. ASSUME NEW p \in Procs, Crash(p) PROVE GateInv'
    BY <1>31, <1>d, <1>f DEF Crash, Forget, Goto, NoRecord
<1>32. ASSUME NEW s \in Steps, NEW k \in Kinds, Decide(s, k)
      PROVE  GateInv'
    BY <1>32, <1>d, <1>f DEF Decide
<1>33. ASSUME NEW s \in Steps, NEW k \in Kinds, Expire(s, k)
      PROVE  GateInv'
    BY <1>33, <1>d, <1>f DEF Expire
<1>34. ASSUME NEW s \in Steps, ReconcileRetry(s) PROVE GateInv'
    <2>1. /\ UNCHANGED <<appr, pc, cur>>
          /\ \A r \in Steps : r # s => inv'[r] = inv[r]
        BY <1>34, <1>d DEF ReconcileRetry
    <2>2. inv[s].status # "interrupted"
        BY <1>34 DEF ReconcileRetry, Reconcilable, Unclear
    <2> QED
        BY <1>d, <2>1, <2>2
<1>35. ASSUME NEW s \in Steps, ReconcileOutput(s) PROVE GateInv'
    <2>1. /\ UNCHANGED <<appr, pc, cur>>
          /\ \A r \in Steps : r # s => inv'[r] = inv[r]
        BY <1>35, <1>d DEF ReconcileOutput
    <2>2. inv[s].status # "interrupted"
        BY <1>35 DEF ReconcileOutput, Reconcilable, Unclear
    <2> QED
        BY <1>d, <2>1, <2>2
<1>36. ASSUME Cancel PROVE GateInv'
    BY <1>36, <1>d, <1>f DEF Cancel, Terminal
<1>37. ASSUME LeaseExpires PROVE GateInv'
    BY <1>37, <1>d, <1>f DEF LeaseExpires
<1>38. CASE UNCHANGED vars
    BY <1>38, <1>d, <1>f DEF vars
<1> QED
    BY <1>1, <1>2, <1>3, <1>4, <1>5, <1>6, <1>7, <1>8, <1>9, <1>10, <1>11,
       <1>12, <1>13, <1>14, <1>15, <1>16, <1>17, <1>18, <1>19, <1>20, <1>21,
       <1>22, <1>23, <1>24, <1>25, <1>26, <1>27, <1>28, <1>29, <1>30, <1>31,
       <1>32, <1>33, <1>34, <1>35, <1>36, <1>37, <1>38
    DEF Next, Advance, Disturb

LEMMA RejectedIsOpen ==
    ASSUME TypeInv, FenceInv, OutputInv, ReviewInv, GateInv,
           NEW s \in Steps, NEW k \in Kinds, appr[s][k].state = "rejected"
    PROVE  s \notin done
<1>1. CASE k = "before"
    BY <1>1 DEF GateInv, ReviewInv, Approved, FenceInv, CommittedStays
<1>2. CASE k = "tool"
    BY <1>2 DEF GateInv, Undenied, FenceInv, CommittedStays
<1>3. CASE k = "after"
    BY <1>3 DEF OutputInv, ReviewedOnlyIfNeeded, CommitsReviewedOutput, Needs
<1> QED
    BY <1>1, <1>2, <1>3 DEF Kinds

(* A run with a rejected review never succeeds, not even after operators   *)
(* reconcile its steps and queue it again.                                 *)
THEOREM RejectionCorrect ==
    ASSUME ~Stalls
    PROVE  Spec => []RejectionIsFinal
<1>1. Init => GateInv
    BY DEF Init, GateInv, GateAt, NoApproval, Undenied, Kinds
<1>2. (TypeInv /\ FenceInv /\ OutputInv /\ ReviewInv /\ GateInv /\ OrderInv)
         => RejectionIsFinal
    BY RejectedIsOpen DEF RejectionIsFinal, OrderInv, Concluded
<1>3. QED
    BY <1>1, <1>2, GateStep, Fenced, ReviewedOutputs, Reviewed, Ordered, PTL
    DEF Spec

-----------------------------------------------------------------------------
(* The status a run ends with                                              *)

(* A Conflict is met only by a worker, and only on account of another      *)
(* process that executes the run.                                          *)
DisputeInv ==
    /\ \A p \in Procs : pc[p] = "conflict" => p \in Workers
    /\ \A p \in Workers :
          pc[p] = "conflict" \/ (pc[p] = "polled" /\ run.live)
              => \E q \in Procs : q # p

LEMMA DisputeStep ==
    (Drifted \cap Workers = {}) /\ TypeInv /\ FenceInv /\ DisputeInv
        /\ [Next]_vars
        => DisputeInv'
<1> SUFFICES ASSUME Drifted \cap Workers = {}, TypeInv, FenceInv, DisputeInv,
                    [Next]_vars
             PROVE  DisputeInv'
    OBVIOUS
<1>d. /\ DOMAIN pc = Procs /\ Workers \subseteq Procs
      /\ "live" \in DOMAIN run /\ Workers \cap Clis = {}
      /\ \A p \in Procs : pc[p] = "final" => run.owner = p
    BY ConstantsAssumption DEF TypeInv, PlaceType, RunType, Procs, FenceInv,
       ExecutorHoldsLease, Executing, Inside
<1> USE DEF DisputeInv, Executing, Inside, db, local, ghost
<1>1. ASSUME NEW p \in Procs, Poll(p) PROVE DisputeInv'
    BY <1>1, <1>d DEF Poll, Goto, Ready
<1>2. ASSUME NEW p \in Procs, Claim(p) PROVE DisputeInv'
    BY <1>2, <1>d DEF Claim, Goto, Ready
<1>3. ASSUME NEW p \in Procs, ClaimRefused(p) PROVE DisputeInv'
    BY <1>3, <1>d DEF ClaimRefused, LeaveWithConflict, Goto, Ready
<1>4. ASSUME NEW p \in Procs, MarkConflict(p) PROVE DisputeInv'
    BY <1>4, <1>d DEF MarkConflict, Goto, Ready
<1>5. ASSUME NEW p \in Procs, Walk(p) PROVE DisputeInv'
    BY <1>5, <1>d DEF Walk, RaiseUnauthorised, Raise, Goto, Ready
<1>6. ASSUME NEW p \in Procs, ReadRecord(p) PROVE DisputeInv'
    BY <1>6, <1>d DEF ReadRecord, NextStep, AfterOutput, Raise, Goto, Ready
<1>7. ASSUME NEW p \in Procs, BeforeGate(p) PROVE DisputeInv'
    BY <1>7, <1>d
    DEF BeforeGate, GateRequests, GateHolds, GateRefuses, GateOpens, Raise,
        Goto, Ready
<1>8. ASSUME NEW p \in Procs, CreateRecord(p) PROVE DisputeInv'
    BY <1>8, <1>d DEF CreateRecord, NoRecord, Raise, Goto, Ready
<1>9. ASSUME NEW p \in Procs, ReviewInterrupt(p) PROVE DisputeInv'
    BY <1>9, <1>d
    DEF ReviewInterrupt, GateRequests, GateHolds, GateRefuses, GateOpens,
        Raise, Goto, Ready
<1>10. ASSUME NEW p \in Procs, StartAttempt(p) PROVE DisputeInv'
    BY <1>10, <1>d DEF StartAttempt, Save, Attempted, Goto, Ready
<1>11. ASSUME NEW p \in Procs, EnterHandler(p) PROVE DisputeInv'
    BY <1>11, <1>d
    DEF EnterHandler, LosesAuthority, Unresolved, GiveUp, Goto, Ready
<1>12. ASSUME NEW p \in Procs, HandlerReturns(p) PROVE DisputeInv'
    BY <1>12, <1>d
    DEF HandlerReturns, LosesAuthority, Unresolved, GiveUp, Goto, Ready
<1>13. ASSUME NEW p \in Procs, HandlerFails(p) PROVE DisputeInv'
    BY <1>13, <1>d DEF HandlerFails, GiveUp, Goto, Ready
<1>14. ASSUME NEW p \in Procs, HandlerUnresolved(p) PROVE DisputeInv'
    BY <1>14, <1>d DEF HandlerUnresolved, Unresolved, GiveUp, Goto, Ready
<1>15. ASSUME NEW p \in Procs, HandlerInterrupts(p) PROVE DisputeInv'
    BY <1>15, <1>d DEF HandlerInterrupts, Goto, Ready
<1>16. ASSUME NEW p \in Procs, Suspend(p) PROVE DisputeInv'
    BY <1>16, <1>d
    DEF Suspend, GateRequests, GateHolds, GateRefuses, GateOpens, GiveUp,
        Goto, Ready
<1>17. ASSUME NEW p \in Procs, Paused(p) PROVE DisputeInv'
    BY <1>17, <1>d DEF Paused, Unresolved, GiveUp, Raise, Goto, Ready
<1>18. ASSUME NEW p \in Procs, SaveUncertain(p) PROVE DisputeInv'
    BY <1>18, <1>d DEF SaveUncertain, Save, Goto, Ready
<1>19. ASSUME NEW p \in Procs, SaveFailed(p) PROVE DisputeInv'
    BY <1>19, <1>d DEF SaveFailed, Save, Goto, Ready
<1>20. ASSUME NEW p \in Procs, Retry(p) PROVE DisputeInv'
    BY <1>20, <1>d DEF Retry, Goto, Ready
<1>21. ASSUME NEW p \in Procs, SaveOutput(p) PROVE DisputeInv'
    BY <1>21, <1>d DEF SaveOutput, Save, AfterOutput, Goto, Ready
<1>22. ASSUME NEW p \in Procs, AfterGate(p) PROVE DisputeInv'
    BY <1>22, <1>d
    DEF AfterGate, GateRequests, GateHolds, GateRefuses, GateOpens, Raise,
        Goto, Ready
<1>23. ASSUME NEW p \in Procs, Commit(p) PROVE DisputeInv'
    BY <1>23, <1>d DEF Commit, Save, NextStep, Goto, Ready
<1>24. ASSUME NEW p \in Procs, SaveRefused(p) PROVE DisputeInv'
    BY <1>24, <1>d DEF SaveRefused, Raise, Goto, Ready
<1>25. ASSUME NEW p \in Procs, WalkDone(p) PROVE DisputeInv'
    BY <1>25, <1>d DEF WalkDone, RaiseUnauthorised, Raise, Goto, Ready
<1>26. ASSUME NEW p \in Procs, Unwind(p) PROVE DisputeInv'
    BY <1>26, <1>d DEF Unwind, Raise, Goto, Ready
<1>27. ASSUME NEW p \in Procs, Finalize(p) PROVE DisputeInv'
    BY <1>27, <1>d
    DEF Finalize, Forget, LeaveWithConflict, Goto, NoRecord, Ready
<1>28. ASSUME NEW p \in Procs, Resume(p) PROVE DisputeInv'
    BY <1>28, <1>d DEF Resume, Goto, Ready
<1>29. ASSUME NEW p \in Procs, Heartbeat(p) PROVE DisputeInv'
    BY <1>29, <1>d DEF Heartbeat, Ready
<1>30. ASSUME NEW p \in Procs, TaskCancelled(p) PROVE DisputeInv'
    BY <1>30, <1>d DEF TaskCancelled, Unresolved, GiveUp, Goto, Ready
<1>31. ASSUME NEW p \in Procs, Crash(p) PROVE DisputeInv'
    BY <1>31, <1>d DEF Crash, Forget, Goto, NoRecord, Ready
<1>32. ASSUME NEW s \in Steps, NEW k \in Kinds, Decide(s, k)
      PROVE  DisputeInv'
    BY <1>32, <1>d DEF Decide, Ready
<1>33. ASSUME NEW s \in Steps, NEW k \in Kinds, Expire(s, k)
      PROVE  DisputeInv'
    BY <1>33, <1>d DEF Expire, Ready
<1>34. ASSUME NEW s \in Steps, ReconcileRetry(s) PROVE DisputeInv'
    BY <1>34, <1>d DEF ReconcileRetry, Reconcilable, Ready
<1>35. ASSUME NEW s \in Steps, ReconcileOutput(s) PROVE DisputeInv'
    BY <1>35, <1>d DEF ReconcileOutput, Reconcilable, Ready
<1>36. ASSUME Cancel PROVE DisputeInv'
    BY <1>36, <1>d DEF Cancel, Terminal, Ready
<1>37. ASSUME LeaseExpires PROVE DisputeInv'
    BY <1>37, <1>d DEF LeaseExpires, Ready
<1>38. CASE UNCHANGED vars
    BY <1>38, <1>d DEF vars, Ready
<1> QED
    BY <1>1, <1>2, <1>3, <1>4, <1>5, <1>6, <1>7, <1>8, <1>9, <1>10, <1>11,
       <1>12, <1>13, <1>14, <1>15, <1>16, <1>17, <1>18, <1>19, <1>20, <1>21,
       <1>22, <1>23, <1>24, <1>25, <1>26, <1>27, <1>28, <1>29, <1>30, <1>31,
       <1>32, <1>33, <1>34, <1>35, <1>36, <1>37, <1>38
    DEF Next, Advance, Disturb

Undisputed == \A p \in Workers, q \in Procs : p = q

RunningInv == \A p \in Procs : Executing(p) => run.status = "running"

FlagInv ==
    HasUnclearEffects => \/ run.unclear
                         \/ \E p \in Procs : Executing(p)
                         \/ run.status = "running" /\ Undisputed

LEMMA RunningStep ==
    TypeInv /\ FenceInv /\ RunningInv /\ [Next]_vars => RunningInv'
<1> SUFFICES ASSUME TypeInv, FenceInv, RunningInv, [Next]_vars
             PROVE  RunningInv'
    OBVIOUS
<1>d. /\ DOMAIN pc = Procs
      /\ DOMAIN run = {"status", "owner", "live", "cancel", "unclear", "count"}
    BY DEF TypeInv, PlaceType, RunType
<1>f. /\ \A p \in Procs : pc[p] \in Inside => run.live
      /\ \A p, q \in Procs : pc[p] \in Inside /\ pc[q] \in Inside => p = q
    BY Alone DEF FenceInv, ExecutorHoldsLease, Executing
<1> USE DEF RunningInv, Executing, Inside, db, local, ghost
<1>1. ASSUME NEW p \in Procs, Poll(p) PROVE RunningInv'
    BY <1>1, <1>d, <1>f DEF Poll, Goto
<1>2. ASSUME NEW p \in Procs, Claim(p) PROVE RunningInv'
    BY <1>2, <1>d, <1>f DEF Claim, Goto
<1>3. ASSUME NEW p \in Procs, ClaimRefused(p) PROVE RunningInv'
    BY <1>3, <1>d, <1>f DEF ClaimRefused, LeaveWithConflict, Goto
<1>4. ASSUME NEW p \in Procs, MarkConflict(p) PROVE RunningInv'
    BY <1>4, <1>d, <1>f DEF MarkConflict, Goto
<1>5. ASSUME NEW p \in Procs, Walk(p) PROVE RunningInv'
    BY <1>5, <1>d, <1>f DEF Walk, RaiseUnauthorised, Raise, Goto
<1>6. ASSUME NEW p \in Procs, ReadRecord(p) PROVE RunningInv'
    BY <1>6, <1>d, <1>f DEF ReadRecord, NextStep, AfterOutput, Raise, Goto
<1>7. ASSUME NEW p \in Procs, BeforeGate(p) PROVE RunningInv'
    BY <1>7, <1>d, <1>f
    DEF BeforeGate, GateRequests, GateHolds, GateRefuses, GateOpens, Raise,
        Goto
<1>8. ASSUME NEW p \in Procs, CreateRecord(p) PROVE RunningInv'
    BY <1>8, <1>d, <1>f DEF CreateRecord, NoRecord, Raise, Goto
<1>9. ASSUME NEW p \in Procs, ReviewInterrupt(p) PROVE RunningInv'
    BY <1>9, <1>d, <1>f
    DEF ReviewInterrupt, GateRequests, GateHolds, GateRefuses, GateOpens,
        Raise, Goto
<1>10. ASSUME NEW p \in Procs, StartAttempt(p) PROVE RunningInv'
    BY <1>10, <1>d, <1>f DEF StartAttempt, Save, Attempted, Goto
<1>11. ASSUME NEW p \in Procs, EnterHandler(p) PROVE RunningInv'
    BY <1>11, <1>d, <1>f
    DEF EnterHandler, LosesAuthority, Unresolved, GiveUp, Goto
<1>12. ASSUME NEW p \in Procs, HandlerReturns(p) PROVE RunningInv'
    BY <1>12, <1>d, <1>f
    DEF HandlerReturns, LosesAuthority, Unresolved, GiveUp, Goto
<1>13. ASSUME NEW p \in Procs, HandlerFails(p) PROVE RunningInv'
    BY <1>13, <1>d, <1>f DEF HandlerFails, GiveUp, Goto
<1>14. ASSUME NEW p \in Procs, HandlerUnresolved(p) PROVE RunningInv'
    BY <1>14, <1>d, <1>f DEF HandlerUnresolved, Unresolved, GiveUp, Goto
<1>15. ASSUME NEW p \in Procs, HandlerInterrupts(p) PROVE RunningInv'
    BY <1>15, <1>d, <1>f DEF HandlerInterrupts, Goto
<1>16. ASSUME NEW p \in Procs, Suspend(p) PROVE RunningInv'
    BY <1>16, <1>d, <1>f
    DEF Suspend, GateRequests, GateHolds, GateRefuses, GateOpens, GiveUp, Goto
<1>17. ASSUME NEW p \in Procs, Paused(p) PROVE RunningInv'
    BY <1>17, <1>d, <1>f DEF Paused, Unresolved, GiveUp, Raise, Goto
<1>18. ASSUME NEW p \in Procs, SaveUncertain(p) PROVE RunningInv'
    BY <1>18, <1>d, <1>f DEF SaveUncertain, Save, Goto
<1>19. ASSUME NEW p \in Procs, SaveFailed(p) PROVE RunningInv'
    BY <1>19, <1>d, <1>f DEF SaveFailed, Save, Goto
<1>20. ASSUME NEW p \in Procs, Retry(p) PROVE RunningInv'
    BY <1>20, <1>d, <1>f DEF Retry, Goto
<1>21. ASSUME NEW p \in Procs, SaveOutput(p) PROVE RunningInv'
    BY <1>21, <1>d, <1>f DEF SaveOutput, Save, AfterOutput, Goto
<1>22. ASSUME NEW p \in Procs, AfterGate(p) PROVE RunningInv'
    BY <1>22, <1>d, <1>f
    DEF AfterGate, GateRequests, GateHolds, GateRefuses, GateOpens, Raise,
        Goto
<1>23. ASSUME NEW p \in Procs, Commit(p) PROVE RunningInv'
    BY <1>23, <1>d, <1>f DEF Commit, Save, NextStep, Goto
<1>24. ASSUME NEW p \in Procs, SaveRefused(p) PROVE RunningInv'
    BY <1>24, <1>d, <1>f DEF SaveRefused, Raise, Goto
<1>25. ASSUME NEW p \in Procs, WalkDone(p) PROVE RunningInv'
    BY <1>25, <1>d, <1>f DEF WalkDone, RaiseUnauthorised, Raise, Goto
<1>26. ASSUME NEW p \in Procs, Unwind(p) PROVE RunningInv'
    BY <1>26, <1>d, <1>f DEF Unwind, Raise, Goto
<1>27. ASSUME NEW p \in Procs, Finalize(p) PROVE RunningInv'
    BY <1>27, <1>d, <1>f
    DEF Finalize, Forget, LeaveWithConflict, Goto, NoRecord
<1>28. ASSUME NEW p \in Procs, Resume(p) PROVE RunningInv'
    BY <1>28, <1>d, <1>f DEF Resume, Goto
<1>29. ASSUME NEW p \in Procs, Heartbeat(p) PROVE RunningInv'
    BY <1>29, <1>d, <1>f DEF Heartbeat
<1>30. ASSUME NEW p \in Procs, TaskCancelled(p) PROVE RunningInv'
    BY <1>30, <1>d, <1>f DEF TaskCancelled, Unresolved, GiveUp, Goto
<1>31. ASSUME NEW p \in Procs, Crash(p) PROVE RunningInv'
    BY <1>31, <1>d, <1>f DEF Crash, Forget, Goto, NoRecord
<1>32. ASSUME NEW s \in Steps, NEW k \in Kinds, Decide(s, k)
      PROVE  RunningInv'
    BY <1>32, <1>d, <1>f DEF Decide
<1>33. ASSUME NEW s \in Steps, NEW k \in Kinds, Expire(s, k)
      PROVE  RunningInv'
    BY <1>33, <1>d, <1>f DEF Expire
<1>34. ASSUME NEW s \in Steps, ReconcileRetry(s) PROVE RunningInv'
    BY <1>34, <1>d, <1>f DEF ReconcileRetry, Reconcilable
<1>35. ASSUME NEW s \in Steps, ReconcileOutput(s) PROVE RunningInv'
    BY <1>35, <1>d, <1>f DEF ReconcileOutput, Reconcilable
<1>36. ASSUME Cancel PROVE RunningInv'
    BY <1>36, <1>d, <1>f DEF Cancel, Terminal
<1>37. ASSUME LeaseExpires PROVE RunningInv'
    BY <1>37, <1>d, <1>f DEF LeaseExpires
<1>38. CASE UNCHANGED vars
    BY <1>38, <1>d, <1>f DEF vars
<1> QED
    BY <1>1, <1>2, <1>3, <1>4, <1>5, <1>6, <1>7, <1>8, <1>9, <1>10, <1>11,
       <1>12, <1>13, <1>14, <1>15, <1>16, <1>17, <1>18, <1>19, <1>20, <1>21,
       <1>22, <1>23, <1>24, <1>25, <1>26, <1>27, <1>28, <1>29, <1>30, <1>31,
       <1>32, <1>33, <1>34, <1>35, <1>36, <1>37, <1>38
    DEF Next, Advance, Disturb

LEMMA FlagStep ==
    ASSUME MaxCrashes = 0 \/ Undisputed, TypeInv, FenceInv, OrderInv,
           DisputeInv, RunningInv, FlagInv, [Next]_vars
    PROVE  FlagInv'
<1>d. /\ DOMAIN pc = Procs /\ DOMAIN inv = Steps
      /\ DOMAIN run = {"status", "owner", "live", "cancel", "unclear", "count"}
      /\ \A p \in Procs : "status" \in DOMAIN loc[p]
      /\ \A s \in Steps : "status" \in DOMAIN inv[s]
      /\ \A p \in Procs : pc[p] \notin Leaving => cur[p] \in Steps
      /\ crashes \in Nat
    BY DEF TypeInv, PlaceType, CopyType, LedgerType, GhostType, RunType,
       Record
<1>f. /\ \A p \in Procs : pc[p] \in Inside => run.live /\ run.status = "running"
      /\ \A p \in Procs : pc[p] = "conflict" => ~Undisputed
      /\ MaxCrashes = 0 \/ Undisputed
    BY DEF FenceInv, ExecutorHoldsLease, RunningInv, Executing, DisputeInv,
       Undisputed
<1>g. \A r, s \in Steps :
          {inv[r].status, inv[s].status} \cap {"none", "succeeded"} = {}
              => r = s
    <2>1. ASSUME NEW r \in Steps, NEW s \in Steps, r < s,
                 inv[s].status # "none"
          PROVE  inv[r].status = "succeeded"
        <3>1. 1..(s - 1) \subseteq done
            BY <2>1 DEF OrderInv, Recorded
        <3>2. r \in 1..(s - 1)
            BY <2>1, ConstantsAssumption DEF Steps
        <3> QED
            BY <3>1, <3>2 DEF FenceInv, CommittedStays
    <2>2. \A r, s \in Steps : r = s \/ r < s \/ s < r
        BY ConstantsAssumption DEF Steps
    <2> QED
        BY <2>1, <2>2
<1> USE DEF FlagInv, HasUnclearEffects, Unclear, Executing, Inside, Leaving,
           db, local, ghost
<1>1. ASSUME NEW p \in Procs, Poll(p) PROVE FlagInv'
    BY <1>1, <1>d, <1>f DEF Poll, Goto
<1>2. ASSUME NEW p \in Procs, Claim(p) PROVE FlagInv'
    BY <1>2, <1>d, <1>f DEF Claim, Goto
<1>3. ASSUME NEW p \in Procs, ClaimRefused(p) PROVE FlagInv'
    BY <1>3, <1>d, <1>f DEF ClaimRefused, LeaveWithConflict, Goto
<1>4. ASSUME NEW p \in Procs, MarkConflict(p) PROVE FlagInv'
    BY <1>4, <1>d, <1>f DEF MarkConflict, Goto
<1>5. ASSUME NEW p \in Procs, Walk(p) PROVE FlagInv'
    BY <1>5, <1>d, <1>f DEF Walk, RaiseUnauthorised, Raise, Goto
<1>6. ASSUME NEW p \in Procs, ReadRecord(p) PROVE FlagInv'
    BY <1>6, <1>d, <1>f DEF ReadRecord, NextStep, AfterOutput, Raise, Goto
<1>7. ASSUME NEW p \in Procs, BeforeGate(p) PROVE FlagInv'
    BY <1>7, <1>d, <1>f
    DEF BeforeGate, GateRequests, GateHolds, GateRefuses, GateOpens, Raise,
        Goto
<1>8. ASSUME NEW p \in Procs, CreateRecord(p) PROVE FlagInv'
    BY <1>8, <1>d, <1>f DEF CreateRecord, NoRecord, Raise, Goto
<1>9. ASSUME NEW p \in Procs, ReviewInterrupt(p) PROVE FlagInv'
    BY <1>9, <1>d, <1>f
    DEF ReviewInterrupt, GateRequests, GateHolds, GateRefuses, GateOpens,
        Raise, Goto
<1>10. ASSUME NEW p \in Procs, StartAttempt(p) PROVE FlagInv'
    BY <1>10, <1>d, <1>f DEF StartAttempt, Save, Attempted, Goto
<1>11. ASSUME NEW p \in Procs, EnterHandler(p) PROVE FlagInv'
    BY <1>11, <1>d, <1>f
    DEF EnterHandler, LosesAuthority, Unresolved, GiveUp, Goto
<1>12. ASSUME NEW p \in Procs, HandlerReturns(p) PROVE FlagInv'
    BY <1>12, <1>d, <1>f
    DEF HandlerReturns, LosesAuthority, Unresolved, GiveUp, Goto
<1>13. ASSUME NEW p \in Procs, HandlerFails(p) PROVE FlagInv'
    BY <1>13, <1>d, <1>f DEF HandlerFails, GiveUp, Goto
<1>14. ASSUME NEW p \in Procs, HandlerUnresolved(p) PROVE FlagInv'
    BY <1>14, <1>d, <1>f DEF HandlerUnresolved, Unresolved, GiveUp, Goto
<1>15. ASSUME NEW p \in Procs, HandlerInterrupts(p) PROVE FlagInv'
    BY <1>15, <1>d, <1>f DEF HandlerInterrupts, Goto
<1>16. ASSUME NEW p \in Procs, Suspend(p) PROVE FlagInv'
    BY <1>16, <1>d, <1>f
    DEF Suspend, GateRequests, GateHolds, GateRefuses, GateOpens, GiveUp, Goto
<1>17. ASSUME NEW p \in Procs, Paused(p) PROVE FlagInv'
    BY <1>17, <1>d, <1>f DEF Paused, Unresolved, GiveUp, Raise, Goto
<1>18. ASSUME NEW p \in Procs, SaveUncertain(p) PROVE FlagInv'
    BY <1>18, <1>d, <1>f DEF SaveUncertain, Save, Goto
<1>19. ASSUME NEW p \in Procs, SaveFailed(p) PROVE FlagInv'
    BY <1>19, <1>d, <1>f DEF SaveFailed, Save, Goto
<1>20. ASSUME NEW p \in Procs, Retry(p) PROVE FlagInv'
    BY <1>20, <1>d, <1>f DEF Retry, Goto
<1>21. ASSUME NEW p \in Procs, SaveOutput(p) PROVE FlagInv'
    BY <1>21, <1>d, <1>f DEF SaveOutput, Save, AfterOutput, Goto
<1>22. ASSUME NEW p \in Procs, AfterGate(p) PROVE FlagInv'
    BY <1>22, <1>d, <1>f
    DEF AfterGate, GateRequests, GateHolds, GateRefuses, GateOpens, Raise,
        Goto
<1>23. ASSUME NEW p \in Procs, Commit(p) PROVE FlagInv'
    BY <1>23, <1>d, <1>f DEF Commit, Save, NextStep, Goto
<1>24. ASSUME NEW p \in Procs, SaveRefused(p) PROVE FlagInv'
    BY <1>24, <1>d, <1>f DEF SaveRefused, Raise, Goto
<1>25. ASSUME NEW p \in Procs, WalkDone(p) PROVE FlagInv'
    BY <1>25, <1>d, <1>f DEF WalkDone, RaiseUnauthorised, Raise, Goto
<1>26. ASSUME NEW p \in Procs, Unwind(p) PROVE FlagInv'
    BY <1>26, <1>d, <1>f DEF Unwind, Raise, Goto
<1>27. ASSUME NEW p \in Procs, Finalize(p) PROVE FlagInv'
    <2>1. run.owner = p
        BY <1>27 DEF Finalize, FenceInv, ExecutorHoldsLease
    <2>2. run'.unclear = HasUnclearEffects /\ UNCHANGED inv
        BY <1>27, <1>d, <2>1 DEF Finalize
    <2> QED
        BY <2>2
<1>28. ASSUME NEW p \in Procs, Resume(p) PROVE FlagInv'
    BY <1>28, <1>d, <1>f DEF Resume, Goto
<1>29. ASSUME NEW p \in Procs, Heartbeat(p) PROVE FlagInv'
    BY <1>29, <1>d, <1>f DEF Heartbeat
<1>30. ASSUME NEW p \in Procs, TaskCancelled(p) PROVE FlagInv'
    BY <1>30, <1>d, <1>f DEF TaskCancelled, Unresolved, GiveUp, Goto
<1>31. ASSUME NEW p \in Procs, Crash(p) PROVE FlagInv'
    BY <1>31, <1>d, <1>f DEF Crash, Forget, Goto, NoRecord
<1>32. ASSUME NEW s \in Steps, NEW k \in Kinds, Decide(s, k)
      PROVE  FlagInv'
    BY <1>32, <1>d, <1>f DEF Decide
<1>33. ASSUME NEW s \in Steps, NEW k \in Kinds, Expire(s, k)
      PROVE  FlagInv'
    BY <1>33, <1>d, <1>f DEF Expire
<1>34. ASSUME NEW s \in Steps, ReconcileRetry(s) PROVE FlagInv'
    <2>1. inv[s].status \in Unclear \cup {"failed"}
        BY <1>34 DEF ReconcileRetry, Reconcilable
    <2>2. /\ inv'[s].status = "pending"
          /\ \A r \in Steps : r # s => inv'[r] = inv[r]
        BY <1>34, <1>d DEF ReconcileRetry
    <2> QED
        BY <1>g, <2>1, <2>2
<1>35. ASSUME NEW s \in Steps, ReconcileOutput(s) PROVE FlagInv'
    <2>1. inv[s].status \in Unclear \cup {"failed"}
        BY <1>35 DEF ReconcileOutput, Reconcilable
    <2>2. /\ inv'[s].status = "output_ready"
          /\ \A r \in Steps : r # s => inv'[r] = inv[r]
        BY <1>35, <1>d DEF ReconcileOutput
    <2> QED
        BY <1>g, <2>1, <2>2
<1>36. ASSUME Cancel PROVE FlagInv'
    BY <1>36, <1>d, <1>f DEF Cancel, Terminal
<1>37. ASSUME LeaseExpires PROVE FlagInv'
    BY <1>37, <1>d, <1>f DEF LeaseExpires
<1>38. CASE UNCHANGED vars
    BY <1>38, <1>d, <1>f DEF vars
<1> QED
    BY <1>1, <1>2, <1>3, <1>4, <1>5, <1>6, <1>7, <1>8, <1>9, <1>10, <1>11,
       <1>12, <1>13, <1>14, <1>15, <1>16, <1>17, <1>18, <1>19, <1>20, <1>21,
       <1>22, <1>23, <1>24, <1>25, <1>26, <1>27, <1>28, <1>29, <1>30, <1>31,
       <1>32, <1>33, <1>34, <1>35, <1>36, <1>37, <1>38
    DEF Next, Advance, Disturb

LEMMA Running ==
    ASSUME ~Stalls
    PROVE  Spec => []RunningInv
<1>1. Init => RunningInv
    BY DEF Init, RunningInv, Executing, Inside
<1>2. QED
    BY <1>1, RunningStep, Fenced, PTL DEF Spec

LEMMA Disputed ==
    ASSUME ~Stalls, Drifted \cap Workers = {}
    PROVE  Spec => []DisputeInv
<1>1. Init => DisputeInv
    BY DEF Init, DisputeInv, Procs
<1>2. TypeInv /\ FenceInv /\ DisputeInv /\ [Next]_vars => DisputeInv'
    BY DisputeStep
<1>3. QED
    BY <1>1, <1>2, Fenced, PTL DEF Spec

(* has_uncertain_effects of a finished run does not hide an effect that    *)
(* may have happened, if processes do not crash or if a worker has no      *)
(* other process to dispute the run with.  (With both, a stale Conflict    *)
(* and then a cancellation end a run whose flag is not up to date.)        *)
THEOREM FlagCorrect ==
    ASSUME ~Stalls, Drifted \cap Workers = {}, MaxCrashes = 0 \/ Undisputed
    PROVE  Spec => []FlagTellsUnclear
<1>1. Init => FlagInv
    BY DEF Init, FlagInv, HasUnclearEffects, Unclear, NoRecord
<1>2. (TypeInv /\ FenceInv /\ OrderInv /\ DisputeInv /\ RunningInv /\ FlagInv
         /\ [Next]_vars) => FlagInv'
    BY FlagStep
<1>3. RunningInv /\ FlagInv => FlagTellsUnclear
    BY DEF RunningInv, FlagInv, FlagTellsUnclear, HasUnclearEffects, Terminal
<1>4. QED
    BY <1>1, <1>2, <1>3, Fenced, Ordered, Disputed, Running, PTL DEF Spec

(* What may overwrite the status of a finished run at all.                 *)
LEMMA FinishedStep ==
    ASSUME TypeInv, FenceInv, RunningInv, [Next]_vars, run.status \in Terminal
    PROVE  \/ run'.status = run.status
           \/ reconciles' > reconciles
           \/ run'.status = "uncertain" /\ \E p \in Procs : pc[p] = "conflict"
<1>d. /\ DOMAIN run = {"status", "owner", "live", "cancel", "unclear", "count"}
      /\ reconciles \in Nat
      /\ \A p \in Procs : pc[p] \notin Inside
    BY DEF TypeInv, RunType, GhostType, RunningInv, Executing, Terminal
<1>1. CASE UNCHANGED run
    BY <1>1
<1>2. ASSUME NEW p \in Procs, Advance(p)
      PROVE  UNCHANGED run \/ MarkConflict(p)
    BY <1>2, <1>d
    DEF Advance, Poll, Claim, ClaimRefused, Walk, ReadRecord, BeforeGate,
        CreateRecord, ReviewInterrupt, StartAttempt, EnterHandler,
        HandlerReturns, HandlerFails, HandlerUnresolved, HandlerInterrupts,
        Suspend, Paused, SaveUncertain, SaveFailed, Retry, SaveOutput,
        AfterGate, Commit, SaveRefused, WalkDone, Unwind, Finalize, Inside, db
<1>3. ASSUME NEW p \in Procs, MarkConflict(p)
      PROVE  \/ UNCHANGED run
             \/ run'.status = "uncertain" /\ pc[p] = "conflict"
    BY <1>3, <1>d DEF MarkConflict
<1>4. ASSUME NEW s \in Steps, ReconcileRetry(s) \/ ReconcileOutput(s)
      PROVE  reconciles' > reconciles
    <2>1. reconciles' = reconciles + 1
        BY <1>4 DEF ReconcileRetry, ReconcileOutput, Reconcilable
    <2>2. reconciles \in Nat
        BY <1>d
    <2> QED
        BY <2>1, <2>2
<1>5. ASSUME NEW p \in Procs, Disturb(p)
      PROVE  UNCHANGED run
    BY <1>5, <1>d
    DEF Disturb, Resume, Heartbeat, TaskCancelled, Crash, Executing, Inside, db
<1>6. ASSUME LeaseExpires PROVE run'.status = run.status
    BY <1>6, <1>d DEF LeaseExpires
<1> QED
    BY <1>1, <1>2, <1>3, <1>4, <1>5, <1>6
    DEF Next, Decide, Expire, Cancel, vars

(* A finished run keeps its status until an operator queues it again, if a *)
(* worker has no other process to dispute the run with.                    *)
THEOREM TerminalCorrect ==
    ASSUME ~Stalls, Drifted \cap Workers = {}, Undisputed
    PROVE  Spec => TerminalStays
<1>1. (TypeInv /\ FenceInv /\ DisputeInv /\ RunningInv /\ [Next]_vars)
         => [run.status \in Terminal =>
                run'.status = run.status \/ reconciles' > reconciles]_vars
    BY FinishedStep DEF DisputeInv, Undisputed
<1>2. QED
    BY <1>1, Fenced, Disputed, Running, PTL DEF Spec, TerminalStays

(* However many processes dispute it, a finished run changes its status    *)
(* only by an operator or to "uncertain", never to another result.         *)
THEOREM FinishedCorrect ==
    ASSUME ~Stalls
    PROVE  Spec => [][run.status \in Terminal =>
                         \/ run'.status \in {run.status, "uncertain"}
                         \/ reconciles' > reconciles]_vars
<1>1. (TypeInv /\ FenceInv /\ RunningInv /\ [Next]_vars)
         => [run.status \in Terminal =>
                \/ run'.status \in {run.status, "uncertain"}
                \/ reconciles' > reconciles]_vars
    BY FinishedStep
<1>2. QED
    BY <1>1, Fenced, Running, PTL DEF Spec
=============================================================================
