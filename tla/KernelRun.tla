----------------------------- MODULE KernelRun -----------------------------
(***************************************************************************)
(* What a run of one step promises to the component that submitted it: the *)
(* kernel seen from outside, without workers, leases or heartbeats.        *)
(*                                                                         *)
(* A run is a record.  Every operator below gives the records a run may    *)
(* become in one step of the kernel, so that a module can keep many runs.  *)
(* AgentRun implements this contract (MCKernelRun), and CpsCase builds on  *)
(* it.                                                                     *)
(***************************************************************************)
EXTENDS Naturals

CONSTANTS
    Values,      \* what a handler returns and a reviewer lets through
    NoValue,
    Contended    \* may several workers poll the run?

VARIABLE r

Finished == {"succeeded", "failed", "cancelled"}

(* The record left by submit(); is the step's output to be reviewed?       *)
Submitted(gated) ==
    [status |-> "queued", active |-> FALSE, cancel |-> FALSE,
     step |-> "new", value |-> NoValue, gated |-> gated,
     review |-> "none", late |-> FALSE, verdict |-> NoValue]

RunRecord ==
    [status : Finished \cup {"queued", "running", "waiting", "uncertain"},
     active : BOOLEAN,     \* some process executes it
     cancel : BOOLEAN,
     step : {"new", "running", "broken", "ready", "committed"},
     value : Values \cup {NoValue},
     gated : BOOLEAN,      \* Approval.after
     review : {"none", "pending", "approved", "rejected"},
     late : BOOLEAN,
     verdict : Values \cup {NoValue}]

-----------------------------------------------------------------------------
(* Execution                                                               *)

(* A run is executed by one process at a time.                             *)
Started(x) ==
    IF x.status \notin Finished /\ ~x.active
    THEN {[x EXCEPT !.status = "running", !.active = TRUE]} ELSE {}

Executing(x) == x.status = "running" /\ x.active

(* The handler is called once for each new record of the step.             *)
Called(x) ==
    IF Executing(x) /\ x.step = "new" THEN {[x EXCEPT !.step = "running"]}
    ELSE {}

Returned(x, v) ==
    IF Executing(x) /\ x.step = "running"
    THEN {[x EXCEPT !.step = "ready", !.value = v]} ELSE {}

Broken(x) ==
    IF Executing(x) /\ x.step = "running" THEN {[x EXCEPT !.step = "broken"]}
    ELSE {}

ReviewRequested(x) ==
    IF Executing(x) /\ x.step = "ready" /\ x.gated /\ x.review = "none"
    THEN {[x EXCEPT !.review = "pending"]} ELSE {}

(* What is committed is what the reviewer let through, if there is one.    *)
Committed(x) ==
    IF Executing(x) /\ x.step = "ready" /\ (x.gated => x.review = "approved")
    THEN {[x EXCEPT !.step = "committed",
                    !.value = IF x.gated THEN x.verdict ELSE x.value]}
    ELSE {}

(* The status with which an execution ends is justified by the ledger.  A  *)
(* review may be decided while the process that asked for it still unwinds *)
(* as waiting.                                                             *)
Ends(x) ==
    (IF x.step = "committed" THEN {"succeeded"} ELSE {})
    \cup (IF x.review # "none" THEN {"waiting"} ELSE {})
    \cup (IF x.step = "broken" \/ x.review = "rejected" \/ x.late
          THEN {"failed"} ELSE {})
    \cup (IF x.cancel THEN {"cancelled"} ELSE {})
    \cup (IF x.step \in {"running", "broken"} THEN {"uncertain"} ELSE {})

Ended(x) ==
    IF Executing(x)
    THEN {[x EXCEPT !.status = s, !.active = FALSE] : s \in Ends(x)} ELSE {}

Crashed(x) == IF x.active THEN {[x EXCEPT !.active = FALSE]} ELSE {}

(* Only where several workers compete for a run: a late Conflict.          *)
Doubted(x) ==
    IF Contended /\ ~x.active THEN {[x EXCEPT !.status = "uncertain"]} ELSE {}

-----------------------------------------------------------------------------
(* Requests and time                                                       *)

Cancelled(x) ==
    IF x.status \in Finished THEN {}
    ELSE {[x EXCEPT !.cancel = TRUE,
                    !.status = IF x.status = "running" THEN "running"
                                                       ELSE "cancelled"]}

Reviewed(x, decision, v) ==
    IF x.review = "pending" /\ ~x.late
    THEN {[x EXCEPT !.review = decision, !.verdict = v]} ELSE {}

Expired(x) ==
    IF x.review \in {"pending", "approved"} THEN {[x EXCEPT !.late = TRUE]}
    ELSE {}

(* An operator settles an effect: by another attempt or by its output.     *)
Unsettled(x) == ~x.active /\ x.step \in {"running", "broken"}

Requeued(x) == [x EXCEPT !.status = "queued", !.cancel = FALSE]

RetryGranted(x) ==
    IF Unsettled(x) THEN {[Requeued(x) EXCEPT !.step = "new"]} ELSE {}

OutputConfirmed(x, v) ==
    IF Unsettled(x) THEN {[Requeued(x) EXCEPT !.step = "ready", !.value = v]}
    ELSE {}

-----------------------------------------------------------------------------
(* The contract as a specification of one run                              *)

Successors(x) ==
    Started(x) \cup Called(x) \cup Broken(x) \cup ReviewRequested(x)
    \cup Committed(x) \cup Ended(x) \cup Crashed(x) \cup Doubted(x)
    \cup Cancelled(x) \cup Expired(x) \cup RetryGranted(x)
    \cup (UNION {Returned(x, v) \cup OutputConfirmed(x, v) : v \in Values})
    \cup (UNION {Reviewed(x, d, v) :
                     d \in {"approved", "rejected"}, v \in Values})

Init == \E gated \in BOOLEAN : r = Submitted(gated)
Next == r' \in Successors(r)
Spec == Init /\ [][Next]_r

=============================================================================
