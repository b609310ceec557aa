---------------------------- MODULE RemoteAgent ----------------------------
(* An invocation whose handler is an agent on a LangGraph server: the record  *)
(* of each submission, the runs of its thread, the polling and the reviews of *)
(* what interrupts the remote graph.  A retry within an attempt comes back to *)
(* the record it had; one that an operator allows forgets the review that was *)
(* resumed with, and asks for the first run of the thread again.  An attempt  *)
(* starts when the one before it is gone (AgentRun has the leases).           *)
EXTENDS Integers, Sequences, FiniteSets

CONSTANT MaxReviews  \* bound: the interrupts the remote graph may show, and the decisions on them

VARIABLES record,      \* per operation: the row of kind "remote"
          remote,      \* the runs of the thread, in the order the server created them
          interrupts,  \* what the thread shows for review, or None
          sent,        \* the submissions on their way
          review,      \* the approvals of kind "tool", one for each content of interrupts
          invocation,  \* the row of the invocation; output is the run whose output it has
          agent        \* what the attempt is at, and its operation

vars == <<record, remote, interrupts, sent, review, invocation, agent>>

None == 0
Reviews == 1 .. MaxReviews
Operations == 0 .. MaxReviews  \* digest([invocation, resume]): 0 without resume, or what was decided
Over == {"success", "error", "timeout"}

Init == /\ record = [o \in Operations |-> [phase |-> "none", run |-> 0]]
        /\ remote = <<>>
        /\ interrupts = None
        /\ sent = {}
        /\ review = [r \in Reviews |-> [state |-> "none", effective |-> 0]]
        /\ invocation = [status |-> "pending", interrupt |-> None, output |-> 0]
        /\ agent = [at |-> "out", op |-> 0]

Rec == record[agent.op]
Known(o) == record[o].phase # "none"
RunsOf(o) == {i \in DOMAIN remote : remote[i].op = o}
Goes(at) == agent' = [agent EXCEPT !.at = at]
Store(status) == invocation' = [invocation EXCEPT !.status = status]

-----------------------------------------------------------------------------
(* The step around the handler.                                               *)

(* The invocation is saved as running; then _invoke finds no record of the    *)
(* operation and submits, or finds one and goes on with it.                   *)
Invoke(o) ==
  /\ Store("running")
  /\ agent' = [op |-> o, at |-> IF ~Known(o) THEN "submitting"
                                ELSE IF record[o].run = 0 THEN "reconciling"
                                ELSE IF record[o].phase = "succeeded" THEN "returning"
                                ELSE "polling"]

(* A first attempt, or one that an operator allowed: there is no resume.      *)
Begin ==
  /\ agent.at = "out" /\ invocation.status = "pending"
  /\ Invoke(0)
  /\ UNCHANGED <<record, remote, interrupts, sent, review>>

(* An interrupted invocation looks for the review of the interrupts it noted, *)
(* and is resumed with what was decided.  A rejected one changes nothing.     *)
Resume ==
  /\ agent.at = "out" /\ invocation.status = "interrupted"
  /\ LET r == invocation.interrupt
     IN \/ /\ review[r].state = "approved"
           /\ Invoke(review[r].effective)
           /\ UNCHANGED review
        \/ /\ review[r].state = "none"
           /\ review' = [review EXCEPT ![r].state = "pending"]
           /\ UNCHANGED <<invocation, agent>>
  /\ UNCHANGED <<record, remote, interrupts, sent>>

(* How an attempt ends without a result: Uncertain and cancellations leave    *)
(* the effects uncertain, other exceptions have failed and may be retried.    *)
Raises == \/ Store("uncertain") /\ Goes("out")
          \/ Store("failed") /\ Goes("failing")

(* The attempts left decide, and the kind of the exception (AgentRun).        *)
Retry ==
  /\ agent.at = "failing"
  /\ Invoke(agent.op) \/ (Goes("out") /\ UNCHANGED invocation)
  /\ UNCHANGED <<record, remote, interrupts, sent, review>>

(* Whatever is called or awaited may fail: the client, the lease, a limit, a  *)
(* review that expired, the schema of the output.                             *)
Fails ==
  /\ agent.at \in {"submitting", "reconciling", "polling", "asking", "noted", "returning"}
  /\ Raises
  /\ UNCHANGED <<record, remote, interrupts, sent, review>>

Return ==
  /\ agent.at \in {"noted", "returning"}
  /\ invocation' = [invocation EXCEPT !.status = "output_ready", !.output = Rec.run]
  /\ Goes("out")
  /\ UNCHANGED <<record, remote, interrupts, sent, review>>

Crash ==
  /\ agent.at # "out"
  /\ Goes("out")
  /\ UNCHANGED <<record, remote, interrupts, sent, review, invocation>>

(* An operator allows a retry, or says what the output is.                    *)
reconcile ==
  /\ agent.at = "out"
  /\ invocation.status \in {"running", "uncertain", "failed"}
  /\ Store("pending") \/ Store("output_ready")
  /\ UNCHANGED <<record, remote, interrupts, sent, review, agent>>

(* approve: what was decided may be the same for two contents, as it names    *)
(* the interrupts by their ids only.                                          *)
approve(r) ==
  /\ review[r].state = "pending"
  /\ \/ \E o \in Operations \ {0} :
          review' = [review EXCEPT ![r] = [state |-> "approved", effective |-> o]]
     \/ review' = [review EXCEPT ![r].state = "rejected"]
  /\ UNCHANGED <<record, remote, interrupts, sent, invocation, agent>>

-----------------------------------------------------------------------------
(* The handler.                                                               *)

(* Mutant: the record is written when the server has answered.                *)
Submit_unrecorded ==
  /\ agent.at = "submitting"
  /\ sent' = sent \cup {agent.op}
  /\ Goes("submitted")
  /\ UNCHANGED <<record, remote, interrupts, review, invocation>>

(* The thread is created if it does not exist, the record saved, then the     *)
(* run is requested.                                                          *)
Submit ==
  /\ agent.at = "submitting"
  /\ record' = [record EXCEPT ![agent.op] = [phase |-> "submitting", run |-> 0]]
  /\ sent' = sent \cup {agent.op}
  /\ Goes("submitted")
  /\ UNCHANGED <<remote, interrupts, review, invocation>>

Found == \E i \in RunsOf(agent.op) :
           record' = [record EXCEPT ![agent.op] = [phase |-> "running", run |-> i]]

Answered ==
  /\ agent.at = "submitted"
  /\ Found
  /\ Goes("polling")
  /\ UNCHANGED <<remote, interrupts, sent, review, invocation>>

(* The request fails, before it arrived, after it, or while it is on its way. *)
Unanswered ==
  /\ agent.at = "submitted"
  /\ sent' \in {sent, sent \ {agent.op}}
  /\ Raises
  /\ UNCHANGED <<record, remote, interrupts, review>>

(* The runs of the thread are listed; a single one of the operation is its.   *)
Reconcile ==
  /\ agent.at = "reconciling"
  /\ \/ /\ Cardinality(RunsOf(agent.op)) = 1
        /\ Found
        /\ Goes("polling")
        /\ UNCHANGED invocation
     \/ /\ Cardinality(RunsOf(agent.op)) # 1
        /\ Store("uncertain") /\ Goes("out")
        /\ UNCHANGED record
  /\ UNCHANGED <<remote, interrupts, sent, review>>

(* One poll: of the status of the run, and, when that is interrupted, of the  *)
(* interrupts of the thread, whichever of its runs left them.  None of them   *)
(* is a Conflict; others are noted in the invocation.                         *)
Poll ==
  /\ agent.at = "polling"
  /\ LET status == remote[Rec.run].status
     IN \/ /\ status = "success"
           /\ record' = [record EXCEPT ![agent.op].phase = "succeeded"]
           /\ Goes("noted")
           /\ UNCHANGED invocation
        \/ /\ status = "interrupted" /\ interrupts # None
           /\ invocation' = [invocation EXCEPT !.status = "interrupted", !.interrupt = interrupts]
           /\ Goes("asking")
           /\ UNCHANGED record
        \/ /\ status \in {"error", "timeout"} \/ (status = "interrupted" /\ interrupts = None)
           /\ Store("failed") /\ Goes("failing")
           /\ UNCHANGED record
  /\ UNCHANGED <<remote, interrupts, sent, review>>

(* interrupt asks for a review and leaves the invocation waiting for it, but  *)
(* it returns if the review was approved before, and then the polling of the  *)
(* interrupted run goes on.                                                   *)
Ask ==
  /\ agent.at = "asking"
  /\ LET r == invocation.interrupt
     IN \/ /\ review[r].state = "none"
           /\ review' = [review EXCEPT ![r].state = "pending"]
           /\ Goes("out")
           /\ UNCHANGED invocation
        \/ /\ review[r].state = "pending" /\ Goes("out")
           /\ UNCHANGED <<review, invocation>>
        \/ /\ review[r].state = "approved" /\ Goes("polling")
           /\ UNCHANGED <<review, invocation>>
        \/ /\ review[r].state = "rejected"
           /\ Store("failed") /\ Goes("failing")
           /\ UNCHANGED review
  /\ UNCHANGED <<record, remote, interrupts, sent>>

(* A run of the thread ends, and leaves interrupts or none.                   *)
Ends(i, status, left) ==
  /\ remote[i].status = "running"
  /\ remote' = [remote EXCEPT ![i].status = status]
  /\ interrupts' = left

(* The attempt is cancelled or timed out: that is recorded, then asked for    *)
(* and confirmed, unless this fails or the process dies first.                *)
Cancel ==
  /\ agent.at \in {"polling", "noted"}
  /\ \E phase \in {"cancel_requested", "cancel_confirmed"} :
       /\ record' = [record EXCEPT ![agent.op].phase = phase]
       /\ \/ \E left \in {interrupts, None} : Ends(Rec.run, "interrupted", left)
          \/ /\ phase = "cancel_confirmed" => remote[Rec.run].status # "running"
             /\ UNCHANGED <<remote, interrupts>>
  /\ Raises \/ (Goes("out") /\ UNCHANGED invocation)
  /\ UNCHANGED <<sent, review>>

-----------------------------------------------------------------------------
(* The server.  It creates a run unless one of the thread is active           *)
(* ("reject"); a run that works on what was decided clears the interrupts     *)
(* sooner or later.                                                           *)
Arrives(o) ==
  /\ \A i \in DOMAIN remote : remote[i].status # "running"
  /\ remote' = Append(remote, [op |-> o, status |-> "running"])
  /\ interrupts' \in {interrupts, None}
  /\ sent' = sent \ {o}
  /\ UNCHANGED <<record, review, invocation, agent>>

RemoteEnds(i) ==
  /\ \/ Ends(i, "success", None)
     \/ \E left \in Reviews \cup {None} : Ends(i, "interrupted", left)
     \/ \E status \in {"error", "timeout"}, left \in {interrupts, None} : Ends(i, status, left)
  /\ UNCHANGED <<record, sent, review, invocation, agent>>

Next == \/ Begin \/ Resume \/ Retry \/ Return \/ reconcile
        \/ Submit \/ Answered \/ Unanswered \/ Reconcile \/ Poll \/ Ask \/ Cancel
        \/ Fails \/ Crash
        \/ \E r \in Reviews : approve(r)
        \/ \E o \in sent : Arrives(o)
        \/ \E i \in DOMAIN remote : RemoteEnds(i)

Spec == Init /\ [][Next]_vars

-----------------------------------------------------------------------------
(* "不盲目重复创建": with answers lost, requests late, processes dead, attempts made  *)
(* again and reviews decided twice alike, the server runs each operation at   *)
(* most once; and an output that is returned is that of the last run, behind  *)
(* which nothing is on its way.                                               *)
RemoteStartedOnce ==
  /\ \A o \in Operations : Cardinality(RunsOf(o)) <= 1
  /\ invocation.output # 0 => /\ invocation.output = Len(remote)
                              /\ remote[invocation.output].status = "success"
                              /\ sent = {}
=============================================================================
