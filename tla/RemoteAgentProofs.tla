------------------------- MODULE RemoteAgentProofs --------------------------
(* Whatever is lost, late or cancelled between an agent and its server, and   *)
(* whoever dies or tries again, no remote operation runs twice, for any       *)
(* number of reviews; and inside of an engine, a degraded answer is noted and *)
(* only reliable calls run.                                                   *)
EXTENDS RemoteAgent, FiniteSetTheorems, SequenceTheorems, TLAPS

CONSTANTS Chains, Modes, Calls, Forbidden, InterruptOn, Attempts, MaxModelCalls,
          MaxToolCalls, Inventory, Patterns, Limits
VARIABLES setup, context, thread, at, executed

Loop == INSTANCE AgentLoop

(***************************************************************************)
(* The agents on a server.                                                 *)
(***************************************************************************)

Phases == {"none", "submitting", "running", "succeeded",
           "cancel_requested", "cancel_confirmed"}
Places == {"out", "failing", "submitting", "submitted", "reconciling",
           "polling", "asking", "noted", "returning"}
Statuses == {"pending", "running", "interrupted", "failed", "uncertain",
             "output_ready"}
Run == [op : Operations, status : Over \cup {"running", "interrupted"}]
Row == [phase : Phases, run : Nat]
Review == [state : {"none", "pending", "approved", "rejected"},
           effective : Operations]
Invocation == [status : Statuses, interrupt : Reviews \cup {None}, output : Nat]
Agent == [at : Places, op : Operations]

TypeInv ==
    /\ record \in [Operations -> Row]
    /\ remote \in Seq(Run)
    /\ interrupts \in Reviews \cup {None}
    /\ sent \in SUBSET Operations
    /\ review \in [Reviews -> Review]
    /\ invocation \in Invocation
    /\ agent \in Agent

(* An operation without a record was never sent, one that is on its way    *)
(* has not arrived, and the run of a record is the only one there is.      *)
OnceInv ==
    \A o \in Operations :
        /\ ~Known(o) => record[o].run = 0 /\ RunsOf(o) = {} /\ o \notin sent
        /\ o \in sent => RunsOf(o) = {}
        /\ \A i, j \in RunsOf(o) : i = j
        /\ record[o].run # 0 => record[o].run \in RunsOf(o)
        /\ record[o].phase = "succeeded" =>
               record[o].run # 0 /\ remote[record[o].run].status = "success"

Running(i) == remote[i].status = "running"
Active(o) == o \in sent \/ \E i \in RunsOf(o) : Running(i)
Quiet == \A o \in Operations : ~Active(o)
Settled(r) == review[r].state = "approved" /\ Known(review[r].effective)

(* One operation at a time is under way: the first, or one that settles    *)
(* what the thread still shows.  A success ends the thread.                *)
ThreadInv ==
    /\ \A o, p \in Operations : Active(o) /\ Active(p) => o = p
    /\ \A o \in Operations : Active(o) =>
         interrupts = None
         \/ (Settled(interrupts) /\ review[interrupts].effective = o)
    /\ \A i \in DOMAIN remote : Running(i) => i = Len(remote)
    /\ \A i \in DOMAIN remote : remote[i].status = "success" =>
         i = Len(remote) /\ Quiet /\ interrupts = None

FirstInv ==
    ~Known(0) => /\ remote = <<>> /\ sent = {} /\ interrupts = None
                 /\ \A o \in Operations : ~Known(o)

(* What an invocation was interrupted by is settled, or is what the thread *)
(* shows while nothing is under way.                                       *)
Resumable(r) == r # None /\ (Settled(r) \/ (Quiet /\ interrupts = r))
ResumeInv ==
    invocation.status = "interrupted" => Resumable(invocation.interrupt)

(* A new operation is the first, or what was decided on what the thread    *)
(* shows.                                                                  *)
Startable(o) ==
    /\ Quiet
    /\ o = 0 \/ (/\ interrupts # None
                 /\ review[interrupts].state = "approved"
                 /\ review[interrupts].effective = o)

(* What an attempt knows of its operation, by where it is.                 *)
AgentInv ==
    /\ agent.at = "submitting" => ~Known(agent.op)
    /\ agent.at # "out" /\ ~Known(agent.op) => Startable(agent.op)
    /\ agent.at \in {"polling", "asking", "noted", "returning"} => Rec.run # 0
    /\ agent.at \in {"noted", "returning"} => Rec.phase = "succeeded"

(* What was returned is the output of a run that succeeded.                *)
OutputInv ==
    invocation.output # 0 =>
        /\ invocation.status = "output_ready" /\ agent.at = "out"
        /\ invocation.output \in DOMAIN remote
        /\ remote[invocation.output].status = "success"

ServerInv == TypeInv /\ OnceInv /\ ThreadInv /\ FirstInv
Inv == ServerInv /\ ResumeInv /\ AgentInv /\ OutputInv

-----------------------------------------------------------------------------
(* What happens on the server                                              *)

LEMMA RunDomain ==
    ASSUME TypeInv
    PROVE  /\ \A o : RunsOf(o) \subseteq DOMAIN remote
           /\ DOMAIN remote = 1 .. Len(remote) /\ Len(remote) \in Nat
           /\ 0 \notin DOMAIN remote /\ DOMAIN remote \subseteq Nat
           /\ \A i \in DOMAIN remote : remote[i] \in Run
    BY DEF TypeInv, RunsOf

(* A new run is one of its operation and of no other.                      *)
LEMMA Created ==
    ASSUME TypeInv, NEW x \in Operations,
           remote' = Append(remote, [op |-> x, status |-> "running"])
    PROVE  /\ remote' \in Seq(Run)
           /\ DOMAIN remote' = DOMAIN remote \cup {Len(remote) + 1}
           /\ Len(remote') = Len(remote) + 1
           /\ remote'[Len(remote) + 1].status = "running"
           /\ \A o : o # x => RunsOf(o)' = RunsOf(o)
           /\ RunsOf(x) = {} => RunsOf(x)' = {Len(remote) + 1}
           /\ \A i \in DOMAIN remote : remote'[i] = remote[i]
<1> DEFINE r == [op |-> x, status |-> "running"]
<1>1. r \in Run /\ r.op = x /\ r.status = "running"
    BY DEF Run
<1> HIDE DEF r
<1>2. remote \in Seq(Run) /\ remote' = Append(remote, r)
    BY DEF TypeInv, r
<1>3. /\ remote' \in Seq(Run)
      /\ DOMAIN remote = 1 .. Len(remote)
      /\ DOMAIN remote' = 1 .. Len(remote) + 1
      /\ Len(remote') = Len(remote) + 1
      /\ Len(remote) \in Nat
      /\ \A i \in DOMAIN remote : remote'[i] = remote[i]
      /\ remote'[Len(remote) + 1] = r
    BY <1>1, <1>2
<1> QED
    BY <1>1, <1>3 DEF RunsOf

(* A run that ends stays a run of its operation.                           *)
LEMMA Changed ==
    ASSUME TypeInv, NEW i \in DOMAIN remote, NEW status,
           status \in Over \cup {"interrupted"},
           remote' = [remote EXCEPT ![i].status = status]
    PROVE  /\ remote' \in Seq(Run)
           /\ DOMAIN remote' = DOMAIN remote
           /\ \A o : RunsOf(o)' = RunsOf(o)
           /\ remote'[i].status = status
           /\ \A j \in DOMAIN remote : j # i => remote'[j] = remote[j]
<1> DEFINE r == [remote[i] EXCEPT !.status = status]
<1>1. r \in Run /\ r.op = remote[i].op /\ r.status = status
    BY RunDomain DEF Run
<1>2. remote' = [remote EXCEPT ![i] = r]
    OBVIOUS
<1> HIDE DEF r
<1>3. remote \in Seq(Run)
    BY DEF TypeInv
<1>4. /\ remote' \in Seq(Run) /\ DOMAIN remote' = DOMAIN remote
      /\ remote'[i] = r
      /\ \A j \in DOMAIN remote : j # i => remote'[j] = remote[j]
    BY <1>1, <1>2, <1>3
<1> QED
    BY <1>1, <1>4 DEF RunsOf

(* A run that works is the last, and what is under way is nothing else.    *)
LEMMA Alone ==
    ASSUME ServerInv, NEW i \in DOMAIN remote, Running(i)
    PROVE  /\ i = Len(remote) /\ ~Quiet /\ sent = {} /\ Known(0)
           /\ \A j \in DOMAIN remote : Running(j) => j = i
           /\ \A j \in DOMAIN remote : remote[j].status # "success"
<1>1. remote[i].op \in Operations /\ i \in RunsOf(remote[i].op)
    BY RunDomain DEF ServerInv, Run, RunsOf
<1>2. Active(remote[i].op)
    BY <1>1 DEF Active
<1>3. ~Quiet
    BY <1>1, <1>2 DEF Quiet
<1>4. sent = {}
    BY <1>1, <1>2 DEF ServerInv, TypeInv, OnceInv, ThreadInv, Active
<1>5. Known(0)
    BY DEF ServerInv, FirstInv
<1> QED
    BY <1>3, <1>4, <1>5 DEF ServerInv, ThreadInv

(* A run that ends leaves nothing under way.                               *)
LEMMA EndsKeeps ==
    ASSUME ServerInv, NEW i \in DOMAIN remote, NEW status, NEW left,
           status \in Over \cup {"interrupted"},
           left \in Reviews \cup {None}, status = "success" => left = None,
           Ends(i, status, left), sent' = sent
    PROVE  /\ remote' \in Seq(Run) /\ \A o : RunsOf(o)' = RunsOf(o)
           /\ interrupts' \in Reviews \cup {None}
           /\ Quiet' /\ (Known(0)' => ThreadInv' /\ FirstInv')
           /\ \A j \in DOMAIN remote : remote[j].status = "success" =>
                  remote'[j] = remote[j]
           /\ DOMAIN remote' = DOMAIN remote
<1>1. /\ Running(i) /\ interrupts' = left
      /\ remote' = [remote EXCEPT ![i].status = status]
    BY DEF Ends, Running
<1>2. /\ remote' \in Seq(Run) /\ DOMAIN remote' = DOMAIN remote
      /\ \A o : RunsOf(o)' = RunsOf(o)
      /\ remote'[i].status = status
      /\ \A j \in DOMAIN remote : j # i => remote'[j] = remote[j]
    BY <1>1, Changed DEF ServerInv
<1>3. /\ i = Len(remote) /\ sent = {}
      /\ \A j \in DOMAIN remote : Running(j) => j = i
      /\ \A j \in DOMAIN remote : remote[j].status # "success"
    BY <1>1, Alone
<1>4. \A j \in DOMAIN remote : ~Running(j)'
    BY <1>2, <1>3 DEF Running, Over
<1>5. \A o : RunsOf(o)' \subseteq DOMAIN remote
    BY <1>2 DEF RunsOf
<1>6. \A o : ~Active(o)'
    BY <1>3, <1>4, <1>5 DEF Active
<1>7. Quiet'
    BY <1>6 DEF Quiet
<1>8. Len(remote') = Len(remote)
    BY <1>2, RunDomain DEF ServerInv
<1>9. ThreadInv'
    BY <1>1, <1>2, <1>3, <1>4, <1>6, <1>7, <1>8 DEF ThreadInv
<1>10. Known(0)' => FirstInv'
    BY DEF FirstInv
<1> QED
    BY <1>1, <1>2, <1>3, <1>7, <1>9, <1>10

-----------------------------------------------------------------------------
(* The steps of an attempt                                                 *)

LEMMA Start == MaxReviews \in Nat /\ Init => Inv
<1> SUFFICES ASSUME MaxReviews \in Nat, Init PROVE Inv
    OBVIOUS
<1>1. TypeInv
    BY DEF Init, TypeInv, Row, Phases, Places, Statuses, Operations, Reviews,
           Review, Invocation, Agent, None
<1>2. \A o \in Operations : RunsOf(o) = {} /\ ~Known(o) /\ record[o].run = 0
    BY DEF Init, RunsOf, Known
<1>3. OnceInv
    BY <1>2 DEF Init, OnceInv, Known
<1>4. \A o \in Operations : ~Active(o)
    BY <1>2 DEF Init, Active
<1>5. ThreadInv /\ FirstInv
    BY <1>2, <1>4 DEF Init, ThreadInv, FirstInv, Quiet
<1>6. ResumeInv /\ AgentInv /\ OutputInv
    BY DEF Init, ResumeInv, AgentInv, OutputInv
<1> QED
    BY <1>1, <1>3, <1>5, <1>6 DEF Inv, ServerInv

(* Whoever is at work has returned nothing yet.                            *)
LEMMA Working ==
    ASSUME Inv, agent.at # "out" \/ invocation.status # "output_ready"
    PROVE  invocation.output = 0
    BY DEF Inv, OutputInv

LEMMA Types ==
    ASSUME TypeInv
    PROVE  /\ invocation \in Invocation /\ agent \in Agent
           /\ agent.op \in Operations /\ Rec \in Row
           /\ \A o \in Operations : record[o] \in Row
    BY DEF TypeInv, Agent, Rec

(* What goes on while the runs stay as they are, no operation gets its     *)
(* record and no decision is changed.                                      *)
LEMMA ServerStays ==
    ASSUME MaxReviews \in Nat, ServerInv,
           UNCHANGED <<remote, interrupts>>, sent' \in SUBSET sent,
           \A o \in Operations : Known(o)' <=> Known(o),
           \A r \in Reviews :
               review[r].state = "approved" => review'[r] = review[r],
           TypeInv', OnceInv'
    PROVE  /\ ServerInv'
           /\ \A r \in Reviews : Resumable(r) => Resumable(r)'
           /\ \A o \in Operations : Startable(o) => Startable(o)'
<1>1. \A o : RunsOf(o)' = RunsOf(o)
    BY DEF RunsOf
<1>2. \A i : Running(i)' <=> Running(i)
    BY DEF Running
<1>3. \A o \in Operations : Active(o)' => Active(o)
    BY <1>1, <1>2 DEF Active
<1>4. Quiet => Quiet'
    BY <1>3 DEF Quiet
<1>5. \A r \in Reviews : Settled(r) => Settled(r)' /\ review'[r] = review[r]
    BY DEF Settled, ServerInv, TypeInv, Review
<1>6. ThreadInv'
    <2>1. interrupts \in Reviews \cup {None}
        BY DEF ServerInv, TypeInv
    <2>2. \A o, p \in Operations : Active(o)' /\ Active(p)' => o = p
        BY <1>3 DEF ServerInv, ThreadInv
    <2>3. ASSUME NEW o \in Operations, Active(o)', interrupts # None
          PROVE  /\ review'[interrupts].effective = o
                 /\ review'[interrupts].state = "approved"
                 /\ Known(o)'
        BY <1>3, <2>1, <2>3 DEF ServerInv, ThreadInv, Settled
    <2>4. \A o \in Operations : Active(o)' =>
             interrupts' = None
             \/ (Settled(interrupts)' /\ review'[interrupts'].effective = o)
        BY <2>3 DEF Settled, Known
    <2> QED
        BY <1>2, <1>4, <2>2, <2>4 DEF ServerInv, ThreadInv
<1>7. FirstInv'
    <2>1. 0 \in Operations
        BY DEF Operations
    <2> QED
        BY <2>1 DEF ServerInv, FirstInv, Known, TypeInv
<1>8. \A r \in Reviews : Resumable(r) => Resumable(r)'
    BY <1>4, <1>5 DEF Resumable
<1>9. \A o \in Operations : Startable(o) => Startable(o)'
    BY <1>4 DEF Startable, ServerInv, TypeInv
<1> QED
    BY <1>6, <1>7, <1>8, <1>9 DEF ServerInv

(* Once the server is in order, so is the invocation that went on.         *)
LEMMA KernelStays ==
    ASSUME ServerInv', agent' \in Agent, invocation' \in Invocation,
           NEW r \in Reviews \cup {None}, NEW o \in Operations,
           invocation'.interrupt = r, agent'.op = o,
           invocation'.status = "interrupted" => Resumable(r)',
           agent'.at = "submitting" => ~Known(o)',
           agent'.at # "out" /\ ~Known(o)' => Startable(o)',
           agent'.at \in {"polling", "asking", "noted", "returning"} =>
               record'[o].run # 0,
           agent'.at \in {"noted", "returning"} =>
               record'[o].phase = "succeeded",
           OutputInv'
    PROVE  Inv'
<1>1. ResumeInv'
    BY DEF ResumeInv, Resumable, Settled, Known
<1>2. AgentInv'
    BY DEF AgentInv, Startable, Known, Rec
<1> QED
    BY <1>1, <1>2 DEF Inv

(* An attempt that begins, goes on or ends, and no record is written.      *)
LEMMA Moves ==
    ASSUME MaxReviews \in Nat, Inv, UNCHANGED <<record, remote, interrupts>>,
           sent' \in SUBSET sent, review' \in [Reviews -> Review],
           \A r \in Reviews :
               review[r].state = "approved" => review'[r] = review[r],
           agent' \in Agent, invocation' \in Invocation,
           invocation'.status = "interrupted" =>
               Resumable(invocation'.interrupt),
           agent'.at = "submitting" => ~Known(agent'.op),
           agent'.at # "out" /\ ~Known(agent'.op) => Startable(agent'.op),
           agent'.at \in {"polling", "asking", "noted", "returning"} =>
               record[agent'.op].run # 0,
           agent'.at \in {"noted", "returning"} =>
               record[agent'.op].phase = "succeeded",
           invocation'.output # 0 =>
               /\ invocation'.status = "output_ready" /\ agent'.at = "out"
               /\ invocation'.output \in DOMAIN remote
               /\ remote[invocation'.output].status = "success"
    PROVE  Inv'
<1>1. TypeInv'
    BY DEF Inv, ServerInv, TypeInv
<1>2. \A o : Known(o)' <=> Known(o)
    BY DEF Known
<1>3. OnceInv'
    BY <1>2 DEF Inv, ServerInv, OnceInv, RunsOf
<1>4. /\ ServerInv'
      /\ \A r \in Reviews : Resumable(r) => Resumable(r)'
      /\ \A o \in Operations : Startable(o) => Startable(o)'
    BY <1>1, <1>2, <1>3, ServerStays DEF Inv
<1>5. PICK r \in Reviews \cup {None}, o \in Operations :
          invocation'.interrupt = r /\ agent'.op = o
    BY DEF Invocation, Agent
<1>6. invocation'.status = "interrupted" => Resumable(r)'
    BY <1>4, <1>5 DEF Resumable
<1>7. OutputInv'
    BY DEF OutputInv
<1> QED
    BY <1>2, <1>4, <1>5, <1>6, <1>7, KernelStays

(* An attempt that starts on an operation, or again.                       *)
LEMMA Invokes ==
    ASSUME MaxReviews \in Nat, Inv, NEW o \in Operations, Invoke(o),
           UNCHANGED <<record, remote, interrupts, sent, review>>,
           invocation.output = 0, ~Known(o) => Startable(o)
    PROVE  Inv'
<1> DEFINE place == IF ~Known(o) THEN "submitting"
                    ELSE IF record[o].run = 0 THEN "reconciling"
                    ELSE IF record[o].phase = "succeeded" THEN "returning"
                    ELSE "polling"
<1>1. agent' = [op |-> o, at |-> place]
    BY DEF Invoke
<1>2. /\ place \in Places /\ place # "asking" /\ place # "noted"
      /\ place = "submitting" => ~Known(o)
      /\ place \in {"polling", "returning"} => record[o].run # 0
      /\ place = "returning" => record[o].phase = "succeeded"
    BY DEF Places
<1> HIDE DEF place
<1>3. agent' \in Agent /\ agent'.op = o /\ agent'.at = place
    BY <1>1, <1>2 DEF Agent
<1>4. /\ invocation' \in Invocation /\ invocation'.output = 0
      /\ invocation'.status = "running"
    BY Types DEF Inv, ServerInv, Invoke, Store, Invocation, Statuses
<1>5. sent' \in SUBSET sent /\ review' \in [Reviews -> Review]
    BY DEF Inv, ServerInv, TypeInv
<1> QED
    BY <1>2, <1>3, <1>4, <1>5, Moves

LEMMA BeginStep ==
    ASSUME MaxReviews \in Nat, Inv, Begin
    PROVE  Inv'
<1>1. 0 \in Operations
    BY DEF Operations
<1>2. ~Known(0) => Startable(0)
    BY DEF Inv, ServerInv, FirstInv, Startable, Quiet, Active, RunsOf
<1> QED
    BY <1>1, <1>2, Invokes, Working DEF Begin

(* An interrupted invocation goes on with what was decided, or asks.       *)
LEMMA ResumeStep ==
    ASSUME MaxReviews \in Nat, Inv, Resume
    PROVE  Inv'
<1> DEFINE r == invocation.interrupt
<1>1. /\ invocation.status = "interrupted" /\ agent.at = "out"
      /\ UNCHANGED <<record, remote, interrupts, sent>>
      /\ Resumable(r) /\ r \in Reviews /\ invocation.output = 0
    BY Types, Working DEF Resume, Inv, ServerInv, ResumeInv, Resumable, Invocation
<1>2. \/ /\ review[r].state = "approved"
         /\ Invoke(review[r].effective)
         /\ UNCHANGED review
      \/ /\ review[r].state = "none"
         /\ review' = [review EXCEPT ![r].state = "pending"]
         /\ UNCHANGED <<invocation, agent>>
    BY DEF Resume
<1>3. review \in [Reviews -> Review]
    BY DEF Inv, ServerInv, TypeInv
<1> HIDE DEF r
<1>4. CASE /\ review[r].state = "approved"
           /\ Invoke(review[r].effective)
           /\ UNCHANGED review
    <2>1. review[r].effective \in Operations
        BY <1>1, <1>3 DEF Review
    <2>2. ~Known(review[r].effective) => Startable(review[r].effective)
        BY <1>1, <1>4 DEF Resumable, Settled, Startable
    <2> QED
        BY <1>1, <1>4, <2>1, <2>2, Invokes
<1>5. CASE /\ review[r].state = "none"
           /\ review' = [review EXCEPT ![r].state = "pending"]
           /\ UNCHANGED <<invocation, agent>>
    <2>1. /\ review' \in [Reviews -> Review]
          /\ \A q \in Reviews :
                 review[q].state = "approved" => review'[q] = review[q]
        BY <1>1, <1>3, <1>5 DEF Review
    <2>2. /\ invocation' = invocation /\ agent' = agent /\ sent' \in SUBSET sent
          /\ invocation \in Invocation /\ agent \in Agent
        BY <1>1, <1>5, Types DEF Inv, ServerInv
    <2> QED
        BY <1>1, <2>1, <2>2, Moves DEF r
<1> QED
    BY <1>2, <1>4, <1>5

(* An attempt that stays with its operation, and writes no record.         *)
LEMMA GoesOn ==
    ASSUME MaxReviews \in Nat, Inv, agent.at # "out",
           UNCHANGED <<record, remote, interrupts>>, sent' \in SUBSET sent,
           review' \in [Reviews -> Review],
           \A r \in Reviews :
               review[r].state = "approved" => review'[r] = review[r],
           NEW place \in {"out", "failing", "asking", "polling"}, Goes(place),
           place \in {"asking", "polling"} => Rec.run # 0,
           invocation' \in Invocation, invocation'.output = 0,
           invocation'.status = "interrupted" =>
               Resumable(invocation'.interrupt)
    PROVE  Inv'
<1>1. agent' \in Agent /\ agent'.op = agent.op /\ agent'.at = place
    BY Types DEF Inv, ServerInv, Goes, Agent, Places
<1> QED
    BY <1>1, Moves DEF Inv, AgentInv, Rec

LEMMA Stored ==
    ASSUME Inv, NEW status \in Statuses, Store(status)
    PROVE  /\ invocation' \in Invocation /\ invocation'.status = status
           /\ invocation'.output = invocation.output
           /\ invocation'.interrupt = invocation.interrupt
    BY Types DEF Inv, ServerInv, Store, Invocation

(* However it ends without a result.                                       *)
LEMMA Leaves ==
    ASSUME MaxReviews \in Nat, Inv, agent.at # "out",
           UNCHANGED <<record, remote, interrupts, review>>,
           sent' \in SUBSET sent,
           Raises \/ ((Goes("out") \/ Goes("failing")) /\ UNCHANGED invocation)
           \/ (Goes("out") /\ Store("uncertain"))
    PROVE  Inv'
<1>1. /\ invocation' \in Invocation /\ invocation'.output = 0
      /\ invocation'.status = "interrupted" =>
             Resumable(invocation'.interrupt)
    BY Stored, Working, Types DEF Raises, Inv, ServerInv, ResumeInv, Statuses
<1>2. review' \in [Reviews -> Review]
    BY DEF Inv, ServerInv, TypeInv
<1>3. \E place \in {"out", "failing"} : Goes(place)
    BY DEF Raises
<1> QED
    BY <1>1, <1>2, <1>3, GoesOn

LEMMA LeaveStep ==
    ASSUME MaxReviews \in Nat, Inv, Fails \/ Crash \/ Unanswered
    PROVE  Inv'
<1>1. /\ agent.at # "out" /\ UNCHANGED <<record, remote, interrupts, review>>
      /\ sent' \in SUBSET sent
      /\ Raises \/ (Goes("out") /\ UNCHANGED invocation)
    BY DEF Fails, Crash, Unanswered
<1> QED
    BY <1>1, Leaves

LEMMA RetryStep ==
    ASSUME MaxReviews \in Nat, Inv, Retry
    PROVE  Inv'
<1>1. /\ agent.at # "out" /\ agent.op \in Operations
      /\ UNCHANGED <<record, remote, interrupts, sent, review>>
      /\ invocation.output = 0
      /\ ~Known(agent.op) => Startable(agent.op)
    BY Types, Working DEF Retry, Inv, ServerInv, AgentInv
<1>2. CASE Invoke(agent.op)
    BY <1>1, <1>2, Invokes
<1>3. CASE Goes("out") /\ UNCHANGED invocation
    BY <1>1, <1>3, Leaves
<1> QED
    BY <1>2, <1>3 DEF Retry

(* What is returned is the output of a run that succeeded.                 *)
LEMMA ReturnStep ==
    ASSUME MaxReviews \in Nat, Inv, Return
    PROVE  Inv'
<1>1. /\ agent.op \in Operations /\ Rec \in Row /\ Rec.run # 0
      /\ Rec.run \in RunsOf(agent.op) /\ remote[Rec.run].status = "success"
    BY Types DEF Return, Inv, ServerInv, AgentInv, OnceInv, Rec
<1>2. Rec.run \in DOMAIN remote /\ Rec.run \in Nat
    BY <1>1 DEF RunsOf, Row
<1>3. agent' \in Agent /\ agent'.at = "out"
    BY Types DEF Inv, ServerInv, Return, Goes, Agent, Places
<1> DEFINE run == Rec.run
<1>4. /\ run \in Nat
      /\ invocation' = [[invocation EXCEPT !.status = "output_ready"]
                            EXCEPT !.output = run]
    BY <1>2, Types DEF Return, Inv, ServerInv, Invocation
<1> HIDE DEF run
<1>5. /\ invocation' \in Invocation /\ invocation'.status = "output_ready"
      /\ invocation'.output = run
    BY <1>4, Types DEF Inv, ServerInv, Invocation, Statuses
<1>6. /\ UNCHANGED <<record, remote, interrupts, sent, review>>
      /\ review' \in [Reviews -> Review]
    BY DEF Return, Inv, ServerInv, TypeInv
<1> QED
    BY <1>1, <1>2, <1>3, <1>5, <1>6, Moves DEF run

(* Operators and reviewers.                                                *)
LEMMA OperatorStep ==
    ASSUME MaxReviews \in Nat, Inv,
           reconcile \/ \E r \in Reviews : approve(r)
    PROVE  Inv'
<1>1. /\ UNCHANGED <<record, remote, interrupts, sent, agent>>
      /\ agent \in Agent /\ invocation \in Invocation
      /\ review \in [Reviews -> Review]
    BY DEF reconcile, approve, Inv, ServerInv, TypeInv
<1>2. CASE reconcile
    <2>1. /\ invocation' \in Invocation /\ invocation'.output = 0
          /\ invocation'.status # "interrupted" /\ agent.at = "out"
          /\ review' = review
        BY <1>2, Stored, Working DEF reconcile, Statuses
    <2> QED
        BY <1>1, <2>1, Moves
<1>3. CASE \E r \in Reviews : approve(r)
    <2>1. /\ review' \in [Reviews -> Review] /\ UNCHANGED invocation
          /\ \A r \in Reviews :
                 review[r].state = "approved" => review'[r] = review[r]
        BY <1>1, <1>3 DEF approve, Review
    <2> QED
        BY <1>1, <2>1, Moves DEF Inv, ResumeInv, AgentInv, OutputInv, Rec
<1> QED
    BY <1>2, <1>3

-----------------------------------------------------------------------------
(* The steps that write a record, and those of the server                  *)

(* The record of an operation that has one is written.                     *)
LEMMA RecordKeeps ==
    ASSUME TypeInv, OnceInv, NEW op \in Operations, Known(op),
           NEW row \in Row, row.phase # "none",
           record' = [record EXCEPT ![op] = row],
           row.run # 0 => row.run \in RunsOf(op),
           row.phase = "succeeded" =>
               row.run # 0 /\ remote[row.run].status = "success",
           \A o : RunsOf(o)' = RunsOf(o), sent' = sent,
           \A i \in DOMAIN remote : remote[i].status = "success" =>
               remote'[i] = remote[i]
    PROVE  /\ record' \in [Operations -> Row] /\ record'[op] = row
           /\ \A o \in Operations : o # op => record'[o] = record[o]
           /\ \A o \in Operations : Known(o)' <=> Known(o)
           /\ OnceInv'
<1>1. /\ record' \in [Operations -> Row] /\ record'[op] = row
      /\ \A o \in Operations : o # op => record'[o] = record[o]
    BY DEF TypeInv
<1>2. \A o \in Operations : Known(o)' <=> Known(o)
    BY <1>1 DEF Known
<1>3. \A o : RunsOf(o) \subseteq DOMAIN remote
    BY DEF RunsOf
<1>4. OnceInv'
    BY <1>1, <1>2, <1>3 DEF OnceInv
<1> QED
    BY <1>1, <1>2, <1>4

LEMMA Written ==
    ASSUME MaxReviews \in Nat, Inv, agent.at # "out", Known(agent.op),
           UNCHANGED <<remote, interrupts, sent, review, invocation>>,
           NEW row \in Row, row.phase # "none",
           record' = [record EXCEPT ![agent.op] = row],
           row.run \in RunsOf(agent.op),
           row.phase = "succeeded" => remote[row.run].status = "success",
           NEW place \in {"polling", "noted"}, Goes(place),
           place = "noted" => row.phase = "succeeded"
    PROVE  Inv'
<1>1. /\ agent.op \in Operations /\ row.run # 0
      /\ invocation.output = 0 /\ \A o : RunsOf(o)' = RunsOf(o)
    BY Types, Working, RunDomain DEF Inv, ServerInv, RunsOf
<1>2. PICK op \in Operations : op = agent.op
    BY <1>1
<1>3. /\ record' \in [Operations -> Row] /\ record'[op] = row
      /\ \A o \in Operations : Known(o)' <=> Known(o)
      /\ OnceInv'
    BY <1>1, <1>2, RecordKeeps DEF Inv, ServerInv
<1>4. /\ agent' \in Agent /\ agent'.op = op /\ agent'.at = place
      /\ invocation' \in Invocation
    BY <1>2, Types DEF Inv, ServerInv, Goes, Agent, Places
<1>5. TypeInv'
    BY <1>3, <1>4 DEF Inv, ServerInv, TypeInv
<1>6. /\ ServerInv'
      /\ \A r \in Reviews : Resumable(r) => Resumable(r)'
    BY <1>3, <1>5, ServerStays DEF Inv, ServerInv
<1>7. PICK r \in Reviews \cup {None} : r = invocation.interrupt
    BY Types DEF Inv, ServerInv, Invocation
<1>8. invocation.status = "interrupted" => Resumable(r)'
    BY <1>6, <1>7 DEF Inv, ResumeInv, Resumable
<1>9. OutputInv'
    BY <1>1 DEF OutputInv
<1>10. Known(op)' /\ record'[op].run # 0
    BY <1>1, <1>2, <1>3
<1> QED
    BY <1>3, <1>4, <1>6, <1>7, <1>8, <1>9, <1>10, KernelStays

(* The run of the operation is found, by the answer or by the list.        *)
LEMMA FoundStep ==
    ASSUME MaxReviews \in Nat, Inv, Answered \/ Reconcile
    PROVE  Inv'
<1>1. CASE /\ agent.at # "out" /\ Found /\ Goes("polling")
           /\ UNCHANGED <<remote, interrupts, sent, review, invocation>>
    <2>1. PICK i \in RunsOf(agent.op) :
              record' = [record EXCEPT ![agent.op] =
                            [phase |-> "running", run |-> i]]
        BY <1>1 DEF Found
    <2>2. i \in Nat /\ i # 0 /\ Known(agent.op)
        BY <2>1, RunDomain, Types DEF Inv, ServerInv, OnceInv
    <2> DEFINE row == [phase |-> "running", run |-> i]
    <2>3. /\ row \in Row /\ row.run = i /\ row.phase = "running"
          /\ record' = [record EXCEPT ![agent.op] = row]
        BY <2>1, <2>2 DEF Row, Phases
    <2> HIDE DEF row
    <2> QED
        BY <1>1, <2>2, <2>3, Written
<1>2. CASE /\ Reconcile /\ Store("uncertain") /\ Goes("out")
           /\ UNCHANGED record
    BY <1>2, Leaves DEF Reconcile, Inv, ServerInv, TypeInv
<1> QED
    BY <1>1, <1>2 DEF Answered, Reconcile

LEMMA PollStep ==
    ASSUME MaxReviews \in Nat, Inv, Poll
    PROVE  Inv'
<1>0. /\ agent.at = "polling" /\ agent.op \in Operations /\ Rec \in Row
      /\ UNCHANGED <<remote, interrupts, sent, review>>
      /\ Rec.run # 0 /\ Rec.run \in RunsOf(agent.op) /\ Known(agent.op)
      /\ invocation.output = 0 /\ invocation \in Invocation
      /\ sent' \in SUBSET sent /\ review' \in [Reviews -> Review]
    BY Types, Working DEF Poll, Inv, ServerInv, TypeInv, AgentInv, OnceInv, Rec
<1>1. CASE /\ remote[Rec.run].status = "success"
           /\ record' = [record EXCEPT ![agent.op].phase = "succeeded"]
           /\ Goes("noted") /\ UNCHANGED invocation
    <2> DEFINE row == [Rec EXCEPT !.phase = "succeeded"]
    <2>1. /\ row \in Row /\ row.run = Rec.run /\ row.phase = "succeeded"
          /\ record' = [record EXCEPT ![agent.op] = row]
        BY <1>0, <1>1 DEF Row, Phases, Rec
    <2> HIDE DEF row
    <2> QED
        BY <1>0, <1>1, <2>1, Written
<1>2. CASE /\ interrupts # None /\ Goes("asking") /\ UNCHANGED record
           /\ invocation' = [invocation EXCEPT !.status = "interrupted",
                                               !.interrupt = interrupts]
    <2>1. /\ invocation' \in Invocation /\ invocation'.output = 0
          /\ invocation'.interrupt = interrupts
        BY <1>0, <1>2 DEF Inv, ServerInv, TypeInv, Invocation, Statuses
    <2>2. Resumable(interrupts)
        BY <1>2 DEF Resumable, Quiet, Inv, ServerInv, ThreadInv
    <2> QED
        BY <1>0, <1>2, <2>1, <2>2, GoesOn
<1>3. CASE Store("failed") /\ Goes("failing") /\ UNCHANGED record
    <2>1. /\ invocation' \in Invocation /\ invocation'.output = 0
          /\ invocation'.status # "interrupted"
        BY <1>0, <1>3, Stored DEF Statuses
    <2> QED
        BY <1>0, <1>3, <2>1, GoesOn
<1> QED
    BY <1>1, <1>2, <1>3 DEF Poll

LEMMA AskStep ==
    ASSUME MaxReviews \in Nat, Inv, Ask
    PROVE  Inv'
<1> DEFINE r == invocation.interrupt
<1>1. /\ agent.at = "asking" /\ Rec.run # 0 /\ invocation.output = 0
      /\ UNCHANGED <<record, remote, interrupts, sent>>
      /\ sent' \in SUBSET sent /\ review \in [Reviews -> Review]
      /\ invocation \in Invocation
    BY Working DEF Ask, Inv, ServerInv, TypeInv, AgentInv
<1>2. invocation.status = "interrupted" =>
          Resumable(invocation.interrupt)
    BY DEF Inv, ResumeInv
<1>3. CASE /\ review[r].state = "none" /\ UNCHANGED invocation
           /\ review' = [review EXCEPT ![r].state = "pending"]
           /\ Goes("out")
    <2>1. /\ review' \in [Reviews -> Review]
          /\ \A q \in Reviews :
                 review[q].state = "approved" => review'[q] = review[q]
        BY <1>1, <1>3 DEF Review
    <2> QED
        BY <1>1, <1>2, <1>3, <2>1, GoesOn
<1>4. CASE UNCHANGED <<review, invocation>> /\ (Goes("out") \/ Goes("polling"))
    BY <1>1, <1>2, <1>4, GoesOn
<1>5. CASE Store("failed") /\ Goes("failing") /\ UNCHANGED review
    <2>1. /\ invocation' \in Invocation /\ invocation'.output = 0
          /\ invocation'.status # "interrupted"
        BY <1>1, <1>5, Stored DEF Statuses
    <2> QED
        BY <1>1, <1>5, <2>1, GoesOn
<1> QED
    BY <1>3, <1>4, <1>5 DEF Ask

(* The first operation, or one that settles what the thread shows: nothing *)
(* else is under way when it is sent.                                      *)
LEMMA SubmitStep ==
    ASSUME MaxReviews \in Nat, Inv, Submit
    PROVE  Inv'
<1> DEFINE row == [phase |-> "submitting", run |-> 0]
<1>1. PICK op \in Operations : op = agent.op
    BY Types DEF Inv, ServerInv
<1>2. /\ row \in Row /\ row.run = 0 /\ row.phase = "submitting"
      /\ record' = [record EXCEPT ![op] = row]
    BY <1>1 DEF Submit, Row, Phases
<1> HIDE DEF row
<1>3. /\ record' \in [Operations -> Row] /\ record'[op] = row
      /\ \A o \in Operations : o # op => record'[o] = record[o]
    BY <1>2 DEF Inv, ServerInv, TypeInv
<1>4. /\ UNCHANGED <<remote, interrupts, review, invocation>>
      /\ sent' = sent \cup {op} /\ agent.at = "submitting"
      /\ invocation.output = 0
    BY <1>1, Working DEF Submit
<1>5. ~Known(op) /\ Startable(op) /\ RunsOf(op) = {}
    BY <1>1, <1>4 DEF Inv, ServerInv, AgentInv, OnceInv, Known, Startable
<1>6. /\ \A o : RunsOf(o)' = RunsOf(o) /\ \A i : Running(i)' <=> Running(i)
      /\ Known(op)' /\ \A o \in Operations : Known(o) => Known(o)'
    BY <1>2, <1>3, <1>4 DEF RunsOf, Running, Known
<1>7. agent' \in Agent /\ agent'.op = op /\ agent'.at = "submitted"
    BY <1>1, Types DEF Inv, ServerInv, Submit, Goes, Agent, Places
<1>8. TypeInv'
    BY <1>3, <1>4, <1>7 DEF Inv, ServerInv, TypeInv
<1>9. OnceInv'
    <2>1. ASSUME NEW o \in Operations, o # op
          PROVE  record'[o] = record[o] /\ (o \in sent' <=> o \in sent)
        BY <1>3, <1>4, <2>1
    <2> QED
        BY <1>2, <1>3, <1>4, <1>5, <1>6, <2>1 DEF Inv, ServerInv, OnceInv, Known
<1>10. \A o \in Operations : Active(o)' => o = op
    BY <1>4, <1>5, <1>6 DEF Active, Startable, Quiet
<1>11. op = 0 => remote = <<>> /\ interrupts = None
    BY <1>5 DEF Inv, ServerInv, FirstInv
<1>12. op # 0 => /\ interrupts # None /\ Known(0)
                 /\ review[interrupts].state = "approved"
                 /\ review[interrupts].effective = op
    BY <1>5 DEF Startable, Inv, ServerInv, FirstInv
<1>13. op # 0 => Settled(interrupts)' /\ review'[interrupts'].effective = op
    BY <1>3, <1>4, <1>12, <1>2 DEF Settled, Known
<1>14. ThreadInv'
    <2>1. \A i \in DOMAIN remote : ~Running(i) /\ remote[i].status # "success"
        <3>1. \A i \in DOMAIN remote : ~Running(i)
            BY <1>5, Alone DEF Startable, Inv
        <3> QED
            BY <1>11, <1>12, <3>1 DEF Inv, ServerInv, ThreadInv
    <2> QED
        BY <1>4, <1>6, <1>10, <1>11, <1>13, <2>1 DEF ThreadInv
<1>15. FirstInv'
    <2>1. Known(0)'
        BY <1>1, <1>6, <1>12 DEF Operations, Known
    <2> QED
        BY <2>1 DEF FirstInv
<1>16. PICK r \in Reviews \cup {None} : r = invocation.interrupt
    BY Types DEF Inv, ServerInv, Invocation
<1>17. invocation.status = "interrupted" => Resumable(r)'
    <2>1. SUFFICES ASSUME invocation.status = "interrupted"
                   PROVE  Resumable(r)'
        OBVIOUS
    <2>2. r # None /\ (Settled(r) \/ interrupts = r)
        BY <1>16, <2>1 DEF Inv, ResumeInv, Resumable, Settled
    <2>3. CASE Settled(r)
        <3>1. review[r].effective \in Operations
            BY <2>2 DEF Inv, ServerInv, TypeInv, Review
        <3> QED
            BY <1>3, <1>4, <1>6, <2>2, <2>3, <3>1 DEF Resumable, Settled, Known
    <2>4. CASE interrupts = r
        <3>1. op # 0 /\ review[r].state = "approved" /\ review[r].effective = op
            BY <1>11, <1>12, <2>2, <2>4
        <3> QED
            BY <1>2, <1>3, <1>4, <2>2, <3>1 DEF Resumable, Settled, Known
    <2> QED
        BY <2>2, <2>3, <2>4
<1>18. OutputInv'
    BY <1>4 DEF OutputInv
<1>19. ServerInv'
    BY <1>8, <1>9, <1>14, <1>15 DEF ServerInv
<1> QED
    BY <1>4, <1>6, <1>7, <1>8, <1>16, <1>17, <1>18, <1>19, KernelStays DEF TypeInv

(* What is known while something is under way.                             *)
LEMMA Busy ==
    ASSUME Inv, ~Quiet
    PROVE  /\ invocation.status = "interrupted" =>
                  /\ invocation.interrupt # None
                  /\ Settled(invocation.interrupt)
           /\ agent.at # "out" => Known(agent.op)
    BY DEF Inv, ResumeInv, Resumable, AgentInv, Startable

(* The server does something, whatever the attempt is at.                  *)
LEMMA ServerMoves ==
    ASSUME Inv, ~Quiet, ServerInv', UNCHANGED <<record, review, invocation, agent>>,
           \A i \in DOMAIN remote : remote[i].status = "success" =>
               i \in DOMAIN remote' /\ remote'[i] = remote[i]
    PROVE  Inv'
<1>1. ResumeInv'
    BY Busy DEF ResumeInv, Resumable, Settled, Known
<1>2. AgentInv'
    BY Busy DEF Inv, AgentInv, Rec, Known
<1>3. OutputInv'
    BY DEF Inv, OutputInv
<1> QED
    BY <1>1, <1>2, <1>3 DEF Inv

LEMMA ArrivesStep ==
    ASSUME MaxReviews \in Nat, Inv, NEW x \in sent, Arrives(x)
    PROVE  Inv'
<1>1. /\ x \in Operations /\ Active(x) /\ Known(x) /\ RunsOf(x) = {} /\ ~Quiet
      /\ \A o \in Operations : Active(o) => o = x
    BY DEF Inv, ServerInv, TypeInv, OnceInv, ThreadInv, Active, Quiet
<1>2. /\ sent' = {} /\ interrupts' \in {interrupts, None}
      /\ UNCHANGED <<record, review, invocation, agent>>
      /\ \A i \in DOMAIN remote : ~Running(i)
      /\ \A i \in DOMAIN remote : remote[i].status # "success"
      /\ remote' = Append(remote, [op |-> x, status |-> "running"])
    <2>1. sent = {x}
        BY <1>1 DEF Inv, ServerInv, TypeInv, Active
    <2> QED
        BY <1>1, <2>1 DEF Arrives, Running, Inv, ServerInv, ThreadInv
<1> DEFINE n == Len(remote) + 1
<1>3. /\ remote' \in Seq(Run) /\ DOMAIN remote' = DOMAIN remote \cup {n}
      /\ Len(remote') = n /\ remote'[n].status = "running"
      /\ \A o \in Operations : o # x => RunsOf(o)' = RunsOf(o)
      /\ RunsOf(x)' = {n} /\ n \notin DOMAIN remote
      /\ \A i \in DOMAIN remote : remote'[i] = remote[i]
    BY <1>1, <1>2, Created, RunDomain DEF Inv, ServerInv
<1> HIDE DEF n
<1>4. TypeInv'
    BY <1>2, <1>3 DEF Inv, ServerInv, TypeInv
<1>5. \A o \in Operations : Known(o)' <=> Known(o)
    BY <1>2 DEF Known
<1>6. OnceInv'
    <2>1. record[x].run = 0 /\ record[x].phase # "succeeded"
        BY <1>1 DEF Inv, ServerInv, OnceInv
    <2>2. ASSUME NEW o \in Operations, o # x
          PROVE  /\ RunsOf(o)' = RunsOf(o) /\ record'[o] = record[o]
                 /\ record[o].run # 0 =>
                        remote'[record[o].run] = remote[record[o].run]
        BY <1>2, <1>3, <2>2 DEF Inv, ServerInv, OnceInv, RunsOf
    <2> DEFINE Once(o) ==
            /\ ~Known(o) => record[o].run = 0 /\ RunsOf(o) = {} /\ o \notin sent
            /\ o \in sent => RunsOf(o) = {}
            /\ \A i, j \in RunsOf(o) : i = j
            /\ record[o].run # 0 => record[o].run \in RunsOf(o)
            /\ record[o].phase = "succeeded" =>
                   record[o].run # 0 /\ remote[record[o].run].status = "success"
    <2>3. \A o \in Operations : Once(o)
        BY DEF Inv, ServerInv, OnceInv
    <2>4. Once(x)'
        BY <1>1, <1>2, <1>3, <1>5, <2>1
    <2>5. ASSUME NEW o \in Operations, o # x PROVE Once(o)'
        <3>1. Once(o)
            BY <2>3
        <3>2. /\ record' = record /\ sent' = {}
              /\ RunsOf(o)' = RunsOf(o) /\ (Known(o)' <=> Known(o))
            BY <1>2, <1>5, <2>2, <2>5
        <3>3. record[o].phase = "succeeded" =>
                  remote'[record[o].run].status = "success"
            BY <2>2, <2>5, <3>1
        <3> QED
            BY <3>1, <3>2, <3>3
    <2> QED
        BY <2>4, <2>5 DEF OnceInv
<1>7. \A o \in Operations : Active(o)' => o = x
    <2>1. ASSUME NEW o \in Operations, o # x, NEW i \in RunsOf(o)
          PROVE  ~Running(i)'
        BY <1>2, <1>3 DEF Running, RunsOf
    <2> QED
        BY <1>2, <1>3, <2>1 DEF Active
<1>8. interrupts' # None =>
          /\ interrupts' = interrupts /\ Settled(interrupts)
          /\ review[interrupts].effective = x
    BY <1>1, <1>2 DEF Inv, ServerInv, ThreadInv
<1>9. interrupts' # None =>
          Settled(interrupts)' /\ review'[interrupts'].effective = x
    BY <1>1, <1>2, <1>8 DEF Settled, Known
<1>10. ThreadInv'
    <2>1. \A i \in DOMAIN remote' :
              /\ Running(i)' => i = Len(remote')
              /\ remote'[i].status # "success"
        BY <1>2, <1>3 DEF Running
    <2> QED
        BY <1>7, <1>9, <2>1 DEF ThreadInv
<1>11. FirstInv'
    BY <1>1, <1>2 DEF Inv, ServerInv, FirstInv, Known
<1>12. ServerInv'
    BY <1>4, <1>6, <1>10, <1>11 DEF ServerInv
<1> QED
    BY <1>1, <1>2, <1>12, ServerMoves

LEMMA EndsStep ==
    ASSUME MaxReviews \in Nat, Inv, NEW i \in DOMAIN remote, RemoteEnds(i)
    PROVE  Inv'
<1>1. UNCHANGED <<record, sent, review, invocation, agent>>
    BY DEF RemoteEnds
<1>2. PICK status \in Over \cup {"interrupted"}, left \in Reviews \cup {None} :
          Ends(i, status, left) /\ (status = "success" => left = None)
    BY DEF RemoteEnds, Over, Inv, ServerInv, TypeInv
<1>3. Running(i)
    BY <1>2 DEF Ends, Running
<1>4. Known(0) /\ ~Quiet
    BY <1>3, Alone DEF Inv
<1>5. /\ remote' \in Seq(Run) /\ \A o : RunsOf(o)' = RunsOf(o)
      /\ interrupts' \in Reviews \cup {None} /\ DOMAIN remote' = DOMAIN remote
      /\ Known(0)' => ThreadInv' /\ FirstInv'
      /\ \A j \in DOMAIN remote : remote[j].status = "success" =>
             remote'[j] = remote[j]
    BY <1>1, <1>2, EndsKeeps DEF Inv
<1>6. TypeInv'
    BY <1>1, <1>5 DEF Inv, ServerInv, TypeInv
<1>7. OnceInv'
    <2>1. ASSUME NEW o \in Operations, record[o].phase = "succeeded"
          PROVE  remote'[record[o].run].status = "success"
        BY <1>5, <2>1 DEF Inv, ServerInv, OnceInv, RunsOf
    <2> QED
        BY <1>1, <1>5, <2>1 DEF Inv, ServerInv, OnceInv, Known
<1>8. ServerInv'
    BY <1>1, <1>4, <1>5, <1>6, <1>7 DEF ServerInv, Known
<1> QED
    BY <1>1, <1>4, <1>5, <1>8, ServerMoves

(* A cancelled attempt notes it, and may have ended its run.               *)
LEMMA CancelStep ==
    ASSUME MaxReviews \in Nat, Inv, Cancel
    PROVE  Inv'
<1>1. PICK op \in Operations : op = agent.op
    BY Types DEF Inv, ServerInv
<1>2. /\ agent.at \in {"polling", "noted"} /\ UNCHANGED <<sent, review>>
      /\ Rec = record[op] /\ Rec \in Row /\ Rec.run # 0
      /\ Rec.run \in RunsOf(op) /\ Rec.run \in DOMAIN remote /\ Known(op)
      /\ invocation.output = 0 /\ invocation \in Invocation
      /\ Raises \/ (Goes("out") /\ UNCHANGED invocation)
    BY <1>1, Types, Working
    DEF Cancel, Inv, ServerInv, TypeInv, AgentInv, OnceInv, Rec, RunsOf
<1>3. PICK phase \in {"cancel_requested", "cancel_confirmed"} :
          record' = [record EXCEPT ![op].phase = phase]
    BY <1>1 DEF Cancel
<1> DEFINE i == Rec.run
           row == [Rec EXCEPT !.phase = phase]
<1>4. /\ row \in Row /\ row.run = i /\ row.phase \notin {"none", "succeeded"}
      /\ record' = [record EXCEPT ![op] = row] /\ i \in DOMAIN remote
    BY <1>2, <1>3 DEF Row, Phases
<1>5. \/ \E left \in Reviews \cup {None} : Ends(i, "interrupted", left)
      \/ UNCHANGED <<remote, interrupts>>
    BY DEF Cancel, Inv, ServerInv, TypeInv
<1>6. i \in RunsOf(op) /\ i # 0
    BY <1>2
<1> HIDE DEF i, row
<1>7. /\ remote' \in Seq(Run) /\ \A o : RunsOf(o)' = RunsOf(o)
      /\ interrupts' \in Reviews \cup {None}
      /\ \A j \in DOMAIN remote : remote[j].status = "success" =>
             remote'[j] = remote[j]
    <2>1. CASE UNCHANGED <<remote, interrupts>>
        BY <2>1 DEF Inv, ServerInv, TypeInv, RunsOf
    <2>2. CASE \E left \in Reviews \cup {None} : Ends(i, "interrupted", left)
        BY <1>2, <1>4, <2>2, EndsKeeps DEF Inv
    <2> QED
        BY <1>5, <2>1, <2>2
<1>8. /\ record' \in [Operations -> Row] /\ record'[op] = row
      /\ \A o \in Operations : Known(o)' <=> Known(o)
      /\ OnceInv'
    BY <1>2, <1>4, <1>6, <1>7, RecordKeeps DEF Inv, ServerInv
<1>9. /\ invocation' \in Invocation /\ invocation'.output = 0
      /\ invocation'.interrupt = invocation.interrupt
      /\ invocation'.status = "interrupted" =>
             invocation.status = "interrupted"
    BY <1>2, Stored DEF Raises, Statuses
<1>10. agent' \in Agent /\ agent'.op = op /\ agent'.at \in {"out", "failing"}
    BY <1>1, <1>2, Types DEF Raises, Goes, Inv, ServerInv, Agent, Places
<1>11. TypeInv'
    BY <1>2, <1>7, <1>8, <1>9, <1>10 DEF Inv, ServerInv, TypeInv
<1>12. PICK r \in Reviews \cup {None} : r = invocation.interrupt
    BY <1>2 DEF Invocation
<1>13. ServerInv' /\ (invocation.status = "interrupted" => Resumable(r)')
    <2>1. invocation.status = "interrupted" => Resumable(r)
        BY <1>12 DEF Inv, ResumeInv, Resumable, Settled, Known
    <2>2. CASE UNCHANGED <<remote, interrupts>>
        BY <1>2, <1>8, <1>11, <1>12, <2>1, <2>2, ServerStays
        DEF Inv, Resumable
    <2>3. CASE \E left \in Reviews \cup {None} : Ends(i, "interrupted", left)
        <3>1. Running(i)
            BY <2>3 DEF Ends, Running
        <3>2. ~Quiet /\ Known(0) /\ 0 \in Operations
            BY <1>4, <3>1, Alone DEF Inv, Operations
        <3>3. ThreadInv' /\ FirstInv'
            BY <1>2, <1>4, <1>8, <2>3, <3>2, EndsKeeps DEF Inv
        <3>4. invocation.status = "interrupted" => r # None /\ Settled(r)
            BY <1>12, <2>1, <3>2 DEF Resumable
        <3>5. review[r].effective \in Operations \/ r = None
            BY DEF Inv, ServerInv, TypeInv, Review
        <3>6. invocation.status = "interrupted" => Resumable(r)'
            BY <1>2, <1>8, <3>4, <3>5 DEF Resumable, Settled, Known
        <3> QED
            BY <1>8, <1>11, <3>3, <3>6 DEF ServerInv
    <2> QED
        BY <1>5, <2>2, <2>3
<1>14. OutputInv'
    BY <1>9 DEF OutputInv
<1> QED
    BY <1>8, <1>9, <1>10, <1>12, <1>13, <1>14, <1>2, KernelStays

-----------------------------------------------------------------------------
LEMMA AgentStep == MaxReviews \in Nat /\ Inv /\ [Next]_vars => Inv'
<1> SUFFICES ASSUME MaxReviews \in Nat, Inv, [Next]_vars PROVE Inv'
    OBVIOUS
<1>1. CASE UNCHANGED vars
    <2>1. sent' \in SUBSET sent /\ review' \in [Reviews -> Review]
          /\ invocation' \in Invocation /\ agent' \in Agent
        BY <1>1 DEF vars, Inv, ServerInv, TypeInv
    <2> QED
        BY <1>1, <2>1, Moves
        DEF vars, Inv, ResumeInv, AgentInv, OutputInv, Rec
<1> QED
    BY <1>1, BeginStep, ResumeStep, RetryStep, LeaveStep, ReturnStep,
       OperatorStep, SubmitStep, FoundStep, PollStep, AskStep, CancelStep,
       ArrivesStep, EndsStep DEF Next

LEMMA InvOnce ==
    ASSUME Inv
    PROVE  RemoteStartedOnce
<1>1. ASSUME NEW o \in Operations PROVE Cardinality(RunsOf(o)) <= 1
    <2>1. CASE RunsOf(o) = {}
        BY <2>1, FS_EmptySet
    <2>2. ASSUME NEW i \in RunsOf(o) PROVE Cardinality(RunsOf(o)) = 1
        <3>1. RunsOf(o) = {i}
            BY DEF Inv, ServerInv, OnceInv
        <3> QED
            BY <3>1, FS_Singleton
    <2> QED
        BY <2>1, <2>2
<1>2. ASSUME invocation.output # 0
      PROVE  /\ invocation.output = Len(remote)
             /\ remote[invocation.output].status = "success"
             /\ sent = {}
    BY <1>2 DEF Inv, ServerInv, TypeInv, ThreadInv, OutputInv, Quiet, Active
<1> QED
    BY <1>1, <1>2 DEF RemoteStartedOnce

(* The server runs each operation at most once, although answers are lost, *)
(* requests come late, processes die and an operator sends the invocation  *)
(* back to its first operation; and an output that is returned is that of  *)
(* the last run, behind which nothing is on its way.                       *)
THEOREM RemoteAgentCorrect ==
    ASSUME MaxReviews \in Nat
    PROVE  Spec => []RemoteStartedOnce
<1>1. Init => Inv
    BY Start
<1>2. Inv /\ [Next]_vars => Inv'
    BY AgentStep
<1>3. Inv => RemoteStartedOnce
    BY InvOnce
<1> QED
    BY <1>1, <1>2, <1>3, PTL DEF Spec
-----------------------------------------------------------------------------
(* Inside of an engine (AgentLoop): a degraded answer and the guardrails.     *)

(* The limits, and the arguments they are compared with, are numbers.         *)
Numeric ==
  /\ \A p \in DOMAIN Limits : Limits[p].min \in Int /\ Limits[p].max \in Int
  /\ \A c \in Calls : \A p \in DOMAIN c.args :
       c.args[p].type \in {"integer", "number"} => c.args[p].n \in Int

Formed ==
  /\ DOMAIN setup = {"fallbacks", "mode", "block", "profile"}
  /\ setup = [x \in DOMAIN setup |-> setup[x]]
  /\ record = [attempt |-> record.attempt, snapshot |-> record.snapshot,
               degraded |-> record.degraded, reviewed |-> record.reviewed]
  /\ thread = [models |-> thread.models, tools |-> thread.tools,
               answered |-> thread.answered, entered |-> thread.entered]
  /\ at = [place |-> at.place, call |-> at.call]

(* The mark is one of the fallbacks that answered since the handler was       *)
(* entered, and the output is committed under the mark the gate has looked    *)
(* at.                                                                        *)
Marked ==
  /\ IF context = 0 THEN thread.entered = {} ELSE context \in thread.entered
  /\ at.place \in {"review", "succeeded"} => record.degraded = context
  /\ at.place = "succeeded" => record.reviewed \/ ~Loop!degrade_gate

(* A call that waits for its tool or for a person is one of the model's.      *)
CallsInv ==
  /\ at.place \in {"tool", "asking", "interrupted"} => at.call \in Calls
  /\ executed \subseteq Calls
  /\ Loop!OnlyReliableCallsRun

LoopInv == Formed /\ Marked /\ CallsInv

(* A call that passes the guardrails in mode "fail" is one a tool may rely    *)
(* on: no violation they look for is missed.                                  *)
LEMMA PassedIsReliable ==
  ASSUME Numeric, NEW c \in Calls, ~Loop!rejected("fail", c)
  PROVE  Loop!reliable(c)
  <1>1. c.tool \in DOMAIN Inventory /\ ~Loop!violates(c)
    BY DEF Loop!rejected
  <1> DEFINE schema == Inventory[c.tool]
  <1>2. Loop!schema_violations(schema, c.args) = {}
    BY <1>1 DEF Loop!violates
  <1>3. \A p \in schema.required : p \in DOMAIN c.args
    BY <1>2 DEF Loop!schema_violations
  <1>4. ASSUME NEW p \in DOMAIN c.args
        PROVE  \A pattern \in Patterns : c.args[p].strings \cap pattern = {}
    BY <1>1 DEF Loop!violates, Loop!pattern_violations
  <1>5. ASSUME NEW p \in DOMAIN c.args, c.args[p].type \in {"integer", "number"},
               p \in DOMAIN Limits
        PROVE  Limits[p].min <= c.args[p].n /\ c.args[p].n <= Limits[p].max
    <2>1. Loop!range_violations(c.args) = {}
      BY <1>1 DEF Loop!violates
    <2>2. ~(c.args[p].n < Limits[p].min \/ c.args[p].n > Limits[p].max)
      BY <1>5, <2>1 DEF Loop!range_violations
    <2>3. c.args[p].n \in Int /\ Limits[p].min \in Int /\ Limits[p].max \in Int
      BY <1>5 DEF Numeric
    <2> QED
      BY <2>2, <2>3
  <1>6. ASSUME NEW p \in DOMAIN c.args, p \in DOMAIN schema.properties,
               schema.properties[p].types # {}
        PROVE  \/ c.args[p].type \in schema.properties[p].types \cup {"null"}
               \/ c.args[p].type = "integer" /\ "number" \in schema.properties[p].types
    <2>1. Loop!fits(c.args[p], schema.properties[p])
      BY <1>2, <1>6 DEF Loop!schema_violations
    <2> QED
      BY <1>6, <2>1 DEF Loop!fits
  <1> QED
    BY <1>1, <1>3, <1>4, <1>5, <1>6 DEF Loop!reliable

LEMMA LoopStart ==
  ASSUME Loop!Init
  PROVE  LoopInv
  <1>1. DOMAIN setup = {"fallbacks", "mode", "block", "profile"}
        /\ setup = [x \in DOMAIN setup |-> setup[x]]
    BY DEF Loop!Init, Loop!Setups
  <1>2. Formed
    BY <1>1 DEF Loop!Init, Formed, Loop!NewThread, Loop!At
  <1>3. Marked /\ CallsInv
    BY DEF Loop!Init, Marked, CallsInv, Loop!NewThread, Loop!At, Loop!OnlyReliableCallsRun,
           Loop!NoCall
  <1> QED
    BY <1>2, <1>3 DEF LoopInv

LEMMA LoopStep ==
  ASSUME Numeric, LoopInv, [Loop!Next]_Loop!vars
  PROVE  LoopInv'
  <1> USE DEF LoopInv, Formed, Marked, CallsInv, Loop!OnlyReliableCallsRun, Loop!At,
     Loop!NoCall, Loop!degrade_gate, Loop!Fails, Loop!Failed, Loop!Enter
  <1>1. CASE Loop!Start
    <2>1. Formed'
      <3>1. /\ record' = [attempt |-> record'.attempt, snapshot |-> record'.snapshot,
                          degraded |-> record'.degraded, reviewed |-> record'.reviewed]
            /\ UNCHANGED setup
        BY <1>1 DEF Loop!Start
      <3>2. /\ thread' = Loop!NewThread
            /\ at' = Loop!At("model") \/ at' = Loop!At("failed") \/ at' = Loop!At("ready")
        BY <1>1 DEF Loop!Start
      <3> QED
        BY <3>1, <3>2 DEF Loop!NewThread
    <2>2. at'.place \in {"model", "failed", "ready"}
      BY <1>1 DEF Loop!Start
    <2>3. /\ context' = 0 /\ thread'.entered = {}
          /\ UNCHANGED <<setup, executed>>
      BY <1>1 DEF Loop!Start, Loop!NewThread
    <2>4. Marked' /\ CallsInv'
      BY <2>2, <2>3
    <2> QED
      BY <2>1, <2>4
  <1>2. ASSUME NEW a \in 0 .. Len(setup.fallbacks), Loop!ModelAnswers(a)
        PROVE  LoopInv'
    <2>1. /\ at' = [place |-> at'.place, call |-> at'.call]
          /\ at'.place \in {"asking", "tool", "output", "failed", "ready"}
          /\ at'.place \in {"asking", "tool"} => at'.call \in Calls
      BY <1>2 DEF Loop!ModelAnswers, Loop!Answers
    <2>2. /\ thread' = [models |-> thread'.models, tools |-> thread'.tools,
                        answered |-> thread'.answered, entered |-> thread'.entered]
          /\ thread'.entered = IF a = 0 THEN thread.entered ELSE thread.entered \cup {a}
          /\ context' = IF a = 0 THEN context ELSE a
      BY <1>2 DEF Loop!ModelAnswers, Loop!mark
    <2>3. UNCHANGED <<setup, record, executed>>
      BY <1>2 DEF Loop!ModelAnswers
    <2>4. Formed' /\ Marked' /\ CallsInv'
      BY <2>1, <2>2, <2>3
    <2> QED
      BY <2>4
  <1>3. CASE Loop!ModelFails
    BY <1>3 DEF Loop!ModelFails
  <1>4. CASE Loop!Interrupt
    BY <1>4 DEF Loop!Interrupt
  <1>5. CASE Loop!Reconfigure
    BY <1>5 DEF Loop!Reconfigure
  <1>6. CASE Loop!Resume
    BY <1>6 DEF Loop!Resume
  <1>7. CASE Loop!Dismiss
    BY <1>7 DEF Loop!Dismiss
  <1>8. CASE Loop!CallTool
    <2>1. at.call \in Calls
      BY <1>8 DEF Loop!CallTool
    <2>2. setup.mode = "fail" /\ ~Loop!ToolRejected(at.call) => Loop!reliable(at.call)
      BY <2>1, PassedIsReliable DEF Loop!ToolRejected
    <2> QED
      BY <1>8, <2>1, <2>2 DEF Loop!CallTool
  <1>9. CASE Loop!ToolRefused
    BY <1>9 DEF Loop!ToolRefused
  <1>10. CASE Loop!Ends
    BY <1>10 DEF Loop!Ends
  <1>11. CASE Loop!Reviewed
    BY <1>11 DEF Loop!Reviewed
  <1>12. CASE UNCHANGED Loop!vars
    BY <1>12 DEF Loop!vars
  <1> QED
    BY <1>1, <1>2, <1>3, <1>4, <1>5, <1>6, <1>7, <1>8, <1>9, <1>10, <1>11,
       <1>12 DEF Loop!Next

LEMMA MarkedIsNoted == Marked => Loop!DegradedIsNoted
  BY DEF Marked, Loop!DegradedIsNoted, Loop!degrade_gate, Loop!Weak

(* The answer of a fallback model is on the record of the invocation that     *)
(* succeeded, and a deployment that blocks degraded results has had it        *)
(* reviewed unless a fallback that may decide answered too: for any chain of  *)
(* fallbacks, any number of attempts, model calls, interrupts and resumptions.*)
THEOREM DegradedCorrect ==
  ASSUME Numeric
  PROVE  Loop!Spec => []Loop!DegradedIsNoted
  <1>1. Loop!Init => LoopInv
    BY LoopStart
  <1>2. LoopInv /\ [Loop!Next]_Loop!vars => LoopInv'
    BY LoopStep
  <1>3. LoopInv => Loop!DegradedIsNoted
    BY MarkedIsNoted DEF LoopInv
  <1> QED
    BY <1>1, <1>2, <1>3, PTL DEF Loop!Spec

(* In mode "fail" no tool is handed arguments it may not rely on, for any     *)
(* inventory, patterns and limits, and whatever a person edits.               *)
THEOREM GuardrailsCorrect ==
  ASSUME Numeric
  PROVE  Loop!Spec => []Loop!OnlyReliableCallsRun
  <1>1. Loop!Init => LoopInv
    BY LoopStart
  <1>2. LoopInv /\ [Loop!Next]_Loop!vars => LoopInv'
    BY LoopStep
  <1>3. LoopInv => Loop!OnlyReliableCallsRun
    BY DEF LoopInv, CallsInv
  <1> QED
    BY <1>1, <1>2, <1>3, PTL DEF Loop!Spec
=============================================================================
