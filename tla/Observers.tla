----------------------------- MODULE Observers -----------------------------
(* The observation of a finished run: processes that drain its event log from *)
(* a shared cursor, the observation each final event starts, and the memories *)
(* that are proposed from its output and reviewed by people.  A cursor is     *)
(* saved after the handler, by whoever ran it; nothing orders two processes.  *)
EXTENDS Integers, Sequences, FiniteSets

CONSTANTS Processes,   \* each runs worker.observe
          MaxEvents,   \* bound: length of the event log
          MaxReviews   \* bound: reviews of one memory

VARIABLES log,         \* the events of the observed run, by kind
          cursor,      \* the checkpoint of the observer
          drain,       \* what each process is at: its events end at last, it is at next
          observation, \* per cursor: the run submitted for the event
          memory       \* per cursor: the memories proposed from it, as one record

vars == <<log, cursor, drain, observation, memory>>

Kinds == {"step", "final", "own"}   \* own: observer.* and memory.*
Idle == [at |-> "idle", next |-> 0, last |-> 0]
NoMemory == [state |-> "none", version |-> 0]
Finished == {"succeeded", "failed"}

Init == /\ log = <<>>
        /\ cursor = 0
        /\ drain = [p \in Processes |-> Idle]
        /\ observation = [e \in 1 .. MaxEvents |-> "none"]
        /\ memory = [e \in 1 .. MaxEvents |-> NoMemory]

Room == Len(log) < MaxEvents
Logged(kind) == log' = IF Room THEN Append(log, kind) ELSE log
Goes(p, at) == drain' = [drain EXCEPT ![p].at = at]
Event(p) == drain[p].next

Happens ==
  /\ Room
  /\ \E kind \in {"step", "final"} : Logged(kind)
  /\ UNCHANGED <<cursor, drain, observation, memory>>

(* drain reads the cursor and the events after it, once.                      *)
Drain(p) ==
  /\ drain[p].at = "idle"
  /\ cursor < Len(log)
  /\ drain' = [drain EXCEPT ![p] = [at |-> "event", next |-> cursor + 1, last |-> Len(log)]]
  /\ UNCHANGED <<log, cursor, observation, memory>>

(* An event of its own kind is passed over, one that is not final is ignored  *)
(* by the handler; both move the cursor.                                      *)
Ignore(p) ==
  /\ drain[p].at = "event"
  /\ log[Event(p)] # "final"
  /\ Goes(p, "save")
  /\ UNCHANGED <<log, cursor, observation, memory>>

(* submit with a key made of the event: the run, new or submitted before; and *)
(* execute: a finished one is read, one that another process executes is a    *)
(* Conflict, any other is claimed.                                            *)
Observe(p) ==
  /\ drain[p].at = "event"
  /\ log[Event(p)] = "final"
  /\ \/ /\ observation[Event(p)] \in {"none", "queued"}
        /\ observation' = [observation EXCEPT ![Event(p)] = "running"]
        /\ Goes(p, "executing")
     \/ /\ observation[Event(p)] = "succeeded"
        /\ Goes(p, "propose")
        /\ UNCHANGED observation
     \/ /\ observation[Event(p)] \in {"running", "failed", "uncertain"}
        /\ Goes(p, "failed")
        /\ UNCHANGED observation
  /\ UNCHANGED <<log, cursor, memory>>

Executed(p) ==
  /\ drain[p].at = "executing"
  /\ \/ /\ observation' = [observation EXCEPT ![Event(p)] = "succeeded"]
        /\ Goes(p, "propose")
     \/ \E status \in {"failed", "uncertain"} :
          /\ observation' = [observation EXCEPT ![Event(p)] = status]
          /\ Goes(p, "failed")
  /\ UNCHANGED <<log, cursor, memory>>

(* Memory.propose: the key is made of the event and what is proposed comes    *)
(* from the saved output, so a candidate that exists is left as it is.        *)
Propose(p) ==
  /\ drain[p].at = "propose"
  /\ IF memory[Event(p)].state = "none"
     THEN /\ memory' = [memory EXCEPT ![Event(p)] = [state |-> "proposed", version |-> 1]]
          /\ Logged("own")
     ELSE UNCHANGED <<memory, log>>
  /\ Goes(p, "save")
  /\ UNCHANGED <<cursor, observation>>

Onward(p) ==
  drain' = [drain EXCEPT ![p] =
             IF Event(p) = drain[p].last THEN Idle
             ELSE [drain[p] EXCEPT !.at = "event", !.next = Event(p) + 1]]

(* Mutant: the cursor is saved past everything the drain has read.            *)
Save_all(p) ==
  /\ drain[p].at = "save"
  /\ cursor' = drain[p].last
  /\ Onward(p)
  /\ UNCHANGED <<log, observation, memory>>

(* The cursor becomes the event's own, wherever another drain has moved it.   *)
Save(p) ==
  /\ drain[p].at = "save"
  /\ cursor' = Event(p)
  /\ Onward(p)
  /\ UNCHANGED <<log, observation, memory>>

(* A handler that raised: it is logged, and the drain ends where it is.       *)
Failed(p) ==
  /\ drain[p].at = "failed"
  /\ Logged("own")
  /\ drain' = [drain EXCEPT ![p] = Idle]
  /\ UNCHANGED <<cursor, observation, memory>>

(* The process dies, or the drain is cut off by its time limit.  Its          *)
(* observation can go on unless its agent may have been called.               *)
Cut(p) ==
  /\ drain[p].at # "idle"
  /\ drain' = [drain EXCEPT ![p] = Idle]
  /\ IF drain[p].at = "executing"
     THEN \E status \in {"queued", "uncertain"} :
            observation' = [observation EXCEPT ![Event(p)] = status]
     ELSE UNCHANGED observation
  /\ UNCHANGED <<log, cursor, memory>>

(* An operator reconciles the observation: its output, or another try.        *)
Reconcile(e) ==
  /\ observation[e] \in {"failed", "uncertain"}
  /\ observation' = [observation EXCEPT ![e] = "queued"]
  /\ UNCHANGED <<log, cursor, drain, memory>>

(* Memory.review: of the version the reviewer saw, and so of no older one.    *)
Review(e) ==
  /\ memory[e].state # "none"
  /\ memory[e].version <= MaxReviews
  /\ \E state \in {"accepted", "rejected"} :
       memory' = [memory EXCEPT ![e] = [state |-> state, version |-> @.version + 1]]
  /\ Logged("own")
  /\ UNCHANGED <<cursor, drain, observation>>

Next == \/ Happens
        \/ \E p \in Processes : \/ Drain(p) \/ Ignore(p) \/ Observe(p) \/ Executed(p)
                                \/ Propose(p) \/ Save(p) \/ Failed(p) \/ Cut(p)
        \/ \E e \in 1 .. MaxEvents : Reconcile(e) \/ Review(e)

Spec == Init /\ [][Next]_vars

-----------------------------------------------------------------------------
(* Whatever processes drain side by side, fail, die and go on, no final event *)
(* is passed over: below the cursor each has been observed and its memories   *)
(* are proposed, and handling one again does not undo what was reviewed.      *)
NoEventSkipped ==
  /\ \A e \in 1 .. cursor : log[e] = "final" =>
       observation[e] = "succeeded" /\ memory[e].state # "none"
  /\ \A e \in 1 .. MaxEvents : memory[e].version > 1 => memory[e].state # "proposed"
=============================================================================
