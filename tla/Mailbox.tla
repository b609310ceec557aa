------------------------------ MODULE Mailbox ------------------------------
(* The mailbox of one invocation and the conversation that reads it.  The     *)
(* messages of a run are rows; the middleware takes the pending ones into the *)
(* conversation before a model call and acknowledges them after it.  The      *)
(* conversation is a checkpoint of the attempt: a resumed attempt goes on     *)
(* with it, a new attempt starts without one.                                 *)
EXTENDS Integers, FiniteSets

CONSTANTS Keys,         \* idempotency keys of the senders' messages
          Payloads,
          MaxAttempts,  \* bound: attempts of the invocation
          MaxCalls      \* bound: model calls of an attempt

VARIABLES mail,   \* the row of each key: its state and payload
          inbox,  \* framework_inbox_ids of the checkpoint
          read,   \* the messages in the conversation of the attempt
          agent,  \* what the attempt is at, its number and the calls it made
          seen    \* history: the messages some model call answered

vars == <<mail, inbox, read, agent, seen>>

NoMessage == [state |-> "none", payload |-> "none"]
Init == /\ mail = [k \in Keys |-> NoMessage]
        /\ inbox = {}
        /\ read = {}
        /\ agent = [at |-> "thinking", attempt |-> 1, calls |-> 0]
        /\ seen = {}

Goes(at) == agent' = [agent EXCEPT !.at = at]
Pending == {k \in Keys : mail[k].state = "pending"}

(* send: a key used before returns its message, or is a Conflict when the     *)
(* contents differ; either way nothing changes.                               *)
Send(k, payload) ==
  /\ mail[k].state = "none"
  /\ mail' = [mail EXCEPT ![k] = [state |-> "pending", payload |-> payload]]
  /\ UNCHANGED <<inbox, read, agent, seen>>

(* receive leaves out what has expired; acknowledge does not look.            *)
Expires(k) ==
  /\ mail[k].state = "pending"
  /\ mail' = [mail EXCEPT ![k].state = "expired"]
  /\ UNCHANGED <<inbox, read, agent, seen>>

(* abefore_model: without pending messages the checkpoint stays as it is.     *)
abefore_model ==
  /\ agent.at = "thinking"
  /\ agent.calls < MaxCalls
  /\ inbox' = IF Pending # {} THEN Pending ELSE inbox
  /\ read' = read \cup Pending
  /\ Goes("calling")
  /\ UNCHANGED <<mail, seen>>

Answered ==
  /\ agent.at = "calling"
  /\ seen' = seen \cup read
  /\ agent' = [agent EXCEPT !.at = "answered", !.calls = @ + 1]
  /\ UNCHANGED <<mail, inbox, read>>

(* Mutant: what is acknowledged is what is pending, not what was handed out.  *)
acknowledge_pending(k) ==
  /\ agent.at = "answered"
  /\ k \in Pending
  /\ mail' = [mail EXCEPT ![k].state = "consumed"]
  /\ inbox' = inbox \ {k}
  /\ UNCHANGED <<read, agent, seen>>

(* acknowledge, one row at a time: expired ones too, consumed ones again.     *)
acknowledge(k) ==
  /\ agent.at = "answered"
  /\ k \in inbox
  /\ mail' = [mail EXCEPT ![k].state = "consumed"]
  /\ inbox' = inbox \ {k}
  /\ UNCHANGED <<read, agent, seen>>

(* aafter_model has acknowledged them all, and the graph goes on.             *)
aafter_model ==
  /\ agent.at = "answered"
  /\ inbox = {}
  /\ \/ Goes("thinking")   \* it called tools
     \/ Goes("finished")   \* it gave its answer
     \/ Goes("paused")     \* a tool waits for a review; the checkpoint is kept
  /\ UNCHANGED <<mail, inbox, read, seen>>

Resume ==
  /\ agent.at = "paused"
  /\ Goes("thinking")
  /\ UNCHANGED <<mail, inbox, read, seen>>

(* The model, a tool or the process fails: a retry, or the retry an operator  *)
(* grants, is a new attempt with a thread of its own.                         *)
NewAttempt ==
  /\ agent.at \in {"thinking", "calling", "answered"}
  /\ agent.attempt < MaxAttempts
  /\ agent' = [at |-> "thinking", attempt |-> agent.attempt + 1, calls |-> 0]
  /\ inbox' = {}
  /\ read' = {}
  /\ UNCHANGED <<mail, seen>>

Next == \/ \E k \in Keys : \/ \E payload \in Payloads : Send(k, payload)
                           \/ Expires(k) \/ acknowledge(k)
        \/ abefore_model \/ Answered \/ aafter_model \/ Resume \/ NewAttempt

Spec == Init /\ [][Next]_vars

-----------------------------------------------------------------------------
(* "成功消费后确认": through expiry, failures between the two and new attempts, no    *)
(* message is consumed that no model call has answered, and one in the inbox  *)
(* of the checkpoint is in the conversation that goes on from it.             *)
ConsumedWasSeen ==
  /\ \A k \in Keys : mail[k].state = "consumed" => k \in seen
  /\ inbox \subseteq read

(* What an invocation finishes with may lack what an attempt before consumed. *)
FinishedHasRead ==
  agent.at = "finished" => \A k \in Keys : mail[k].state = "consumed" => k \in read
=============================================================================
