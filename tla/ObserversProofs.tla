-------------------------- MODULE ObserversProofs ---------------------------
(* No final event is passed over, for any number of processes that drain,     *)
(* events, reviews and repairs; and no message of the mailbox is consumed     *)
(* that no model call has answered.                                           *)
EXTENDS Observers, TLAPS

CONSTANTS Keys, Payloads, MaxAttempts, MaxCalls
VARIABLES mail, inbox, read, agent, seen

Mail == INSTANCE Mailbox

(* No final event is passed over, for any number of processes that drain,     *)
(* events, reviews and repairs.                                               *)

Statuses == {"none", "queued", "running", "succeeded", "failed", "uncertain"}
Places == {"idle", "event", "executing", "propose", "save", "failed"}
States == {"none", "proposed", "accepted", "rejected"}

TypeInv ==
  /\ log \in Seq(Kinds) /\ Len(log) <= MaxEvents
  /\ cursor \in 0 .. Len(log)
  /\ drain \in [Processes -> [at : Places, next : Nat, last : Nat]]
  /\ observation \in [1 .. MaxEvents -> Statuses]
  /\ memory \in [1 .. MaxEvents -> [state : States, version : Nat]]

Handled(e) == log[e] = "final" => observation[e] = "succeeded" /\ memory[e].state # "none"

(* A drain is inside what it has read; what lies before its event is handled, *)
(* and at each place so much is known of the event itself.                    *)
PlacedAt(p) ==
  drain[p].at # "idle" =>
    /\ drain[p].next \in 1 .. drain[p].last
    /\ drain[p].last <= Len(log)
    /\ \A e \in 1 .. Len(log) : e < drain[p].next => Handled(e)
    /\ drain[p].at = "save" => Handled(drain[p].next)
    /\ drain[p].at = "executing" => observation[drain[p].next] = "running"
    /\ drain[p].at = "propose" => observation[drain[p].next] = "succeeded"

Placed == \A p \in Processes : PlacedAt(p)

Rivals(p) == {q \in Processes \ {p} : drain[q].at = "executing" /\ drain[q].next = drain[p].next}

Alone ==
  \A p, q \in Processes :
    drain[p].at = "executing" /\ drain[q].at = "executing" /\ drain[p].next = drain[q].next => p = q

Kept ==
  /\ \A e \in 1 .. Len(log) : e <= cursor => Handled(e)
  /\ \A e \in 1 .. MaxEvents :
       /\ memory[e].state = "none" => memory[e].version = 0
       /\ memory[e].version > 1 => memory[e].state # "proposed"

Inv == TypeInv /\ Placed /\ Alone /\ Kept

(* An append changes no event there is.                                       *)
LEMMA LoggedKeeps ==
  ASSUME TypeInv, NEW kind \in Kinds, Logged(kind), MaxEvents \in Nat
  PROVE  /\ log' \in Seq(Kinds) /\ Len(log') <= MaxEvents /\ Len(log) <= Len(log')
         /\ \A e \in 1 .. Len(log) : log'[e] = log[e]
         /\ Len(log') \in Nat /\ Len(log) \in Nat
         /\ \A e \in 1 .. Len(log') : e \notin 1 .. Len(log) => e = Len(log) + 1
BY DEF TypeInv, Logged, Room

(* What a step of the processes S has to keep: an observation that succeeded   *)
(* or that another process executes, and every memory.                        *)
LEMMA Step ==
  ASSUME MaxEvents \in Nat, Inv, TypeInv', NEW S \in SUBSET Processes,
         \A q \in Processes \ S : drain'[q] = drain[q],
         Len(log) <= Len(log'), \A e \in 1 .. Len(log) : log'[e] = log[e],
         \A e \in 1 .. MaxEvents :
            \/ observation'[e] = observation[e]
            \/ /\ observation[e] # "succeeded"
               /\ \A q \in Processes \ S : drain[q].at = "executing" => drain[q].next # e,
         \A e \in 1 .. MaxEvents : /\ memory[e].state # "none" => memory'[e].state # "none"
                                   /\ memory'[e].state = "none" => memory'[e].version = 0
                                   /\ memory'[e].version > 1 => memory'[e].state # "proposed",
         cursor' = cursor \/ \A e \in 1 .. Len(log) : e <= cursor' => Handled(e)',
         cursor' <= Len(log),
         \A p \in S : PlacedAt(p)',
         \A p \in S : drain'[p].at = "executing" => Rivals(p)' = {}
  PROVE  Inv'
<1>1. \A e \in 1 .. Len(log) : Handled(e) => Handled(e)'
    BY SMTT(30) DEF Handled, Inv, TypeInv
<1>2. /\ Len(log) \in Nat /\ Len(log') \in Nat /\ Len(log) <= MaxEvents
      /\ cursor <= Len(log) /\ cursor \in Nat /\ cursor' \in Nat
    BY DEF Inv, TypeInv
<1>3. ASSUME NEW p \in Processes PROVE PlacedAt(p)'
    <2>1. CASE p \in S
        BY <2>1
    <2>2. CASE p \notin S /\ drain[p].at # "idle"
        <3>1. /\ drain[p].next \in 1 .. drain[p].last /\ drain[p].last <= Len(log)
              /\ drain[p].next \in Nat /\ drain[p].last \in Nat /\ drain'[p] = drain[p]
            BY <2>2 DEF Inv, Placed, PlacedAt, TypeInv
        <3>2. drain[p].next \in 1 .. Len(log) /\ drain[p].next \in 1 .. MaxEvents
            BY <1>2, <3>1
        <3>3. \A e \in 1 .. Len(log') : e < drain[p].next => Handled(e)'
            BY <1>1, <1>2, <2>2, <3>1, <3>2 DEF Inv, Placed, PlacedAt
        <3>4. drain[p].at = "save" => Handled(drain[p].next)'
            BY <1>1, <2>2, <3>2 DEF Inv, Placed, PlacedAt
        <3>5. drain[p].at = "executing" => observation'[drain[p].next] = "running"
            BY <2>2, <3>2 DEF Inv, Placed, PlacedAt
        <3>6. drain[p].at = "propose" => observation'[drain[p].next] = "succeeded"
            BY <2>2, <3>2 DEF Inv, Placed, PlacedAt
        <3> QED
            BY <1>2, <3>1, <3>3, <3>4, <3>5, <3>6 DEF PlacedAt
    <2>3. CASE p \notin S /\ drain[p].at = "idle"
        BY <2>3 DEF PlacedAt
    <2> QED
        BY <2>1, <2>2, <2>3
<1>4. Alone'
    <2> SUFFICES ASSUME NEW p \in Processes, NEW q \in Processes,
                        drain'[p].at = "executing", drain'[q].at = "executing",
                        drain'[p].next = drain'[q].next, p # q
                 PROVE  FALSE
        BY DEF Alone
    <2>1. p \notin S /\ q \notin S
        BY DEF Rivals
    <2> QED
        BY <2>1 DEF Inv, Alone
<1>5. Kept'
    <2>1. \A e \in 1 .. Len(log') : e <= cursor' => Handled(e)'
        BY <1>1, <1>2 DEF Inv, Kept
    <2> QED
        BY <2>1 DEF Kept
<1> QED
    BY <1>3, <1>4, <1>5 DEF Inv, Placed

LEMMA Grows ==
  ASSUME TypeInv, MaxEvents \in Nat, log' = log \/ \E kind \in Kinds : Logged(kind)
  PROVE  Len(log) <= Len(log') /\ \A e \in 1 .. Len(log) : log'[e] = log[e]
<1>1. CASE log' = log
    BY <1>1 DEF TypeInv
<1>2. CASE \E kind \in Kinds : Logged(kind)
    BY <1>2, LoggedKeeps
<1> QED
    BY <1>1, <1>2

(* The same for one process, and for a step of none of them.                  *)
LEMMA StepOf ==
  ASSUME MaxEvents \in Nat, Inv, TypeInv', NEW p \in Processes,
         \A q \in Processes \ {p} : drain'[q] = drain[q],
         log' = log \/ \E kind \in Kinds : Logged(kind),
         \A e \in 1 .. MaxEvents :
            \/ observation'[e] = observation[e]
            \/ /\ observation[e] # "succeeded"
               /\ \A q \in Processes \ {p} : drain[q].at = "executing" => drain[q].next # e,
         \A e \in 1 .. MaxEvents :
            \/ memory'[e] = memory[e]
            \/ memory'[e].state # "none" /\ (memory'[e].version > 1 => memory'[e].state # "proposed"),
         cursor' = cursor \/ (/\ cursor' \in 1 .. Len(log)
                              /\ \A e \in 1 .. Len(log) : e <= cursor' => Handled(e)'),
         PlacedAt(p)',
         drain'[p].at = "executing" => Rivals(p)' = {}
  PROVE  Inv'
<1>0. TypeInv /\ Len(log) \in Nat /\ cursor \in 0 .. Len(log)
    BY SMTT(30) DEF Inv, TypeInv
<1>1. /\ Len(log) <= Len(log') /\ Len(log) \in Nat /\ cursor \in 0 .. Len(log)
      /\ \A e \in 1 .. Len(log) : log'[e] = log[e]
    BY <1>0, Grows
<1>2. \A e \in 1 .. MaxEvents : /\ memory[e].state # "none" => memory'[e].state # "none"
                                /\ memory'[e].state = "none" => memory'[e].version = 0
                                /\ memory'[e].version > 1 => memory'[e].state # "proposed"
    BY DEF Inv, Kept
<1>3. cursor' <= Len(log) /\ (cursor' = cursor \/ \A e \in 1 .. Len(log) : e <= cursor' => Handled(e)')
    BY <1>1
<1> DEFINE S == {p}
<1>4. /\ S \in SUBSET Processes
      /\ \A q \in S : PlacedAt(q)'
      /\ \A q \in S : drain'[q].at = "executing" => Rivals(q)' = {}
    OBVIOUS
<1>5. /\ \A q \in Processes \ S : drain'[q] = drain[q]
      /\ \A e \in 1 .. MaxEvents :
            \/ observation'[e] = observation[e]
            \/ /\ observation[e] # "succeeded"
               /\ \A q \in Processes \ S : drain[q].at = "executing" => drain[q].next # e
    OBVIOUS
<1> HIDE DEF S
<1> QED
    BY <1>1, <1>2, <1>3, <1>4, <1>5, Step

LEMMA StepAside ==
  ASSUME MaxEvents \in Nat, Inv, TypeInv', drain' = drain, cursor' = cursor,
         log' = log \/ \E kind \in Kinds : Logged(kind),
         \A e \in 1 .. MaxEvents :
            observation'[e] = observation[e] \/ observation[e] \in {"failed", "uncertain"},
         \A e \in 1 .. MaxEvents :
            \/ memory'[e] = memory[e]
            \/ memory'[e].state # "none" /\ (memory'[e].version > 1 => memory'[e].state # "proposed")
  PROVE  Inv'
<1>0. TypeInv /\ Len(log) \in Nat /\ cursor \in 0 .. Len(log)
    BY DEF Inv, TypeInv
<1>1. /\ Len(log) <= Len(log') /\ Len(log) \in Nat /\ cursor \in 0 .. Len(log)
      /\ \A e \in 1 .. Len(log) : log'[e] = log[e]
    BY <1>0, Grows
<1>2. \A e \in 1 .. MaxEvents : /\ memory[e].state # "none" => memory'[e].state # "none"
                                /\ memory'[e].state = "none" => memory'[e].version = 0
                                /\ memory'[e].version > 1 => memory'[e].state # "proposed"
    BY DEF Inv, Kept
<1> DEFINE S == {}
<1>3. S \in SUBSET Processes /\ \A q \in S : FALSE
    OBVIOUS
<1>4. \A e \in 1 .. MaxEvents :
            \/ observation'[e] = observation[e]
            \/ /\ observation[e] # "succeeded"
               /\ \A q \in Processes \ S : drain[q].at = "executing" => drain[q].next # e
    BY DEF Inv, Placed, PlacedAt
<1>5. cursor' <= Len(log) /\ \A q \in Processes \ S : drain'[q] = drain[q]
    BY <1>1
<1> HIDE DEF S
<1> QED
    BY <1>1, <1>2, <1>3, <1>4, <1>5, Step

LEMMA GoesTyped ==
  ASSUME TypeInv, NEW p \in Processes, NEW at \in Places, Goes(p, at)
  PROVE  /\ drain' \in [Processes -> [at : Places, next : Nat, last : Nat]]
         /\ \A q \in Processes \ {p} : drain'[q] = drain[q]
         /\ drain'[p].at = at /\ drain'[p].next = drain[p].next /\ drain'[p].last = drain[p].last
<1> DEFINE v == [drain[p] EXCEPT !.at = at]
<1>1. drain[p] \in [at : Places, next : Nat, last : Nat]
    BY DEF TypeInv
<1>2. v \in [at : Places, next : Nat, last : Nat] /\ v.at = at /\ v.next = drain[p].next
      /\ v.last = drain[p].last
    BY <1>1
<1>3. drain' = [drain EXCEPT ![p] = v]
    BY DEF Goes
<1> HIDE DEF v
<1> QED
    BY <1>2, <1>3 DEF TypeInv

LEMMA InvStep == ASSUME MaxEvents \in Nat, Inv, [Next]_vars PROVE Inv'
<1>t. TypeInv
    BY DEF Inv
<1>n. /\ Len(log) \in Nat /\ Len(log) <= MaxEvents /\ cursor \in 0 .. Len(log)
      /\ "final" \in Kinds /\ "step" \in Kinds /\ "own" \in Kinds
    BY <1>t DEF TypeInv, Kinds
<1>m. \A e \in 1 .. MaxEvents : /\ memory[e].state = "none" => memory[e].version = 0
                                /\ memory[e].version > 1 => memory[e].state # "proposed"
                                /\ memory[e] \in [state : States, version : Nat]
    BY DEF Inv, Kept, TypeInv
<1>1. CASE Happens
    <2>1. PICK kind \in Kinds : Logged(kind)
        BY <1>1, <1>n DEF Happens
    <2>2. TypeInv'
        BY <1>1, <1>n, <1>t, <2>1, LoggedKeeps DEF Happens, TypeInv
    <2> QED
        BY <1>1, <2>1, <2>2, StepAside DEF Happens
<1>2. ASSUME NEW p \in Processes, Drain(p) PROVE Inv'
    <2> DEFINE v == [at |-> "event", next |-> cursor + 1, last |-> Len(log)]
    <2>1. /\ drain' = [drain EXCEPT ![p] = v] /\ cursor < Len(log)
          /\ UNCHANGED <<log, cursor, observation, memory>>
        BY <1>2 DEF Drain
    <2>2. TypeInv' /\ drain'[p] = v /\ \A q \in Processes \ {p} : drain'[q] = drain[q]
        BY <1>n, <1>t, <2>1 DEF TypeInv, Places
    <2>3. \A e \in 1 .. Len(log) : e <= cursor => Handled(e)'
        BY <1>2, <1>n DEF Drain, Inv, Kept, Handled
    <2>4. PlacedAt(p)'
        BY <1>n, <2>1, <2>2, <2>3 DEF PlacedAt
    <2> QED
        BY <2>1, <2>2, <2>4, StepOf
<1>e. ASSUME NEW p \in Processes, drain[p].at # "idle"
      PROVE  /\ Event(p) \in 1 .. Len(log) /\ Event(p) \in 1 .. MaxEvents /\ Event(p) = drain[p].next
             /\ drain[p].next \in Nat /\ drain[p].last \in Nat
             /\ drain[p].next <= drain[p].last /\ drain[p].last <= Len(log)
             /\ \A e \in 1 .. Len(log) : e < drain[p].next => Handled(e)
    BY <1>e, <1>n, <1>t DEF Inv, Placed, PlacedAt, TypeInv, Event
<1>3. ASSUME NEW p \in Processes, Ignore(p) PROVE Inv'
    <2>1. /\ Goes(p, "save") /\ UNCHANGED <<log, cursor, observation, memory>>
          /\ drain[p].at = "event" /\ log[drain[p].next] # "final" /\ "save" \in Places
        BY <1>3 DEF Ignore, Event, Places
    <2>2. TypeInv'
        BY <1>t, <2>1, GoesTyped DEF TypeInv
    <2>3. PlacedAt(p)'
        BY <1>t, <1>e, <2>1, GoesTyped DEF PlacedAt, Handled
    <2> QED
        BY <1>t, <2>1, <2>2, <2>3, GoesTyped, StepOf
<1>4. ASSUME NEW p \in Processes, Observe(p) PROVE Inv'
    <2>0. PICK at \in {"executing", "propose", "failed"} :
            /\ Goes(p, at)
            /\ at = "executing" => /\ observation[Event(p)] \in {"none", "queued"}
                                   /\ observation' = [observation EXCEPT ![Event(p)] = "running"]
            /\ at = "propose" => observation[Event(p)] = "succeeded"
            /\ at # "executing" => observation' = observation
        BY <1>4 DEF Observe
    <2>1. drain[p].at = "event" /\ UNCHANGED <<log, cursor, memory>> /\ at \in Places
        BY <1>4 DEF Observe, Places
    <2>2. observation' \in [1 .. MaxEvents -> Statuses]
        BY <1>t, <1>e, <2>0, <2>1 DEF TypeInv, Statuses
    <2>3. TypeInv'
        BY <1>t, <2>0, <2>1, <2>2, GoesTyped DEF TypeInv
    <2>4. \A e \in 1 .. MaxEvents : /\ observation[e] = "succeeded" => observation'[e] = "succeeded"
                                    /\ observation[e] = "running" => observation'[e] = "running"
        BY <1>t, <1>e, <2>0, <2>1 DEF TypeInv
    <2>5. \A e \in 1 .. Len(log) : Handled(e) => Handled(e)'
        BY <1>n, <2>1, <2>4 DEF Handled
    <2>6. PlacedAt(p)'
        BY SMTT(30), <1>t, <1>e, <2>0, <2>1, <2>5, GoesTyped DEF PlacedAt, TypeInv
    <2>7. \A e \in 1 .. MaxEvents :
            \/ observation'[e] = observation[e]
            \/ /\ observation[e] # "succeeded"
               /\ \A q \in Processes \ {p} : drain[q].at = "executing" => drain[q].next # e
        BY <1>t, <1>e, <2>0, <2>1 DEF Inv, Placed, PlacedAt, TypeInv
    <2>8. at = "executing" => Rivals(p)' = {}
        BY <1>t, <1>e, <2>0, <2>1, GoesTyped DEF Rivals, Inv, Placed, PlacedAt
    <2> QED
        BY <1>t, <2>0, <2>1, <2>3, <2>6, <2>7, <2>8, GoesTyped, StepOf
<1>5. ASSUME NEW p \in Processes, Executed(p) PROVE Inv'
    <2>0. PICK at \in {"propose", "failed"}, status \in {"succeeded", "failed", "uncertain"} :
            /\ Goes(p, at)
            /\ observation' = [observation EXCEPT ![Event(p)] = status]
            /\ at = "propose" => status = "succeeded"
        BY <1>5 DEF Executed
    <2>1. drain[p].at = "executing" /\ UNCHANGED <<log, cursor, memory>> /\ at \in Places
        BY <1>5 DEF Executed, Places
    <2>2. observation[Event(p)] = "running"
        BY <1>e, <2>1 DEF Inv, Placed, PlacedAt
    <2>3. TypeInv'
        BY <1>t, <1>e, <2>0, <2>1, GoesTyped DEF TypeInv, Statuses
    <2>4. \A e \in 1 .. MaxEvents : observation[e] = "succeeded" => observation'[e] = "succeeded"
        BY <1>t, <1>e, <2>0, <2>1, <2>2 DEF TypeInv
    <2>5. \A e \in 1 .. Len(log) : Handled(e) => Handled(e)'
        BY <1>n, <2>1, <2>4 DEF Handled
    <2>6. PlacedAt(p)'
        BY <1>t, <1>e, <2>0, <2>1, <2>5, GoesTyped DEF PlacedAt, TypeInv
    <2>7. \A e \in 1 .. MaxEvents :
            \/ observation'[e] = observation[e]
            \/ /\ observation[e] # "succeeded"
               /\ \A q \in Processes \ {p} : drain[q].at = "executing" => drain[q].next # e
        BY <1>t, <1>e, <2>0, <2>1, <2>2 DEF Inv, Alone, TypeInv
    <2> QED
        BY <1>t, <2>0, <2>1, <2>3, <2>6, <2>7, GoesTyped, StepOf
<1>6. ASSUME NEW p \in Processes, Propose(p) PROVE Inv'
    <2>0. /\ Goes(p, "save") /\ UNCHANGED <<cursor, observation>> /\ drain[p].at = "propose"
          /\ "save" \in Places /\ observation[Event(p)] = "succeeded"
        BY <1>6, <1>e DEF Propose, Places, Inv, Placed, PlacedAt
    <2>1. \/ UNCHANGED <<memory, log>> /\ memory[Event(p)].state # "none"
          \/ /\ memory' = [memory EXCEPT ![Event(p)] = [state |-> "proposed", version |-> 1]]
             /\ memory[Event(p)].state = "none" /\ Logged("own")
        BY <1>6 DEF Propose
    <2>2. /\ memory' \in [1 .. MaxEvents -> [state : States, version : Nat]]
          /\ memory'[Event(p)].state # "none"
          /\ \A e \in 1 .. MaxEvents :
                \/ memory'[e] = memory[e]
                \/ memory'[e].state # "none" /\ (memory'[e].version > 1 => memory'[e].state # "proposed")
          /\ \A e \in 1 .. MaxEvents : memory[e].state # "none" => memory'[e].state # "none"
        <3> DEFINE m == [state |-> "proposed", version |-> 1]
        <3>1. /\ memory \in [1 .. MaxEvents -> [state : States, version : Nat]]
              /\ m \in [state : States, version : Nat] /\ m.state = "proposed" /\ ~(m.version > 1)
              /\ Event(p) \in 1 .. MaxEvents
            BY <1>t, <1>e, <2>0 DEF TypeInv, States
        <3>2. CASE memory' = memory /\ memory[Event(p)].state # "none"
            BY <3>1, <3>2
        <3>3. CASE memory' = [memory EXCEPT ![Event(p)] = m]
            <4> HIDE DEF m
            <4>1. /\ memory' \in [1 .. MaxEvents -> [state : States, version : Nat]]
                  /\ \A e \in 1 .. MaxEvents : memory'[e] = IF e = Event(p) THEN m ELSE memory[e]
                BY <3>1, <3>3
            <4> QED
                BY <3>1, <4>1
        <3> QED
            BY <2>1, <3>2, <3>3
    <2>3. log' = log \/ \E kind \in Kinds : Logged(kind)
        BY <1>n, <2>1
    <2>4. log' \in Seq(Kinds) /\ Len(log') <= MaxEvents /\ cursor \in 0 .. Len(log')
        <3>1. CASE log' = log
            BY <3>1, <1>t DEF TypeInv
        <3>2. CASE Logged("own")
            BY <3>2, <1>n, <1>t, LoggedKeeps
        <3> QED
            BY <2>1, <3>1, <3>2
    <2>5. TypeInv'
        BY <1>t, <2>0, <2>2, <2>4, GoesTyped DEF TypeInv
    <2>6. /\ Len(log) <= Len(log') /\ Len(log') \in Nat
          /\ \A e \in 1 .. Len(log) : log'[e] = log[e]
        BY <1>t, <2>3, <2>4, Grows
    <2>7. \A e \in 1 .. Len(log) : Handled(e) => Handled(e)'
        BY <1>n, <2>0, <2>2, <2>6 DEF Handled
    <2>8. PlacedAt(p)'
        <3>1. \A e \in 1 .. Len(log') : e < drain[p].next => Handled(e)'
            BY <1>e, <1>n, <2>0, <2>6, <2>7
        <3>2. drain'[p].at = "save" /\ drain'[p].next = drain[p].next /\ drain'[p].last = drain[p].last
            BY <1>t, <2>0, GoesTyped
        <3>3. Handled(drain[p].next)'
            BY <2>0, <2>2, <3>2 DEF Handled, Event
        <3> QED
            BY <1>e, <1>n, <2>0, <2>6, <3>1, <3>2, <3>3 DEF PlacedAt
    <2> QED
        BY <1>t, <2>0, <2>2, <2>3, <2>5, <2>8, GoesTyped, StepOf
<1>7. ASSUME NEW p \in Processes, Save(p) PROVE Inv'
    <2> DEFINE v == IF drain[p].next = drain[p].last THEN Idle
                    ELSE [drain[p] EXCEPT !.at = "event", !.next = drain[p].next + 1]
    <2>0. /\ cursor' = drain[p].next /\ UNCHANGED <<log, observation, memory>> /\ drain[p].at = "save"
          /\ drain[p] \in [at : Places, next : Nat, last : Nat]
        BY <1>7, <1>t DEF Save, Event, TypeInv
    <2>1. drain' = [drain EXCEPT ![p] = v]
        BY <1>7 DEF Save, Onward, Event
    <2>2. v \in [at : Places, next : Nat, last : Nat]
        <3>1. "event" \in Places /\ drain[p].next + 1 \in Nat
              /\ Idle \in [at : Places, next : Nat, last : Nat]
            BY <1>e, <2>0 DEF Idle, Places
        <3> QED
            BY <2>0, <3>1
    <2>3. /\ v.at # "idle" => /\ v.at = "event" /\ v.next = drain[p].next + 1
                              /\ v.last = drain[p].last /\ drain[p].next # drain[p].last
          /\ v.at # "executing"
        BY <2>0 DEF Idle
    <2> HIDE DEF v
    <2>4. /\ drain' \in [Processes -> [at : Places, next : Nat, last : Nat]] /\ drain'[p] = v
          /\ \A q \in Processes \ {p} : drain'[q] = drain[q]
        BY <1>t, <2>1, <2>2 DEF TypeInv
    <2>5. TypeInv'
        <3>1. cursor' \in 0 .. Len(log)
            BY <1>e, <1>n, <2>0
        <3> QED
            BY <1>t, <2>0, <2>4, <3>1 DEF TypeInv
    <2>6. Handled(drain[p].next)
        BY <2>0 DEF Inv, Placed, PlacedAt
    <2>7. \A e \in 1 .. Len(log) : e <= drain[p].next => Handled(e)'
        <3>1. \A e \in 1 .. Len(log) : e <= drain[p].next => Handled(e)
            BY <1>e, <1>n, <2>0, <2>6
        <3> QED
            BY <2>0, <3>1 DEF Handled
    <2>8. PlacedAt(p)'
        BY <1>e, <1>n, <2>0, <2>3, <2>4, <2>7 DEF PlacedAt
    <2> QED
        BY <1>e, <2>0, <2>3, <2>4, <2>5, <2>7, <2>8, StepOf
<1>8. ASSUME NEW p \in Processes, Failed(p) PROVE Inv'
    <2>0. /\ drain' = [drain EXCEPT ![p] = Idle] /\ UNCHANGED <<cursor, observation, memory>>
          /\ Logged("own") /\ Idle \in [at : Places, next : Nat, last : Nat] /\ Idle.at = "idle"
        BY <1>8 DEF Failed, Idle, Places
    <2>1. TypeInv'
        BY <1>n, <1>t, <2>0, LoggedKeeps DEF TypeInv
    <2>2. drain'[p] = Idle /\ \A q \in Processes \ {p} : drain'[q] = drain[q]
        BY <1>t, <2>0 DEF TypeInv
    <2>3. PlacedAt(p)'
        BY <2>0, <2>2 DEF PlacedAt
    <2> QED
        BY <1>n, <2>0, <2>1, <2>2, <2>3, StepOf
<1>9. ASSUME NEW p \in Processes, Cut(p) PROVE Inv'
    <2>0. /\ drain' = [drain EXCEPT ![p] = Idle] /\ UNCHANGED <<log, cursor, memory>>
          /\ drain[p].at # "idle"
          /\ Idle \in [at : Places, next : Nat, last : Nat] /\ Idle.at = "idle"
          /\ \/ observation' = observation
             \/ /\ drain[p].at = "executing"
                /\ \E status \in {"queued", "uncertain"} :
                        observation' = [observation EXCEPT ![Event(p)] = status]
        BY <1>9 DEF Cut, Idle, Places
    <2>1. TypeInv'
        BY <1>e, <1>t, <2>0 DEF TypeInv, Statuses
    <2>2. drain'[p] = Idle /\ \A q \in Processes \ {p} : drain'[q] = drain[q]
        BY <1>t, <2>0 DEF TypeInv
    <2>3. PlacedAt(p)'
        BY <2>0, <2>2 DEF PlacedAt
    <2>4. drain[p].at = "executing" => observation[Event(p)] = "running"
        BY <1>e DEF Inv, Placed, PlacedAt
    <2>5. \A e \in 1 .. MaxEvents :
            \/ observation'[e] = observation[e]
            \/ /\ observation[e] # "succeeded"
               /\ \A q \in Processes \ {p} : drain[q].at = "executing" => drain[q].next # e
        BY ZenonT(60), <1>t, <1>e, <2>0, <2>4 DEF Inv, Alone, TypeInv
    <2> QED
        BY <2>0, <2>1, <2>2, <2>3, <2>5, StepOf
<1>10. ASSUME NEW e \in 1 .. MaxEvents, Reconcile(e) PROVE Inv'
    <2>1. TypeInv'
        BY <1>10, <1>t DEF Reconcile, TypeInv, Statuses
    <2>2. \A f \in 1 .. MaxEvents :
            observation'[f] = observation[f] \/ observation[f] \in {"failed", "uncertain"}
        BY <1>10, <1>t DEF Reconcile, TypeInv
    <2> QED
        BY <1>10, <2>1, <2>2, StepAside DEF Reconcile
<1>11. ASSUME NEW e \in 1 .. MaxEvents, Review(e) PROVE Inv'
    <2>0. PICK state \in {"accepted", "rejected"} :
            memory' = [memory EXCEPT ![e] = [state |-> state, version |-> memory[e].version + 1]]
        BY <1>11 DEF Review
    <2> DEFINE m == [state |-> state, version |-> memory[e].version + 1]
    <2>1. m \in [state : States, version : Nat] /\ m.state \notin {"none", "proposed"}
        BY <1>m DEF States
    <2>2. UNCHANGED <<cursor, drain, observation>> /\ Logged("own")
        BY <1>11 DEF Review
    <2> HIDE DEF m
    <2>3. /\ memory' \in [1 .. MaxEvents -> [state : States, version : Nat]]
          /\ \A f \in 1 .. MaxEvents : memory'[f] = IF f = e THEN m ELSE memory[f]
        BY <1>t, <2>0, <2>1 DEF TypeInv, m
    <2>4. TypeInv'
        BY <1>n, <1>t, <2>2, <2>3, LoggedKeeps DEF TypeInv
    <2>5. \A f \in 1 .. MaxEvents :
            \/ memory'[f] = memory[f]
            \/ memory'[f].state # "none" /\ (memory'[f].version > 1 => memory'[f].state # "proposed")
        BY <2>1, <2>3
    <2> QED
        BY <1>n, <2>2, <2>4, <2>5, StepAside
<1>12. CASE UNCHANGED vars
    BY <1>12 DEF vars, Inv, TypeInv, Placed, PlacedAt, Alone, Kept, Handled
<1> QED
    BY <1>1, <1>2, <1>3, <1>4, <1>5, <1>6, <1>7, <1>8, <1>9, <1>10, <1>11, <1>12 DEF Next

(* No final event of a run is passed over by its observer, whatever processes *)
(* drain, die or are repaired, and no review of a memory is undone.           *)
THEOREM ObserversCorrect == ASSUME MaxEvents \in Nat PROVE Spec => []NoEventSkipped
<1>1. Init => Inv
    BY DEF Init, Inv, TypeInv, Placed, PlacedAt, Alone, Kept, Handled, Idle, NoMemory,
           Places, Statuses, States
<1>2. Inv /\ [Next]_vars => Inv'
    BY InvStep
<1>3. Inv => NoEventSkipped
    BY DEF Inv, TypeInv, Kept, Handled, NoEventSkipped
<1> QED
    BY <1>1, <1>2, <1>3, PTL DEF Spec
(* No message is consumed that no model call has answered, for any number of  *)
(* messages, attempts and model calls.                                        *)

(* What ConsumedWasSeen rests on: an attempt that has been answered has been  *)
(* answered on everything in its conversation.                                *)
MailInv == /\ mail \in [Keys -> [state : {"none", "pending", "consumed", "expired"},
                                 payload : Payloads \cup {"none"}]]
           /\ agent = [at |-> agent.at, attempt |-> agent.attempt, calls |-> agent.calls]
           /\ inbox \subseteq Keys
           /\ agent.at = "answered" => read \subseteq seen
           /\ Mail!ConsumedWasSeen

LEMMA MailStep == MailInv /\ [Mail!Next]_Mail!vars => MailInv'
<1> SUFFICES ASSUME MailInv, [Mail!Next]_Mail!vars PROVE MailInv'
    OBVIOUS
<1> USE DEF MailInv, Mail!ConsumedWasSeen, Mail!Goes, Mail!Pending
<1>1. ASSUME NEW k \in Keys, NEW payload \in Payloads, Mail!Send(k, payload) PROVE MailInv'
    BY <1>1 DEF Mail!Send
<1>2. ASSUME NEW k \in Keys, Mail!Expires(k) PROVE MailInv'
    BY <1>2 DEF Mail!Expires
<1>3. ASSUME NEW k \in Keys, Mail!acknowledge(k) PROVE MailInv'
    BY <1>3 DEF Mail!acknowledge
<1>4. CASE Mail!abefore_model
    BY <1>4 DEF Mail!abefore_model
<1>5. CASE Mail!Answered
    BY <1>5 DEF Mail!Answered
<1>6. CASE Mail!aafter_model
    BY <1>6 DEF Mail!aafter_model
<1>7. CASE Mail!Resume
    BY <1>7 DEF Mail!Resume
<1>8. CASE Mail!NewAttempt
    BY <1>8 DEF Mail!NewAttempt
<1>9. CASE UNCHANGED Mail!vars
    BY <1>9 DEF Mail!vars
<1> QED
    BY <1>1, <1>2, <1>3, <1>4, <1>5, <1>6, <1>7, <1>8, <1>9 DEF Mail!Next

(* A consumed message was seen by a model call, and the inbox of a checkpoint *)
(* is part of its conversation, whatever expires, fails or starts anew.       *)
THEOREM MailboxCorrect == Mail!Spec => []Mail!ConsumedWasSeen
<1>1. Mail!Init => MailInv
    BY DEF Mail!Init, MailInv, Mail!NoMessage, Mail!ConsumedWasSeen
<1>2. MailInv => Mail!ConsumedWasSeen
    BY DEF MailInv
<1> QED
    BY <1>1, <1>2, MailStep, PTL DEF Mail!Spec
=============================================================================
