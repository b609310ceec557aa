--------------------------- MODULE Capacity ---------------------------
(* The capacity of a deployment of the kernel: an invocation executes with a  *)
(* permit of its run, its tenant and its process, and with a slot in the      *)
(* store.  A handler that asks other agents gives its own back while it has   *)
(* requests in flight; its requests may overlap, and each is a task of its    *)
(* own, so what one takes again another may give back.                        *)
EXTENDS Integers, Sequences, FiniteSets, SequencesExt

CONSTANTS Callers,   \* invocations started by the walk
          Requests,  \* requests of their handlers, each with the invocation it starts
          Parent,    \* the caller whose handler makes a request
          RunOf,     \* the run of an invocation, a string
          Awaited,   \* handlers wait for every request they made
          Limit      \* permits and slots of each run, of "tenant" and of "global"

VARIABLES free,   \* permits left in each semaphore of this process
          slots,  \* permits each context has appended to its list, per semaphore
          phase,  \* each invocation or request
          want,   \* what its acquire() waits for: 1..3 a semaphore, 4 the store, 0 nothing
          slot,   \* the capacity rows: "none", "live", or "lapsed" by expiry
          turn,   \* the task in the middle of acquire(), "none" at the event loop
          line    \* the tasks that wait for a semaphore, in the order they came

vars == <<free, slots, phase, want, slot, turn, line>>

Contexts == Callers \cup Requests
Path(c) == <<RunOf[c], "tenant", "global">>
Semaphores == DOMAIN Limit
Nothing == [s \in Semaphores |-> 0]
Pending(p) == {r \in Requests : Parent[r] = p /\ phase[r] \in {"starting", "executing"}}

Init == /\ free = Limit
        /\ slots = [c \in Contexts |-> Nothing]
        /\ phase = [c \in Contexts |-> "idle"]
        /\ want = [c \in Contexts |-> 0]
        /\ slot = [c \in Contexts |-> "none"]
        /\ turn = "none"
        /\ line = <<>>

(* The context an acquire() fills: a request takes back its caller's.         *)
For(x) == IF phase[x] = "reacquiring" THEN Parent[x] ELSE x

(* Mutant: the list is not cleared, the next release gives back again.        *)
Release_again(C) ==
  /\ free' = [s \in Semaphores |-> free[s] + MapThenSumSet(LAMBDA c : slots[c][s], C)]
  /\ UNCHANGED slots
  /\ slot' = [c \in Contexts |-> IF c \in C THEN "none" ELSE slot[c]]

(* release() of several contexts: what their lists hold goes back, and their  *)
(* rows expire.                                                               *)
Release(C) ==
  /\ free' = [s \in Semaphores |-> free[s] + MapThenSumSet(LAMBDA c : slots[c][s], C)]
  /\ slots' = [c \in Contexts |-> IF c \in C THEN Nothing ELSE slots[c]]
  /\ slot' = [c \in Contexts |-> IF c \in C THEN "none" ELSE slot[c]]

Keeps == UNCHANGED <<free, slots, slot>>
Idling == turn = "none"

(* A walk starts an invocation; its context has to acquire.                   *)
Start(c) ==
  /\ Idling
  /\ phase[c] = "idle"
  /\ phase' = [phase EXCEPT ![c] = "starting"]
  /\ want' = [want EXCEPT ![c] = 1]
  /\ turn' = c
  /\ UNCHANGED line
  /\ Keeps

(* acquire() takes the semaphores in order and notes each in the list.  It    *)
(* goes on to the next without giving way; one that is taken, or that others  *)
(* came before it to wait for, suspends it (Yield) until its turn in the line. *)
Before(x) == IF Contains(line, x) THEN SubSeq(line, 1, SelectInSeq(line, LAMBDA y : y = x) - 1) ELSE line
Awaits(x) == Path(x)[want[x]]
Obtainable(x) ==
  /\ free[Awaits(x)] > 0
  /\ \A y \in ToSet(Before(x)) : Awaits(y) # Awaits(x)

TakePermit(x) ==
  /\ turn \in {"none", x}
  /\ want[x] \in 1 .. 3
  /\ Obtainable(x)
  /\ LET s == Awaits(x)
     IN /\ free' = [free EXCEPT ![s] = @ - 1]
        /\ slots' = [slots EXCEPT ![For(x)][s] = @ + 1]
  /\ want' = [want EXCEPT ![x] = @ + 1]
  /\ turn' = x
  /\ line' = Remove(line, x)
  /\ UNCHANGED <<phase, slot>>

Live(C) == Cardinality({c \in C : slot[c] = "live"})
SameRun(x) == {c \in Contexts : RunOf[c] = RunOf[x]}

(* reserve_slot, polled: a row of its own that is still live counts too.      *)
Room(x) == /\ Live(Contexts) < Limit["global"]
           /\ Live(Contexts) < Limit["tenant"]
           /\ Live(SameRun(x)) < Limit[RunOf[x]]

Reserve(x) ==
  /\ turn \in {"none", x}
  /\ want[x] = 4
  /\ Room(x)
  /\ slot' = [slot EXCEPT ![For(x)] = "live"]
  /\ want' = [want EXCEPT ![x] = 0]
  /\ phase' = [phase EXCEPT ![x] = IF @ = "starting" THEN "executing" ELSE "done"]
  /\ turn' = "none"
  /\ UNCHANGED <<free, slots, line>>

Yield(x) ==
  /\ turn = x
  /\ \/ want[x] = 4 /\ ~Room(x) /\ UNCHANGED line
     \/ want[x] < 4 /\ ~Obtainable(x) /\ line' = Append(line, x)
  /\ turn' = "none"
  /\ UNCHANGED <<free, slots, phase, want, slot>>

(* The handler requests another agent: the first request in flight gives the  *)
(* caller's permits back, whoever of its tasks has taken them.                *)
Request(r) ==
  /\ Idling
  /\ phase[r] = "idle"
  /\ phase[Parent[r]] = "executing"
  /\ IF Pending(Parent[r]) = {} THEN Release({Parent[r]}) ELSE Keeps
  /\ phase' = [phase EXCEPT ![r] = "starting"]
  /\ want' = [want EXCEPT ![r] = 1]
  /\ turn' = r
  /\ UNCHANGED line

(* The requested invocation ends, or its timeout cuts acquire() off: its      *)
(* context is released, and the last request in flight starts to take the     *)
(* caller's permits again, without looking whether the caller still runs.     *)
Answer(r) ==
  /\ Idling
  /\ phase[r] \in {"starting", "executing"}
  /\ Release({r})
  /\ LET last == Pending(Parent[r]) = {r}
     IN /\ phase' = [phase EXCEPT ![r] = IF last THEN "reacquiring" ELSE "done"]
        /\ want' = [want EXCEPT ![r] = IF last THEN 1 ELSE 0]
        /\ turn' = IF last THEN r ELSE "none"
  /\ line' = Remove(line, r)

(* The handler of a caller returns or raises.  Unless handlers await all, it  *)
(* may have requests in flight that it started (one of a gather() failed).    *)
End(c) ==
  /\ Idling
  /\ phase[c] = "executing"
  /\ Awaited => \A r \in Requests : Parent[r] = c => phase[r] \in {"idle", "done"}
  /\ Release({c})
  /\ phase' = [phase EXCEPT ![c] = "done"]
  /\ UNCHANGED <<want, turn, line>>

(* The caller is cancelled or timed out: what it awaits is cancelled with it, *)
(* and a cancelled request takes nothing again.                               *)
Cancel(c) ==
  LET awaited == {r \in Requests : Parent[r] = c /\ phase[r] \in {"starting", "executing", "reacquiring"}}
      stopped == {c} \cup awaited
  IN /\ Idling
     /\ phase[c] \in {"starting", "executing"}
     /\ Release(stopped)
     /\ phase' = [x \in Contexts |-> IF x \in stopped THEN "done" ELSE phase[x]]
     /\ want' = [x \in Contexts |-> IF x \in stopped THEN 0 ELSE want[x]]
     /\ line' = SelectSeq(line, LAMBDA x : x \notin stopped)
     /\ UNCHANGED turn

(* The lease of a run passes without a heartbeat, and its rows with it; the   *)
(* next heartbeat extends every row of the run that was not released.         *)
Becomes(run, old, new) ==
  /\ Idling
  /\ \E c \in Contexts : RunOf[c] = run /\ slot[c] = old
  /\ slot' = [c \in Contexts |-> IF RunOf[c] = run /\ slot[c] = old THEN new ELSE slot[c]]
  /\ UNCHANGED <<free, slots, phase, want, turn, line>>

LeasePasses(run) == Becomes(run, "live", "lapsed")
Heartbeat(run) == Becomes(run, "lapsed", "live")

Next == \/ \E c \in Callers : Start(c) \/ End(c) \/ Cancel(c)
        \/ \E x \in Contexts : TakePermit(x) \/ Reserve(x) \/ Yield(x)
        \/ \E r \in Requests : Request(r) \/ Answer(r)
        \/ \E c \in Contexts : LeasePasses(RunOf[c]) \/ Heartbeat(RunOf[c])

Spec == Init /\ [][Next]_vars

(* Semaphores serve their waiters in turn, polling goes on, an invocation     *)
(* that executes and awaits nothing ends, and leases are kept: no time limit  *)
(* and no cancellation has to come to the rescue.                             *)
Fairness ==
  /\ \A x \in Contexts : SF_vars(TakePermit(x)) /\ SF_vars(Reserve(x)) /\ WF_vars(Yield(x))
  /\ \A r \in Requests : WF_vars(phase[r] = "executing" /\ Answer(r))
  /\ \A c \in Callers : WF_vars(End(c))
  /\ \A c \in Contexts : SF_vars(Heartbeat(RunOf[c]))

FairSpec == Spec /\ Fairness

-----------------------------------------------------------------------------

(* No permit is lost and none is given back twice, whatever overlaps: what a  *)
(* semaphore has left and what the lists of all contexts hold is its limit.   *)
PermitsConserved ==
  \A s \in Semaphores :
    free[s] + MapThenSumSet(LAMBDA c : slots[c][s], Contexts) = Limit[s]

(* An invocation that is requested gets to execute, one slot or many: the     *)
(* caller that waits for it holds none ("等待子调用时释放父执行槽，避免单槽死锁").          *)
RequestedStarts ==
  \A r \in Requests : phase[r] = "starting" ~> phase[r] # "starting"
=============================================================================
