--------------------------- MODULE InitialReview ---------------------------
(* The task of one initial review (CPS): requests that create or replay the  *)
(* row, executions that race for its end, the lazy sweep of expired rows, and *)
(* the callbacks that tell the Java side, each sent by a task that dies with  *)
(* the process.  One row is one task_id; Callers are the HTTP requests of a   *)
(* run, each with the background delivery it starts.                          *)
EXTENDS Integers, FiniteSets

CONSTANTS Callers,      \* HTTP requests: C-01 submissions and manual re-pushes
          Requests,     \* request bodies: the texts, and the issue_snapshot with them
          Overalls,     \* what a completed check may conclude
          MaxAttempts,  \* 1 + callback_max_retries
          PushLimit,    \* callback_manual_push_max_total_attempts
          MaxCrashes    \* bound: process deaths

VARIABLES row,          \* the row of agent_initial_review_exec
          call,         \* what each caller is at
          heard,        \* the posts that reached the Java side
          answered,     \* the answers to submissions and to status queries
          late,         \* deadline_at has passed
          crashes

vars == <<row, call, heard, answered, late, crashes>>

(* The fingerprint leaves the issue_snapshot out; what is stored has it.      *)
fingerprint(request) == request.texts
snapshot(request) == request

NoRow == [status |-> "ABSENT", outcome |-> "none", snapshot |-> "none", attempts |-> 0]
NoBody == [of |-> "none", outcome |-> "none"]
Idle == [at |-> "idle", created |-> FALSE, why |-> "none", body |-> NoBody, base |-> 0,
         tries |-> 0, ok |-> FALSE]
Terminal == row.status \in {"COMPLETED", "FAILED"}

Init == /\ row = NoRow
        /\ call = [c \in Callers |-> Idle]
        /\ heard = {}
        /\ answered = {}
        /\ late = FALSE
        /\ crashes = 0

Goes(c, at) == call' = [call EXCEPT ![c].at = at]

submit_response(c) == [first |-> IF call[c].created THEN c ELSE "none", outcome |-> row'.outcome]
status_response == [first |-> "none", outcome |-> row.outcome]
build_callback_payload == [of |-> row.snapshot, outcome |-> row.outcome]

(* The coroutine of _deliver_callback starts: it will reload the row itself.  *)
Dispatched(c, why) == call' = [call EXCEPT ![c].at = "delivering", ![c].why = why]

(* submit, its transaction: the row is created, or read.  The loser of two    *)
(* inserts reads the row of the winner.  A different body is a ReplayConflict *)
(* and changes nothing, so only the others are steps.                         *)
Submit(c, request) ==
  LET same == row.status # "ABSENT" /\ fingerprint(row.snapshot) = fingerprint(request) IN
  /\ call[c].at = "idle"
  /\ \/ /\ row.status = "ABSENT"
        /\ row' = [NoRow EXCEPT !.status = "RUNNING", !.snapshot = snapshot(request)]
        /\ call' = [call EXCEPT ![c].at = "loading", ![c].created = TRUE]
        /\ UNCHANGED answered
     \/ /\ row.status = "RUNNING" /\ same
        /\ Goes(c, "loading")
        /\ UNCHANGED <<row, answered>>
     \/ /\ Terminal /\ same
        /\ Dispatched(c, "replay")
        /\ UNCHANGED row
        /\ answered' = answered \cup {submit_response(c)}
  /\ UNCHANGED <<heard, late, crashes>>

(* _execute reads the row again before it runs the checks.                    *)
Load(c) ==
  /\ call[c].at = "loading"
  /\ UNCHANGED <<row, heard, late, crashes>>
  /\ \/ /\ row.status = "RUNNING"
        /\ Goes(c, "checking")
        /\ UNCHANGED answered
     \/ /\ Terminal
        /\ Goes(c, "done")
        /\ answered' = answered \cup {submit_response(c)}

(* Mutant: the update names no status.                                        *)
mark_terminal_unguarded(status, outcome) ==
  row' = [row EXCEPT !.status = status, !.outcome = outcome]

(* The conditional update: it changes a running row and no other.             *)
mark_terminal(status, outcome) ==
  /\ row.status = "RUNNING"
  /\ row' = [row EXCEPT !.status = status, !.outcome = outcome]

(* The checks end: with a verdict, with an error, or cut off at the deadline  *)
(* (a check that ended before it may be recorded after it).  Only the         *)
(* execution whose update counted tells the Java side; the row is read once   *)
(* more for the answer, and it is terminal, whoever has ended it.             *)
Execute(c) ==
  /\ call[c].at = "checking"
  /\ \/ /\ \/ \E v \in Overalls : mark_terminal("COMPLETED", v)
           \/ mark_terminal("FAILED", "CHECK_ERROR")
           \/ late /\ mark_terminal("FAILED", "TIMEOUT")
        /\ Dispatched(c, "natural")
     \/ /\ Terminal
        /\ Goes(c, "done")
        /\ UNCHANGED row
  /\ answered' = answered \cup {submit_response(c)}
  /\ UNCHANGED <<heard, late, crashes>>

(* A status query first ends what has run past its deadline; it tells nobody. *)
sweep_expired ==
  /\ late
  /\ mark_terminal("FAILED", "TIMEOUT")
  /\ UNCHANGED <<call, heard, answered, late, crashes>>

(* Then it reads the row: one that passed its deadline since is still RUNNING.*)
status ==
  /\ row.status # "ABSENT"
  /\ answered' = answered \cup {status_response}
  /\ UNCHANGED <<row, call, heard, late, crashes>>

(* _deliver_callback reloads the row and builds the body from it.             *)
ReadBody(c) ==
  /\ call[c].at = "delivering"
  /\ Terminal
  /\ call' = [call EXCEPT ![c].at = "posting", ![c].body = build_callback_payload]
  /\ UNCHANGED <<row, heard, answered, late, crashes>>

(* repush_callback: refused while the row runs or once the budget is used.    *)
Repush(c) ==
  /\ call[c].at = "idle"
  /\ Terminal
  /\ row.attempts < PushLimit
  /\ call' = [call EXCEPT ![c] = [Idle EXCEPT !.at = "posting", !.why = "manual",
                                              !.body = build_callback_payload,
                                              !.base = row.attempts]]
  /\ UNCHANGED <<row, heard, answered, late, crashes>>

(* One POST of send: it may arrive, and its answer may still be lost.         *)
Post(c) ==
  /\ call[c].at = "posting"
  /\ \E arrives, ok \in BOOLEAN :
       /\ ok => arrives
       /\ heard' = IF arrives
                   THEN heard \cup {[by |-> c, why |-> call[c].why, body |-> call[c].body]}
                   ELSE heard
       /\ call' = [call EXCEPT ![c].tries = @ + 1, ![c].ok = ok,
                     ![c].at = IF ok \/ call[c].tries + 1 = MaxAttempts
                               THEN "recording" ELSE "posting"]
  /\ UNCHANGED <<row, answered, late, crashes>>

(* record_callback overwrites: attempts is what this send made, on top of     *)
(* what a re-push had read before it.                                         *)
Record(c) ==
  /\ call[c].at = "recording"
  /\ row' = [row EXCEPT !.attempts = call[c].base + call[c].tries]
  /\ Goes(c, "done")
  /\ UNCHANGED <<heard, answered, late, crashes>>

DeadlinePasses ==
  /\ ~late /\ row.status = "RUNNING"
  /\ late' = TRUE
  /\ UNCHANGED <<row, call, heard, answered, crashes>>

(* The process dies: executions and deliveries are gone, the row stays.       *)
Crash ==
  /\ crashes < MaxCrashes
  /\ crashes' = crashes + 1
  /\ call' = [c \in Callers |-> IF call[c].at = "done" THEN call[c] ELSE Idle]
  /\ UNCHANGED <<row, heard, answered, late>>

Next ==
  \/ \E c \in Callers : \/ \E r \in Requests : Submit(c, r)
                        \/ Load(c) \/ Execute(c) \/ ReadBody(c)
                        \/ Repush(c) \/ Post(c) \/ Record(c)
  \/ sweep_expired \/ status
  \/ DeadlinePasses
  \/ Crash

Spec == Init /\ [][Next]_vars

-----------------------------------------------------------------------------
(* Whatever executions raced, died or ran past the deadline, everything the   *)
(* Java side ever hears of a task, by a callback, as the answer to a          *)
(* submission or to a query, is the one outcome its row ends with, for the    *)
(* texts first submitted; it hears the spontaneous callback from one          *)
(* execution only, and one submission at most is told that it was the first.  *)
OneOutcomeTold ==
  /\ \A h \in heard : Terminal /\ h.body = build_callback_payload
  /\ \A a \in answered : a.outcome = row.outcome \/ a = [first |-> "none", outcome |-> "none"]
  /\ Cardinality({h \in heard : h.why = "natural"}) <= 1
  /\ Cardinality({a \in answered : a.first # "none"}) <= 1
=============================================================================
