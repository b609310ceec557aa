--------------------------- MODULE RoomCallbacks ---------------------------
(* The callbacks that tell the Java side the B6 verdicts of one photo, each   *)
(* sent by a task nobody waits for: attempts that are lost, answered late or  *)
(* processed after the sender has given up, several tasks side by side, and   *)
(* the death of the process.                                                  *)
EXTENDS Integers

CONSTANTS MaxVerdicts,  \* bound: judgments of the photo
          MaxAttempts   \* 1 + max_retries

VARIABLES deliverable,  \* the fingerprint has no slash and no brace
          judged,       \* how many verdicts there have been
          task,         \* per verdict what its task is at
          transit,      \* verdicts whose post was given up and may still arrive
          java,         \* the verdict the Java side keeps: the last to arrive
          overlapped    \* history: n had not ended when m was dispatched

vars == <<deliverable, judged, task, transit, java, overlapped>>

Verdicts == 1 .. MaxVerdicts
Absent == [at |-> "absent", tries |-> 0]
Open(n) == task[n].at = "posting" \/ n \in transit

Init == /\ deliverable \in BOOLEAN
        /\ judged = 0
        /\ task = [n \in Verdicts |-> Absent]
        /\ transit = {}
        /\ java = 0
        /\ overlapped = {}

(* _dispatch_callback_async: the task is started and judge returns; one whose *)
(* URL cannot be built raises, is logged and never posts.                     *)
Dispatch ==
  LET m == judged + 1 IN
  /\ judged < MaxVerdicts
  /\ judged' = m
  /\ task' = [task EXCEPT ![m].at = IF deliverable THEN "posting" ELSE "failed"]
  /\ overlapped' = overlapped \cup {<<n, m>> : n \in {x \in 1 .. judged : Open(x)}}
  /\ UNCHANGED <<deliverable, transit, java>>

(* One attempt: answered with success; arrived, but answered with an error or *)
(* not in time; lost; or given up while it is still under way.                *)
Post(n) ==
  /\ task[n].at = "posting"
  /\ \E ok, arrives, lingers \in BOOLEAN :
       /\ ok => arrives
       /\ ~(arrives /\ lingers)
       /\ java' = IF arrives THEN n ELSE java
       /\ transit' = IF lingers THEN transit \cup {n} ELSE transit
       /\ task' = [task EXCEPT ![n].tries = @ + 1,
                     ![n].at = CASE ok -> "ok"
                                 [] ~ok /\ task[n].tries + 1 < MaxAttempts -> "posting"
                                 [] OTHER -> "failed"]
  /\ UNCHANGED <<deliverable, judged, overlapped>>

Arrive(n) ==
  /\ n \in transit
  /\ java' = n
  /\ transit' = transit \ {n}
  /\ UNCHANGED <<deliverable, judged, task, overlapped>>

(* The process dies: what its tasks had not sent is never sent.               *)
Crash ==
  /\ \E n \in Verdicts : task[n].at = "posting"
  /\ task' = [n \in Verdicts |-> IF task[n].at = "posting" THEN [task[n] EXCEPT !.at = "failed"]
                                 ELSE task[n]]
  /\ UNCHANGED <<deliverable, judged, transit, java, overlapped>>

Next == Dispatch \/ Crash \/ \E n \in Verdicts : Post(n) \/ Arrive(n)

Spec == Init /\ [][Next]_vars

-----------------------------------------------------------------------------
(* The Java side keeps an earlier verdict than one it has acknowledged only   *)
(* where the earlier one's callback had not ended when the later one's was    *)
(* started: nothing else orders them, and nothing repairs it.  And what a     *)
(* task reports as delivered has arrived.                                     *)
OlderOnlyIfOverlapped ==
  /\ \A m \in Verdicts : task[m].at = "ok" /\ java < m => <<java, m>> \in overlapped
  /\ \A m \in Verdicts : task[m].at = "ok" => java # 0
=============================================================================
