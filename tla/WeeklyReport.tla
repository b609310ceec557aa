--------------------------- MODULE WeeklyReport ---------------------------
(* The orchestration of a weekly report (CPS), of one report type: the        *)
(* scheduled task and the processes it may run in twice, the row per window,  *)
(* the upload of the archive and the push.  Every step of run_once is a       *)
(* transaction of its own, and a process may die or a step raise between any  *)
(* two of them.                                                               *)
EXTENDS Integers, Sequences, FiniteSets, SequencesExt

CONSTANTS Callers,  \* executions of run_once
          Hours,    \* when it is started: hours since a Monday 00:00 UTC
          Results   \* what a pusher may report

VARIABLES dialect,  \* "postgresql" has the advisory lock, "sqlite" has not
          rows,     \* per window its rows, by run_no
          call,     \* what each execution is at, and what it knows
          archive,  \* the objects in the archive, by window and run_no
          pushes    \* the pushes sent: of which row, when, and what came of them

vars == <<dialect, rows, call, archive, pushes>>

Week == 168
Shanghai == 8  \* hours ahead of UTC

(* The week before this one, by the calendar of Shanghai, in hours of UTC.    *)
compute_window(now) ==
  LET monday == now + Shanghai - ((now + Shanghai) % Week)
  IN [start |-> monday - Week - Shanghai, end |-> monday - Shanghai]
Windows == {compute_window(now) : now \in Hours}

(* The ISO week of the start of the window, in UTC; and back.                 *)
period_iso(window) == window.start \div Week
period_to_window(period) == [start |-> period * Week, end |-> (period * Week) + Week]

NewRow == [status |-> "PENDING", push |-> "PENDING"]
Idle == [at |-> "idle", now |-> 0, window |-> "none", runNo |-> 0, result |-> "none"]
Row(c) == rows[call[c].window][call[c].runNo]
RunNos(window) == DOMAIN rows[window]
Latest(window) == Len(rows[window])

Init == /\ dialect \in {"postgresql", "sqlite"}
        /\ rows = [w \in Windows |-> <<>>]
        /\ call = [c \in Callers |-> Idle]
        /\ archive = {}
        /\ pushes = {}

Goes(c, at) == call' = [call EXCEPT ![c].at = at]

(* pg_try_advisory_xact_lock: held until the transaction of the insert ends.  *)
Locked == dialect = "postgresql" /\ \E c \in Callers : call[c].at = "inserting"

(* The first transaction reads: another holds the lock or the latest run of   *)
(* the window is COMPLETED, and the call is skipped, or the next number is    *)
(* taken.                                                                     *)
Look(c, now) ==
  LET window == compute_window(now) IN
  /\ call[c].at = "idle"
  /\ ~Locked
  /\ \A n \in RunNos(window) : n = Latest(window) => rows[window][n].status # "COMPLETED"
  /\ call' = [call EXCEPT ![c] = [Idle EXCEPT !.at = "inserting", !.now = now, !.window = window,
                                              !.runNo = Latest(window) + 1]]
  /\ UNCHANGED <<dialect, rows, archive, pushes>>

(* Mutant: the constraint has run_no among its columns.                       *)
Taken_by_number(window, runNo) == runNo \in RunNos(window)

(* uq_weekly_report_run_type_window: report type and window, no run_no.       *)
Taken(window, runNo) == RunNos(window) # {}

(* It inserts the row and commits; the constraint turns it away (IntegrityError) *)
Insert(c) ==
  /\ call[c].at = "inserting"
  /\ ~Taken(call[c].window, call[c].runNo)
  /\ rows' = [rows EXCEPT ![call[c].window] = Append(@, NewRow)]
  /\ Goes(c, "pending")
  /\ UNCHANGED <<dialect, archive, pushes>>

TurnedAway(c) ==
  /\ call[c].at = "inserting"
  /\ Taken(call[c].window, call[c].runNo)
  /\ call' = [call EXCEPT ![c] = Idle]
  /\ UNCHANGED <<dialect, rows, archive, pushes>>

(* The conditional updates of the repository: one that finds another status   *)
(* changes nothing, and run_once does not look at their result.               *)
Mark(c, from, to) ==
  rows' = IF Row(c).status \in from
          THEN [rows EXCEPT ![call[c].window][call[c].runNo].status = to] ELSE rows

mark_running(c) ==
  /\ call[c].at = "pending"
  /\ Mark(c, {"PENDING"}, "RUNNING")
  /\ Goes(c, "rendering")
  /\ UNCHANGED <<dialect, archive, pushes>>

(* fetch and render succeed; if they raise, run_once ends and the row stays.  *)
mark_archiving(c) ==
  /\ call[c].at = "rendering"
  /\ Mark(c, {"RUNNING"}, "ARCHIVING")
  /\ Goes(c, "uploading")
  /\ UNCHANGED <<dialect, archive, pushes>>

put_bytes(c) ==
  /\ call[c].at = "uploading"
  /\ archive' = archive \cup {<<call[c].window, call[c].runNo>>}
  /\ Goes(c, "uploaded")
  /\ UNCHANGED <<dialect, rows, pushes>>

(* No archive is configured, or the PUT fails: possibly after it stored.      *)
mark_failed(c) ==
  /\ call[c].at = "uploading"
  /\ Mark(c, {"PENDING", "RUNNING", "ARCHIVING"}, "FAILED")
  /\ \/ UNCHANGED archive
     \/ archive' = archive \cup {<<call[c].window, call[c].runNo>>}
  /\ call' = [call EXCEPT ![c] = Idle]
  /\ UNCHANGED <<dialect, pushes>>

mark_completed(c) ==
  /\ call[c].at = "uploaded"
  /\ Mark(c, {"ARCHIVING"}, "COMPLETED")
  /\ Goes(c, "pushing")
  /\ UNCHANGED <<dialect, archive, pushes>>

(* What the pusher reports; one that raises has reported FAILED.              *)
send(c) ==
  /\ call[c].at = "pushing"
  /\ \E result \in Results :
       /\ pushes' = pushes \cup {[window |-> call[c].window, runNo |-> call[c].runNo, by |-> c,
                                 now |-> call[c].now, result |-> result]}
       /\ call' = [call EXCEPT ![c].at = "recording", ![c].result = result]
  /\ UNCHANGED <<dialect, rows, archive>>

(* In columns of its own, whatever the status of the row.                     *)
record_push(c) ==
  /\ call[c].at = "recording"
  /\ rows' = [rows EXCEPT ![call[c].window][call[c].runNo].push = call[c].result]
  /\ call' = [call EXCEPT ![c] = Idle]
  /\ UNCHANGED <<dialect, archive, pushes>>

(* The process dies, or fetch or render raise, or the PUT raises what the     *)
(* handler cannot record: what is committed stays as it is.                   *)
Abandon(c) ==
  /\ call[c].at # "idle"
  /\ call' = [call EXCEPT ![c] = Idle]
  /\ UNCHANGED <<dialect, rows, archive, pushes>>

Next == \E c \in Callers :
  \/ \E now \in Hours : Look(c, now)
  \/ Insert(c) \/ TurnedAway(c) \/ mark_running(c) \/ mark_archiving(c)
  \/ put_bytes(c) \/ mark_failed(c) \/ mark_completed(c) \/ send(c) \/ record_push(c)
  \/ Abandon(c)

Spec == Init /\ [][Next]_vars

-----------------------------------------------------------------------------
(* What the endpoints give: the rows of the list, of a period if one is       *)
(* asked for, and the archive of a row that is COMPLETED.                     *)
AllRows == UNION {{[window |-> w, runNo |-> n] : n \in RunNos(w)} : w \in Windows}

list_paginated(periods, limit, offset) ==
  LET found == {x \in AllRows : \A p \in periods : x.window.start = period_to_window(p).start}
      ordered == SetToSortSeq(found, LAMBDA x, y : x.window.end > y.window.end)
  IN SubSeq(ordered, offset + 1, IF offset + limit < Len(ordered) THEN offset + limit ELSE Len(ordered))

stream_get(window, runNo) == IF <<window, runNo>> \in archive THEN "bytes" ELSE "error"
get_run_for_download(window, runNo) ==
  IF rows[window][runNo].status = "COMPLETED" THEN stream_get(window, runNo) ELSE "404"

(* However often run_once is started, side by side and after failures and     *)
(* deaths, a window is pushed at most once, after it has ended, and only when *)
(* its report can be downloaded; a push that succeeded is what a row says     *)
(* succeeded; and a download never fails for a missing archive.               *)
OnePush ==
  /\ \A w \in Windows : Cardinality({p \in pushes : p.window = w}) <= 1
  /\ \A p \in pushes : p.window.end <= p.now /\ get_run_for_download(p.window, p.runNo) = "bytes"
  /\ \A x \in AllRows : LET push == rows[x.window][x.runNo].push IN
       /\ push # "PENDING" => \E p \in pushes : p.window = x.window /\ p.result = push
       /\ get_run_for_download(x.window, x.runNo) # "error"

(* Going through the list one page after the other shows every report once.   *)
PagesShowOnce ==
  \A x \in AllRows :
    Cardinality({n \in 1 .. Cardinality(AllRows) : x \in ToSet(list_paginated({}, 1, n - 1))}) = 1

(* Both: the pushes of the report, and what the list and the download show.   *)
PushedOnce == OnePush /\ PagesShowOnce

(* The list endpoint: asked for the period a report bears, it shows it.  (A   *)
(* window starts on a Monday in Shanghai and so on a Sunday in UTC, and the   *)
(* list looks for one that starts on the Monday of UTC.)                      *)
FoundByPeriod ==
  \A x \in AllRows : x \in ToSet(list_paginated({period_iso(x.window)}, Cardinality(AllRows), 0))

(* The docstring of WeeklyReportRun: a window run again gets a new run_no.    *)
(* So a call is turned away only by a row inserted since it looked.           *)
RerunGetsRow ==
  [][\A c \in Callers : TurnedAway(c) => call[c].runNo \in RunNos(call[c].window)]_vars
=============================================================================
