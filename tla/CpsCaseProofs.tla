--------------------------- MODULE CpsCaseProofs ---------------------------
(***************************************************************************)
(* What the inspection keeps true of a case, for any conclusions, findings *)
(* and required outputs, any number of jobs, uploads, processes, crashes   *)
(* and disturbances of the runs, and any length of history.                *)
(*                                                                         *)
(* RecordsHold is the invariant the others build on: the records are typed *)
(* and every job has the kernel run that stands to it (TypeInv, RunInv).   *)
(* The lemmas of "The steps as the invariants see them" then say once what *)
(* a step does to the case and its jobs, and each of TallyInv, ActiveInv,  *)
(* UploadInv, ReviewInv, Consistent and VouchInv is one pass over them.    *)
(***************************************************************************)
EXTENDS CpsCase, SequenceTheorems, TLAPS

-----------------------------------------------------------------------------
(* The inductive invariants                                                *)

Inspection ==
    [status : Closed \cup {"collecting", "active", "needs_input",
                           "needs_human"},
     active : Nat, ev : Nat, before : BOOLEAN, after : SUBSET (Issues \X Nat),
     conf : [Keys -> Confirmation], archived : Nat, plan : Nat,
     tasks : SUBSET Nat, rounds : Nat, stamps : Nat]

RunRecords == Kernel!RunRecord \cup {NoRun, Spent}

Uploads == [kind : {"none", "before", "after", "context"},
            issue : Issues \cup {NoValue}, stamp : Nat, fresh : BOOLEAN]

(* What a conclusion holds was found.                                      *)
ConclusionsHold(c) ==
    \A k \in Keys : c.conf[k].stamp > 0 => c.conf[k].value \in Findings

(* The records have their types, and every job has its run and its tally.  *)
Filed(c, queue, started, tally) ==
    /\ c \in Inspection /\ ConclusionsHold(c)
    /\ c.active \in {NoJob} \cup DOMAIN queue
    /\ queue \in Seq(Job)
    /\ started \in Seq(RunRecords) /\ Len(started) = Len(queue)
    /\ tally \in Seq(Nat) /\ Len(tally) = Len(queue)

(* A process that is at work is at work on a job.                          *)
TypeInv ==
    /\ Filed(case, jobs, runs, projected)
    /\ mem \in [Procs -> Memory]
    /\ \A p \in Procs : mem[p].at # "idle" => mem[p].job \in JobIds
    /\ upload \in Uploads
    /\ upload.kind = "after" => upload.issue \in Issues

(* A job's outcome is tallied when the job is applied.                     *)
TallyInv ==
    \A j \in JobIds : projected[j] = IF jobs[j].applied THEN 1 ELSE 0

(* A closed case waits for no job, and the job a case waits for serves it. *)
ActiveInv ==
    /\ case.status \in Closed => case.active = NoJob
    /\ case.active # NoJob => jobs[case.active].agent # "observation"
    /\ ActiveJobIsCurrent

(* A fresh upload is filed under what it was begun for.                    *)
UploadInv ==
    upload.fresh /\ upload.kind = "after" =>
        /\ upload.issue \in KnownIssues(case)
        /\ upload.stamp = case.conf["issues"].stamp

(* A review that modifies or retries names a specialist ...                *)
NamesSpecialist(review) ==
    review.action \in {"modify", "retry"} => review.selected # "none"

(* ... and a review can be carried out on the case.                        *)
Possible(c, review) ==
    /\ review.selected # "none" => CanDispatch(c, review.selected)
    /\ review.selected = "none" /\ review.action = "approve"
           /\ review.original.act = "finish" => CanFinish(c)

ReviewInv ==
    /\ \A j \in JobIds : NamesSpecialist(jobs[j].review)
    /\ case.active # NoJob =>
           \/ jobs[case.active].review = NoReview
           \/ Possible(case, jobs[case.active].review)

-----------------------------------------------------------------------------
(* Sequences of records                                                    *)

LEMMA Appended ==
    ASSUME NEW S, NEW s \in Seq(S), NEW e \in S
    PROVE  /\ Append(s, e) \in Seq(S)
           /\ Len(Append(s, e)) = Len(s) + 1
           /\ DOMAIN Append(s, e) = DOMAIN s \cup {Len(s) + 1}
           /\ Len(s) + 1 \in Nat \ {0} /\ Len(s) + 1 \notin DOMAIN s
           /\ Append(s, e)[Len(s) + 1] = e
           /\ \A i \in DOMAIN s : Append(s, e)[i] = s[i]
<1>1. Append(s, e) \in Seq(S) /\ Len(Append(s, e)) = Len(s) + 1
  BY AppendProperties
<1>2. /\ Append(s, e)[Len(s) + 1] = e
      /\ \A i \in 1 .. Len(s) : Append(s, e)[i] = s[i]
  BY AppendProperties
<1>3. Len(s) \in Nat /\ DOMAIN s = 1 .. Len(s)
  BY LenProperties
<1> DEFINE t == Append(s, e)
<1>4. DOMAIN t = 1 .. (Len(s) + 1)
  <2>1. t \in Seq(S) /\ Len(t) = Len(s) + 1
    BY <1>1
  <2> HIDE DEF t
  <2> QED
    BY <2>1, LenProperties
<1>5. /\ Len(s) + 1 \notin 1 .. Len(s) /\ Len(s) + 1 \in Nat \ {0}
      /\ 1 .. (Len(s) + 1) = (1 .. Len(s)) \cup {Len(s) + 1}
  BY <1>3
<1> QED
  BY <1>1, <1>2, <1>3, <1>4, <1>5

LEMMA Replaced ==
    ASSUME NEW S, NEW s \in Seq(S), NEW i \in DOMAIN s, NEW e \in S
    PROVE  /\ [s EXCEPT ![i] = e] \in Seq(S)
           /\ Len([s EXCEPT ![i] = e]) = Len(s)
           /\ DOMAIN [s EXCEPT ![i] = e] = DOMAIN s
           /\ [s EXCEPT ![i] = e][i] = e
           /\ \A j \in DOMAIN s : j # i => [s EXCEPT ![i] = e][j] = s[j]
<1>1. DOMAIN s = 1 .. Len(s)
  BY LenProperties
<1>2. i \in 1 .. Len(s)
  BY <1>1
<1>3. /\ [s EXCEPT ![i] = e] \in Seq(S)
      /\ Len([s EXCEPT ![i] = e]) = Len(s)
  BY <1>2, ExceptSeq
<1> QED
  BY <1>1, <1>2, <1>3

-----------------------------------------------------------------------------
(* What one step of the kernel may do to a run                             *)

(* A run that succeeded committed its step, a step that has an output has  *)
(* one of its agent's, only a gated step with an output is reviewed, and   *)
(* what a gated step commits is what the reviewer let through.             *)
HasOutput(x) == x.step \in {"ready", "committed"}

Sound(outputs, x) ==
    /\ x.status = "succeeded" => x.step = "committed"
    /\ HasOutput(x) => x.value \in outputs
    /\ x.review # "none" => x.gated /\ HasOutput(x)
    /\ x.review = "approved" => x.verdict \in outputs
    /\ x.step = "committed" /\ x.gated =>
           x.review = "approved" /\ x.value = x.verdict

(* Without a review no run is approved, and what has succeeded stays so.   *)
Follows(outputs, x, y) ==
    /\ y \in Kernel!RunRecord
    /\ y.gated = x.gated
    /\ Sound(outputs, x) => Sound(outputs, y)
    /\ Sound(outputs, x) /\ x.status = "succeeded" => y.status = "succeeded"
    /\ y.review = "approved" =>
           x.review = "approved" /\ y.verdict = x.verdict

(* Only the status, the cancel mark and the deadline may differ.           *)
Alike(x, y) ==
    /\ y.gated = x.gated /\ y.step = x.step /\ y.value = x.value
    /\ y.review = x.review /\ y.verdict = x.verdict

LEMMA FollowsItself ==
    ASSUME NEW outputs, NEW x \in Kernel!RunRecord
    PROVE  Follows(outputs, x, x)
BY DEF Follows

LEMMA FollowsOn ==
    ASSUME NEW outputs, NEW x, NEW y, NEW z,
           Follows(outputs, x, y), Follows(outputs, y, z)
    PROVE  Follows(outputs, x, z)
BY DEF Follows, Sound

(* The operations of an execution ...                                      *)
LEMMA StartedFollows ==
    ASSUME NEW outputs, NEW x \in Kernel!RunRecord, NEW y \in Kernel!Started(x)
    PROVE  Follows(outputs, x, y)
<1>1. /\ y = [x EXCEPT !.status = "running", !.active = TRUE]
      /\ x.status # "succeeded"
  BY DEF Kernel!Started, Kernel!Finished
<1>2. y \in Kernel!RunRecord
  BY <1>1 DEF Kernel!RunRecord
<1>3. y.status = "running" /\ Alike(x, y)
  BY <1>1 DEF Kernel!RunRecord, Alike
<1> QED
  BY <1>1, <1>2, <1>3 DEF Follows, Sound, HasOutput, Alike

LEMMA CalledFollows ==
    ASSUME NEW outputs, NEW x \in Kernel!RunRecord, NEW y \in Kernel!Called(x)
    PROVE  Follows(outputs, x, y)
BY DEF Follows, Sound, HasOutput, Kernel!Called, Kernel!RunRecord,
       Kernel!Executing, Kernel!Finished

LEMMA ReturnedFollows ==
    ASSUME NEW outputs, NEW x \in Kernel!RunRecord, NEW v \in outputs,
           v \in Values,
           NEW y \in Kernel!Returned(x, v)
    PROVE  Follows(outputs, x, y)
BY ZenonT(60) DEF Follows, Sound, HasOutput, Kernel!Returned, Kernel!RunRecord,
       Kernel!Executing, Kernel!Finished

LEMMA BrokenFollows ==
    ASSUME NEW outputs, NEW x \in Kernel!RunRecord, NEW y \in Kernel!Broken(x)
    PROVE  Follows(outputs, x, y)
BY DEF Follows, Sound, HasOutput, Kernel!Broken, Kernel!RunRecord,
       Kernel!Executing, Kernel!Finished

LEMMA RequestedFollows ==
    ASSUME NEW outputs, NEW x \in Kernel!RunRecord,
           NEW y \in Kernel!ReviewRequested(x)
    PROVE  Follows(outputs, x, y)
BY DEF Follows, Sound, HasOutput, Kernel!ReviewRequested, Kernel!RunRecord,
       Kernel!Executing, Kernel!Finished

LEMMA CommittedFollows ==
    ASSUME NEW outputs, NEW x \in Kernel!RunRecord,
           NEW y \in Kernel!Committed(x)
    PROVE  Follows(outputs, x, y)
BY ZenonT(60) DEF Follows, Sound, HasOutput, Kernel!Committed, Kernel!RunRecord,
       Kernel!Executing, Kernel!Finished

LEMMA EndedFollows ==
    ASSUME NEW outputs, NEW x \in Kernel!RunRecord, NEW y \in Kernel!Ended(x)
    PROVE  Follows(outputs, x, y)
<1>1. PICK s \in Kernel!Ends(x) :
          /\ y = [x EXCEPT !.status = s, !.active = FALSE]
          /\ Kernel!Executing(x)
  BY DEF Kernel!Ended
<1>3. /\ s \in {"succeeded", "waiting", "failed", "cancelled", "uncertain"}
      /\ s = "succeeded" => x.step = "committed"
  BY DEF Kernel!Ends
<1> QED
  BY <1>1, <1>3 DEF Follows, Sound, HasOutput, Kernel!RunRecord,
         Kernel!Executing,
                    Kernel!Finished

(* ... and what disturbs it.                                               *)
LEMMA CrashedFollows ==
    ASSUME NEW outputs, NEW x \in Kernel!RunRecord, NEW y \in Kernel!Crashed(x)
    PROVE  Follows(outputs, x, y)
BY ZenonT(60) DEF Follows, Sound, HasOutput, Kernel!Crashed, Kernel!RunRecord

LEMMA CancelledFollows ==
    ASSUME NEW outputs, NEW x \in Kernel!RunRecord,
           NEW y \in Kernel!Cancelled(x)
    PROVE  Follows(outputs, x, y)
<1>1. PICK s \in {"running", "cancelled"} :
          y = [x EXCEPT !.cancel = TRUE, !.status = s]
  BY DEF Kernel!Cancelled
<1>2. x.status # "succeeded"
  BY DEF Kernel!Cancelled, Kernel!Finished
<1>3. y \in Kernel!RunRecord
  BY <1>1 DEF Kernel!RunRecord, Kernel!Finished
<1>4. y.status = s /\ Alike(x, y)
  BY <1>1 DEF Kernel!RunRecord, Alike
<1> QED
  BY <1>2, <1>3, <1>4 DEF Follows, Sound, HasOutput, Alike

LEMMA ExpiredFollows ==
    ASSUME NEW outputs, NEW x \in Kernel!RunRecord, NEW y \in Kernel!Expired(x)
    PROVE  Follows(outputs, x, y)
BY ZenonT(60) DEF Follows, Sound, HasOutput, Kernel!Expired, Kernel!RunRecord

LEMMA GrantedFollows ==
    ASSUME NEW outputs, NEW x \in Kernel!RunRecord,
           NEW y \in Kernel!RetryGranted(x)
    PROVE  Follows(outputs, x, y)
<1>1. /\ y = [Kernel!Requeued(x) EXCEPT !.step = "new"]
      /\ x.step \in {"running", "broken"}
  BY DEF Kernel!RetryGranted, Kernel!Unsettled
<1> DEFINE z == Kernel!Requeued(x)
<1>2. z \in Kernel!RunRecord
  BY DEF Kernel!Requeued, Kernel!RunRecord
<1>3. z.status = "queued" /\ Alike(x, z)
  BY DEF Kernel!Requeued, Kernel!RunRecord, Alike
<1>4. y = [z EXCEPT !.step = "new"]
  BY <1>1
<1> HIDE DEF z
<1>5. /\ y \in Kernel!RunRecord
      /\ y.status = z.status /\ y.step = "new" /\ y.gated = z.gated
      /\ y.review = z.review /\ y.verdict = z.verdict
  BY <1>4, <1>2 DEF Kernel!RunRecord
<1> QED
  BY <1>1, <1>3, <1>5 DEF Follows, Sound, HasOutput, Alike

LEMMA ConfirmedFollows ==
    ASSUME NEW outputs, NEW x \in Kernel!RunRecord, NEW v \in outputs,
           v \in Values,
           NEW y \in Kernel!OutputConfirmed(x, v)
    PROVE  Follows(outputs, x, y)
<1>1. /\ y = [Kernel!Requeued(x) EXCEPT !.step = "ready", !.value = v]
      /\ x.step # "committed"
  BY DEF Kernel!OutputConfirmed, Kernel!Unsettled
<1> DEFINE z == Kernel!Requeued(x)
<1>2. z \in Kernel!RunRecord
  BY DEF Kernel!Requeued, Kernel!RunRecord
<1>3. z.status = "queued" /\ Alike(x, z)
  BY DEF Kernel!Requeued, Kernel!RunRecord, Alike
<1>4. y = [z EXCEPT !.step = "ready", !.value = v]
  BY <1>1
<1> HIDE DEF z
<1>5. /\ y \in Kernel!RunRecord
      /\ y.status = z.status /\ y.step = "ready" /\ y.gated = z.gated
      /\ y.review = z.review /\ y.verdict = z.verdict
  BY <1>4, <1>2 DEF Kernel!RunRecord
<1> QED
  BY <1>1, <1>3, <1>5 DEF Follows, Sound, HasOutput, Alike

(* A review decides what was pending.                                      *)
LEMMA ReviewedDecides ==
    ASSUME NEW outputs, NEW x \in Kernel!RunRecord, NEW v \in Values,
           NEW d \in {"approved", "rejected"},
           d = "rejected" \/ v \in outputs,
           NEW y \in Kernel!Reviewed(x, d, v)
    PROVE  /\ y \in Kernel!RunRecord
           /\ y.gated = x.gated /\ y.status = x.status
           /\ Sound(outputs, x) => Sound(outputs, y)
           /\ y.review = "approved" => d = "approved" /\ y.verdict = v
BY ZenonT(60) DEF Sound, HasOutput, Kernel!Reviewed, Kernel!RunRecord

LEMMA OutputsAreValues ==
    ASSUME NEW agent
    PROVE  OutputsOf(agent) \subseteq Values
BY DEF OutputsOf, Values

LEMMA ConcludedFollows ==
    ASSUME NEW x \in Kernel!RunRecord, NEW agent,
           NEW y \in Concluded(agent, x)
    PROVE  Follows(OutputsOf(agent), x, y)
<1> DEFINE outputs == OutputsOf(agent)
           returned ==
               {x} \cup Kernel!Broken(x)
               \cup (UNION {Kernel!Returned(x, v) : v \in outputs})
           asked ==
               returned
               \cup (UNION {Kernel!ReviewRequested(z) : z \in returned})
           saved == asked \cup (UNION {Kernel!Committed(z) : z \in asked})
<1>1. \A z \in returned : Follows(outputs, x, z)
  <2>1. outputs \subseteq Values
    BY OutputsAreValues
  <2> HIDE DEF outputs
  <2> QED
    BY <2>1, FollowsItself, BrokenFollows, ReturnedFollows
<1>2. \A z \in asked : Follows(outputs, x, z)
  <2> HIDE DEF returned
  <2>1. ASSUME NEW w \in returned, NEW z \in Kernel!ReviewRequested(w)
        PROVE  Follows(outputs, x, z)
    <3>1. Follows(outputs, x, w) /\ w \in Kernel!RunRecord
      BY <1>1 DEF Follows
    <3> QED
      BY <3>1, RequestedFollows, FollowsOn
  <2> QED
    BY <1>1, <2>1
<1>3. \A z \in saved : Follows(outputs, x, z)
  <2> HIDE DEF asked
  <2>1. ASSUME NEW w \in asked, NEW z \in Kernel!Committed(w)
        PROVE  Follows(outputs, x, z)
    <3>1. Follows(outputs, x, w) /\ w \in Kernel!RunRecord
      BY <1>2 DEF Follows
    <3> QED
      BY <3>1, CommittedFollows, FollowsOn
  <2> QED
    BY <1>2, <2>1
<1> HIDE DEF outputs
<1>4. PICK w \in saved : y \in Kernel!Ended(w)
  BY DEF Concluded, outputs
<1> HIDE DEF saved
<1>5. Follows(outputs, x, w) /\ w \in Kernel!RunRecord
  BY <1>3 DEF Follows
<1> QED
  BY <1>4, <1>5, EndedFollows, FollowsOn DEF outputs

-----------------------------------------------------------------------------
(* The operators of the case keep the types                                *)

LEMMA NothingIsValue == Nothing \in Values /\ NoReview \in Review
<1>1. Nothing \in Values
  BY DEF Values
<1>2. NoReview \in Review
  BY <1>1 DEF NoReview, Review
<1> QED
  BY <1>1, <1>2

LEMMA UnconfirmedTyped == Unconfirmed \in Confirmation
BY DEF Unconfirmed, Confirmation, Stamps, NoStamps, NoJob

LEMMA StampedTyped ==
    ASSUME NEW c \in Inspection
    PROVE  Stamped(c) \in Stamps
BY DEF Stamped, Stamps, Inspection, Confirmation

LEMMA NewJobTyped ==
    ASSUME NEW c \in Inspection, NEW agent \in Agents
    PROVE  NewJob(agent, c) \in Job
<1>1. Stamped(c) \in Stamps /\ c.ev \in Nat /\ NoReview \in Review
  BY StampedTyped, NothingIsValue DEF Inspection
<1> HIDE DEF Stamps, Stamped, Review, NoReview, Agents
<1> QED
  BY <1>1 DEF NewJob, Job

LEMMA EndedTyped ==
    ASSUME case \in Inspection, ConclusionsHold(case),
           NEW status \in Closed \cup {"collecting", "active", "needs_input",
                                       "needs_human"}
    PROVE  /\ Ended(status) \in Inspection /\ ConclusionsHold(Ended(status))
           /\ Ended(status).active = NoJob /\ Ended(status).status = status
           /\ Ended(status).conf = case.conf /\ Ended(status).ev = case.ev
           /\ Ended(status).archived = case.archived
           /\ Ended(status).plan = case.plan
           /\ Ended(status).before = case.before
           /\ Ended(status).after = case.after
           /\ Ended(status).stamps = case.stamps
           /\ Ended(status).rounds = case.rounds
           /\ Ended(status).tasks = case.tasks
<1> HIDE DEF Confirmation, Issues
<1> QED
  BY DEF Ended, Inspection, ConclusionsHold, NoJob

LEMMA WithoutTyped ==
    ASSUME NEW c \in Inspection, ConclusionsHold(c), NEW dropped
    PROVE  /\ Without(c, dropped) \in Inspection
           /\ ConclusionsHold(Without(c, dropped))
           /\ \A k \in Keys :
                 Without(c, dropped).conf[k] =
                     IF k \in dropped THEN Unconfirmed ELSE c.conf[k]
           /\ Without(c, dropped).status = c.status
           /\ Without(c, dropped).active = c.active
           /\ Without(c, dropped).ev = c.ev
           /\ Without(c, dropped).before = c.before
           /\ Without(c, dropped).after = c.after
           /\ Without(c, dropped).archived = c.archived
           /\ Without(c, dropped).plan = c.plan
           /\ Without(c, dropped).tasks = c.tasks
           /\ Without(c, dropped).rounds = c.rounds
           /\ Without(c, dropped).stamps = c.stamps
<1> HIDE DEF Confirmation, Issues
<1> DEFINE conf == [k \in Keys |-> IF k \in dropped THEN Unconfirmed
                                   ELSE c.conf[k]]
<1>1. conf \in [Keys -> Confirmation]
  BY UnconfirmedTyped DEF Inspection
<1>2. Without(c, dropped) = [c EXCEPT !.conf = conf]
  BY DEF Without
<1>3. \A k \in Keys : conf[k] = IF k \in dropped THEN Unconfirmed
                                ELSE c.conf[k]
  OBVIOUS
<1> HIDE DEF conf
<1>4. Without(c, dropped) \in Inspection /\ Without(c, dropped).conf = conf
  BY <1>1, <1>2 DEF Inspection
<1>5. ConclusionsHold(Without(c, dropped))
  BY <1>3, <1>4 DEF ConclusionsHold, Unconfirmed
<1> QED
  BY <1>2, <1>3, <1>4, <1>5 DEF Inspection

LEMMA InvalidatedTyped ==
    ASSUME NEW c \in Inspection
    PROVE  /\ Invalidated(c) \in Inspection
           /\ ConclusionsHold(Invalidated(c))
           /\ \A k \in Keys : Invalidated(c).conf[k] = Unconfirmed
           /\ Invalidated(c).active = c.active
           /\ Invalidated(c).status = c.status
           /\ Invalidated(c).after = c.after
           /\ Invalidated(c).archived = 0 /\ Invalidated(c).plan = 0
<1> HIDE DEF Confirmation, Issues
<1> DEFINE conf == [k \in Keys |-> Unconfirmed]
           ev == c.ev + 1
<1>1. conf \in [Keys -> Confirmation]
  BY UnconfirmedTyped
<1>2. Invalidated(c) = [c EXCEPT !.conf = conf, !.archived = 0, !.plan = 0,
                                 !.ev = ev]
  BY DEF Invalidated
<1>3. \A k \in Keys : conf[k] = Unconfirmed
  OBVIOUS
<1>6. ev \in Nat
  BY DEF Inspection
<1> HIDE DEF conf, ev
<1> DEFINE s == Invalidated(c)
<1> HIDE DEF s
<1>7. s = [c EXCEPT !.conf = conf, !.archived = 0, !.plan = 0, !.ev = ev]
  BY <1>2 DEF s
<1>8. s \in Inspection /\ s.conf = conf
  BY <1>1, <1>7, <1>6 DEF Inspection
<1>4. Invalidated(c) \in Inspection /\ Invalidated(c).conf = conf
  BY <1>8 DEF s
<1>5. ConclusionsHold(Invalidated(c))
  BY <1>3, <1>4 DEF ConclusionsHold, Unconfirmed
<1> QED
  BY <1>2, <1>3, <1>4, <1>5 DEF Inspection

Conclusion(stamp, value, by, basis, ev, vouched) ==
    [stamp |-> stamp, value |-> value, by |-> by, basis |-> basis, ev |-> ev,
     vouched |-> vouched]

LEMMA ConclusionTyped ==
    ASSUME NEW stamp \in Nat, NEW value \in Findings, NEW by \in Nat,
           NEW basis \in Stamps, NEW ev \in Nat, NEW vouched \in BOOLEAN
    PROVE  LET new == Conclusion(stamp, value, by, basis, ev, vouched) IN
           /\ new \in Confirmation
           /\ new.stamp = stamp /\ new.value = value /\ new.by = by
           /\ new.basis = basis /\ new.ev = ev /\ new.vouched = vouched
BY DEF Conclusion, Confirmation

LEMMA StoredTyped ==
    ASSUME NEW c \in Inspection, ConclusionsHold(c), NEW key \in Keys,
           NEW value \in Findings, NEW by \in Nat, NEW basis \in Stamps,
           NEW ev \in Nat, NEW vouched \in BOOLEAN
    PROVE  LET s == Stored(c, key, value, by, basis, ev, vouched) IN
           /\ s \in Inspection /\ ConclusionsHold(s)
           /\ s.conf[key] = Conclusion(c.stamps + 1, value, by, basis, ev,
                                       vouched)
           /\ \A k \in Keys \ {key} :
                 s.conf[k] = IF k \in Dependents(key) THEN Unconfirmed
                             ELSE c.conf[k]
           /\ s.archived = IF key = "work_plan" THEN c.archived ELSE 0
           /\ s.plan = 0
           /\ s.status = c.status /\ s.active = c.active /\ s.ev = c.ev
           /\ s.before = c.before /\ s.after = c.after
<1> HIDE DEF Dependents, Issues, Without, Stamps
<1> DEFINE kept == Without(c, Dependents(key))
           new == Conclusion(c.stamps + 1, value, by, basis, ev, vouched)
           s == Stored(c, key, value, by, basis, ev, vouched)
<1>1. /\ kept \in Inspection /\ ConclusionsHold(kept)
      /\ \A k \in Keys :
            kept.conf[k] = IF k \in Dependents(key) THEN Unconfirmed
                           ELSE c.conf[k]
      /\ kept.status = c.status /\ kept.active = c.active
      /\ kept.ev = c.ev /\ kept.before = c.before /\ kept.after = c.after
      /\ kept.archived = c.archived /\ kept.stamps = c.stamps
  BY WithoutTyped
<1>2. new \in Confirmation /\ new.stamp > 0 /\ new.value = value
  <2>1. c.stamps + 1 \in Nat /\ c.stamps + 1 > 0
    BY DEF Inspection
  <2> HIDE DEF Confirmation
  <2> QED
    BY <2>1, ConclusionTyped
<1>3. s = [kept EXCEPT !.conf[key] = new, !.stamps = kept.stamps + 1,
                       !.archived = IF key = "work_plan" THEN c.archived
                                    ELSE 0,
                       !.plan = 0]
  BY DEF Stored, Conclusion
<1> DEFINE conf == [kept.conf EXCEPT ![key] = new]
           archived == IF key = "work_plan" THEN c.archived ELSE 0
           stamps == kept.stamps + 1
<1>4. s = [kept EXCEPT !.conf = conf, !.stamps = stamps,
                       !.archived = archived, !.plan = 0]
  BY <1>3
<1>5. archived \in Nat /\ stamps \in Nat
  BY <1>1 DEF Inspection
<1> HIDE DEF kept, new, s, Confirmation, archived, stamps
<1>6. /\ conf \in [Keys -> Confirmation] /\ conf[key] = new
      /\ \A k \in Keys \ {key} : conf[k] = kept.conf[k]
  BY <1>1, <1>2 DEF Inspection
<1> HIDE DEF conf
<1>7. s \in Inspection /\ s.conf = conf /\ s.archived = archived
      /\ s.plan = 0 /\ s.status = kept.status /\ s.active = kept.active
      /\ s.ev = kept.ev /\ s.before = kept.before /\ s.after = kept.after
  BY <1>1, <1>4, <1>5, <1>6 DEF Inspection
<1>8. ConclusionsHold(s)
  BY <1>1, <1>2, <1>6, <1>7 DEF ConclusionsHold
<1> QED
  BY <1>1, <1>6, <1>7, <1>8 DEF s, new, archived

LEMMA AfterUploadTyped ==
    ASSUME NEW c \in Inspection, ConclusionsHold(c), NEW issue \in Issues,
           NEW stamp \in Nat
    PROVE  LET s == AfterUpload(c, issue, stamp) IN
           /\ s \in Inspection /\ ConclusionsHold(s)
           /\ \A k \in Keys :
                 s.conf[k] =
                     IF k \in {"rectification", "report", "work_plan"}
                     THEN Unconfirmed ELSE c.conf[k]
           /\ s.archived = 0 /\ s.plan = 0
           /\ s.status = c.status /\ s.active = c.active
           /\ s.after = c.after \cup {<<issue, stamp>>}
<1> DEFINE dropped == {"rectification", "report", "work_plan"}
           kept == Without(c, dropped)
           s == AfterUpload(c, issue, stamp)
           after == c.after \cup {<<issue, stamp>>}
           ev == kept.ev + 1
<1> HIDE DEF Confirmation, Issues, Without
<1>1. /\ kept \in Inspection /\ ConclusionsHold(kept)
      /\ \A k \in Keys :
            kept.conf[k] = IF k \in dropped THEN Unconfirmed ELSE c.conf[k]
      /\ kept.status = c.status /\ kept.active = c.active
      /\ kept.after = c.after /\ kept.ev = c.ev
  <2> HIDE DEF dropped
  <2> QED
    BY WithoutTyped
<1>2. after \in SUBSET (Issues \X Nat) /\ ev \in Nat
  BY <1>1 DEF Inspection
<1>3. s = [kept EXCEPT !.archived = 0, !.plan = 0, !.ev = ev,
                       !.after = after]
  BY <1>1 DEF AfterUpload
<1> HIDE DEF kept, s, after, dropped, ev
<1>4. /\ s \in Inspection /\ s.conf = kept.conf
      /\ s.archived = 0 /\ s.plan = 0
      /\ s.status = kept.status /\ s.active = kept.active /\ s.after = after
  BY <1>1, <1>2, <1>3 DEF Inspection
<1>5. ConclusionsHold(s)
  BY <1>1, <1>4 DEF ConclusionsHold
<1> QED
  BY <1>1, <1>4, <1>5 DEF s, after, dropped

-----------------------------------------------------------------------------
(* How the records of the jobs change                                      *)

(* The case keeps what c holds.                                            *)
Keeps(c) ==
    /\ case'.conf = c.conf /\ case'.ev = c.ev
    /\ case'.archived = c.archived /\ case'.plan = c.plan
    /\ case'.before = c.before /\ case'.after = c.after

(* A job is filed behind the others.                                       *)
OpenedJob(agent, c, queue, started, tally) ==
    LET n == Len(queue) + 1 IN
    /\ n \in Nat \ {0} /\ n \notin DOMAIN queue
    /\ DOMAIN jobs' = DOMAIN queue \cup {n}
    /\ jobs'[n] = NewJob(agent, c)
    /\ runs'[n] = NoRun /\ projected'[n] = 0
    /\ \A i \in DOMAIN queue : /\ jobs'[i] = queue[i]
                               /\ runs'[i] = started[i]
                               /\ projected'[i] = tally[i]
    /\ IF agent = "observation" THEN case' = c
       ELSE /\ case'.active = n /\ case'.status = "active"
            /\ Keeps(c)

LEMMA EnqueuedOpens ==
    ASSUME NEW agent \in Agents, NEW c, NEW queue, NEW started, NEW tally,
           Filed(c, queue, started, tally),
           Enqueued(agent, c, queue, started, tally)
    PROVE  /\ OpenedJob(agent, c, queue, started, tally)
           /\ Filed(case', jobs', runs', projected')
<1> DEFINE n == Len(queue) + 1
           job == NewJob(agent, c)
           rounds == IF agent = "main" THEN c.rounds + 1 ELSE c.rounds
<1> USE DEF Filed
<1>1. job \in Job
  BY NewJobTyped
<1>2. /\ jobs' \in Seq(Job) /\ Len(jobs') = n
      /\ DOMAIN jobs' = DOMAIN queue \cup {n}
      /\ n \in Nat \ {0} /\ n \notin DOMAIN queue
      /\ jobs'[n] = job
      /\ \A i \in DOMAIN queue : jobs'[i] = queue[i]
  <2>1. jobs' = Append(queue, job)
    BY DEF Enqueued
  <2> HIDE DEF Job, job
  <2> QED
    BY <1>1, <2>1, Appended
<1>3. /\ DOMAIN started = DOMAIN queue /\ DOMAIN tally = DOMAIN queue
  BY LenProperties
<1>4. /\ runs' \in Seq(RunRecords) /\ Len(runs') = n /\ runs'[n] = NoRun
      /\ \A i \in DOMAIN queue : runs'[i] = started[i]
  <2>1. runs' = Append(started, NoRun) /\ NoRun \in RunRecords
    BY DEF Enqueued, RunRecords
  <2> HIDE DEF RunRecords
  <2> QED
    BY <1>3, <2>1, Appended
<1>5. /\ projected' \in Seq(Nat) /\ Len(projected') = n /\ projected'[n] = 0
      /\ \A i \in DOMAIN queue : projected'[i] = tally[i]
  <2>1. projected' = Append(tally, 0)
    BY DEF Enqueued
  <2> QED
    BY <1>3, <2>1, Appended
<1>6. rounds \in Nat
  BY DEF Inspection
<1>7. CASE agent = "observation"
  <2>1. case' = c
    BY <1>7 DEF Enqueued
  <2>2. c.active \in {NoJob} \cup DOMAIN jobs'
    BY <1>2
  <2> HIDE DEF Job, RunRecords, Inspection, n, job
  <2> QED
    BY <1>2, <1>4, <1>5, <1>7, <2>1, <2>2 DEF OpenedJob, n, job
<1>8. CASE agent # "observation"
  <2>1. case' = [c EXCEPT !.active = n, !.status = "active",
                          !.rounds = rounds]
    BY <1>8 DEF Enqueued, NextJob
  <2> HIDE DEF n, rounds, Confirmation, Issues
  <2>2. /\ case' \in Inspection /\ case'.active = n
        /\ case'.status = "active" /\ case'.conf = c.conf
    BY <2>1, <1>2, <1>6 DEF Inspection
  <2>3. Keeps(c)
    BY <2>1 DEF Keeps, Inspection
  <2>4. ConclusionsHold(case')
    BY <2>2 DEF ConclusionsHold
  <2> HIDE DEF Job, RunRecords, Inspection, job
  <2>5. Filed(case', jobs', runs', projected')
    BY <1>2, <1>4, <1>5, <2>2, <2>4 DEF Filed
  <2>6. OpenedJob(agent, c, queue, started, tally)
    BY <1>2, <1>4, <1>5, <1>8, <2>2, <2>3 DEF OpenedJob, n, job
  <2> QED
    BY <2>5, <2>6
<1> QED
  BY <1>7, <1>8

(* The rounds are over: the case waits for nobody.                         *)
RoundsOver(c, queue, started, tally) ==
    /\ case'.active = NoJob /\ case'.status = "needs_human" /\ Keeps(c)
    /\ jobs' = queue /\ runs' = started /\ projected' = tally

LEMMA EnqueueMainOpens ==
    ASSUME NEW c, NEW queue, NEW started, NEW tally,
           Filed(c, queue, started, tally),
           EnqueueMain(c, queue, started, tally)
    PROVE  /\ \/ OpenedJob("main", c, queue, started, tally)
              \/ RoundsOver(c, queue, started, tally)
           /\ Filed(case', jobs', runs', projected')
<1>1. CASE Enqueued("main", c, queue, started, tally)
  BY <1>1, EnqueuedOpens DEF Agents
<1>2. CASE /\ case' = [c EXCEPT !.status = "needs_human", !.active = NoJob]
           /\ jobs' = queue /\ runs' = started /\ projected' = tally
  <2> HIDE DEF Confirmation, Issues
  <2>1. /\ case' \in Inspection /\ case'.conf = c.conf
        /\ case'.active = NoJob /\ case'.status = "needs_human"
    BY <1>2 DEF Filed, Inspection, NoJob
  <2>2. Keeps(c)
    BY <1>2 DEF Filed, Inspection, Keeps
  <2>3. ConclusionsHold(case')
    BY <2>1 DEF Filed, ConclusionsHold
  <2> QED
    BY <1>2, <2>1, <2>2, <2>3 DEF RoundsOver, Filed
<1> QED
  BY <1>1, <1>2 DEF EnqueueMain

LEMMA Domains ==
    ASSUME TypeInv
    PROVE  /\ JobIds = 1 .. Len(jobs) /\ Len(jobs) \in Nat
           /\ DOMAIN runs = JobIds /\ DOMAIN projected = JobIds
           /\ NoJob \notin JobIds
<1>1. /\ jobs \in Seq(Job) /\ runs \in Seq(RunRecords)
      /\ projected \in Seq(Nat)
      /\ Len(runs) = Len(jobs) /\ Len(projected) = Len(jobs)
  BY DEF TypeInv, Filed
<1> HIDE DEF Job, RunRecords
<1>2. /\ DOMAIN jobs = 1 .. Len(jobs) /\ Len(jobs) \in Nat
      /\ DOMAIN runs = 1 .. Len(jobs) /\ DOMAIN projected = 1 .. Len(jobs)
  BY <1>1, LenProperties
<1> QED
  BY <1>2 DEF JobIds, NoJob

LEMMA JobTyped ==
    ASSUME TypeInv, NEW j \in JobIds
    PROVE  /\ jobs \in Seq(Job) /\ jobs[j] \in Job
           /\ runs \in Seq(RunRecords) /\ runs[j] \in RunRecords
           /\ projected \in Seq(Nat) /\ projected[j] \in Nat
<1>1. /\ jobs \in Seq(Job) /\ runs \in Seq(RunRecords)
      /\ projected \in Seq(Nat)
      /\ Len(runs) = Len(jobs) /\ Len(projected) = Len(jobs)
  BY DEF TypeInv, Filed
<1>2. j \in 1 .. Len(jobs)
  BY Domains
<1> HIDE DEF Job, RunRecords
<1> QED
  BY <1>1, <1>2, LenProperties

(* A job that differs in nothing but the mark, the review or the id.       *)
LEMMA StopMarked ==
    ASSUME TypeInv, NEW j \in JobIds, NEW action \in {"return", "cancel"},
           jobs' = [jobs EXCEPT ![j].stop = action]
    PROVE  /\ jobs' \in Seq(Job) /\ Len(jobs') = Len(jobs)
           /\ DOMAIN jobs' = JobIds
           /\ \A i \in JobIds : i # j => jobs'[i] = jobs[i]
           /\ jobs'[j] \in Job
           /\ jobs'[j].agent = jobs[j].agent /\ jobs'[j].ev = jobs[j].ev
           /\ jobs'[j].snapshot = jobs[j].snapshot
           /\ jobs'[j].known = jobs[j].known
           /\ jobs'[j].applied = jobs[j].applied
           /\ jobs'[j].review = jobs[j].review
<1> DEFINE job == [jobs[j] EXCEPT !.stop = action]
           new == [jobs EXCEPT ![j].stop = action]
<1>1. jobs \in Seq(Job) /\ jobs[j] \in Job
  BY JobTyped
<1> HIDE DEF Agents, Stamps, Review
<1>2. /\ job \in Job
      /\ job.agent = jobs[j].agent /\ job.ev = jobs[j].ev
      /\ job.snapshot = jobs[j].snapshot
      /\ job.known = jobs[j].known /\ job.applied = jobs[j].applied
      /\ job.review = jobs[j].review
  BY <1>1 DEF Job
<1>3. new = [jobs EXCEPT ![j] = job]
  OBVIOUS
<1> HIDE DEF Job, job, new
<1>4. /\ new \in Seq(Job) /\ Len(new) = Len(jobs) /\ DOMAIN new = JobIds
      /\ new[j] = job /\ \A i \in JobIds : i # j => new[i] = jobs[i]
  BY <1>1, <1>2, <1>3, Replaced DEF JobIds
<1>5. jobs' = new
  BY DEF new
<1> QED
  BY <1>2, <1>4, <1>5

LEMMA ReviewRecorded ==
    ASSUME TypeInv, NEW j \in JobIds, NEW review \in Review,
           jobs' = [jobs EXCEPT ![j].review = review]
    PROVE  /\ jobs' \in Seq(Job) /\ Len(jobs') = Len(jobs)
           /\ DOMAIN jobs' = JobIds
           /\ \A i \in JobIds : i # j => jobs'[i] = jobs[i]
           /\ jobs'[j].agent = jobs[j].agent /\ jobs'[j].ev = jobs[j].ev
           /\ jobs'[j].snapshot = jobs[j].snapshot
           /\ jobs'[j].known = jobs[j].known
           /\ jobs'[j].applied = jobs[j].applied
           /\ jobs'[j].review = review
<1> DEFINE job == [jobs[j] EXCEPT !.review = review]
           new == [jobs EXCEPT ![j].review = review]
<1>1. jobs \in Seq(Job) /\ jobs[j] \in Job
  BY JobTyped
<1> HIDE DEF Agents, Stamps, Review
<1>2. /\ job \in Job
      /\ job.agent = jobs[j].agent /\ job.ev = jobs[j].ev
      /\ job.snapshot = jobs[j].snapshot
      /\ job.known = jobs[j].known /\ job.applied = jobs[j].applied
      /\ job.review = review
  BY <1>1 DEF Job
<1>3. new = [jobs EXCEPT ![j] = job]
  OBVIOUS
<1> HIDE DEF Job, job, new
<1>4. /\ new \in Seq(Job) /\ Len(new) = Len(jobs) /\ DOMAIN new = JobIds
      /\ new[j] = job /\ \A i \in JobIds : i # j => new[i] = jobs[i]
  BY <1>1, <1>2, <1>3, Replaced DEF JobIds
<1>5. jobs' = new
  BY DEF new
<1> QED
  BY <1>2, <1>4, <1>5

LEMMA IdNoted ==
    ASSUME TypeInv, NEW j \in JobIds,
           jobs' = [jobs EXCEPT ![j].known = TRUE]
    PROVE  /\ jobs' \in Seq(Job) /\ Len(jobs') = Len(jobs)
           /\ DOMAIN jobs' = JobIds
           /\ \A i \in JobIds : i # j => jobs'[i] = jobs[i]
           /\ jobs'[j].agent = jobs[j].agent /\ jobs'[j].ev = jobs[j].ev
           /\ jobs'[j].snapshot = jobs[j].snapshot
           /\ jobs'[j].known
           /\ jobs'[j].applied = jobs[j].applied
           /\ jobs'[j].review = jobs[j].review
<1> DEFINE job == [jobs[j] EXCEPT !.known = TRUE]
           new == [jobs EXCEPT ![j].known = TRUE]
<1>1. jobs \in Seq(Job) /\ jobs[j] \in Job
  BY JobTyped
<1> HIDE DEF Agents, Stamps, Review
<1>2. /\ job \in Job
      /\ job.agent = jobs[j].agent /\ job.ev = jobs[j].ev
      /\ job.snapshot = jobs[j].snapshot
      /\ job.known /\ job.applied = jobs[j].applied
      /\ job.review = jobs[j].review
  BY <1>1 DEF Job
<1>3. new = [jobs EXCEPT ![j] = job]
  OBVIOUS
<1> HIDE DEF Job, job, new
<1>4. /\ new \in Seq(Job) /\ Len(new) = Len(jobs) /\ DOMAIN new = JobIds
      /\ new[j] = job /\ \A i \in JobIds : i # j => new[i] = jobs[i]
  BY <1>1, <1>2, <1>3, Replaced DEF JobIds
<1>5. jobs' = new
  BY DEF new
<1> QED
  BY <1>2, <1>4, <1>5

(* The job of a projection is applied and its run retired.                 *)
LEMMA JobApplied ==
    ASSUME TypeInv, NEW j \in JobIds
    PROVE  /\ Applied(j) \in Seq(Job) /\ Len(Applied(j)) = Len(jobs)
           /\ DOMAIN Applied(j) = JobIds
           /\ \A i \in JobIds : i # j => Applied(j)[i] = jobs[i]
           /\ Applied(j)[j].agent = jobs[j].agent
           /\ Applied(j)[j].known /\ Applied(j)[j].applied
           /\ Applied(j)[j].review = NoReview
<1> DEFINE job == [[[jobs[j] EXCEPT !.applied = TRUE] EXCEPT !.known = TRUE]
                   EXCEPT !.review = NoReview]
           new == Applied(j)
<1>1. jobs \in Seq(Job) /\ jobs[j] \in Job
  BY JobTyped
<1>2. NoReview \in Review
  BY NothingIsValue
<1> HIDE DEF Agents, Stamps, Review, NoReview
<1>3. /\ job \in Job
      /\ job.agent = jobs[j].agent
      /\ job.known /\ job.applied
      /\ job.review = NoReview
  BY <1>1, <1>2 DEF Job
<1>4. new = [jobs EXCEPT ![j] = job]
  BY DEF Applied
<1> HIDE DEF Job, job, new
<1>5. /\ new \in Seq(Job) /\ Len(new) = Len(jobs) /\ DOMAIN new = JobIds
      /\ new[j] = job /\ \A i \in JobIds : i # j => new[i] = jobs[i]
  BY <1>1, <1>3, <1>4, Replaced DEF JobIds
<1> QED
  BY <1>3, <1>5 DEF new

LEMMA RunReplaced ==
    ASSUME TypeInv, NEW j \in JobIds, NEW x \in RunRecords
    PROVE  LET new == [runs EXCEPT ![j] = x] IN
           /\ new \in Seq(RunRecords) /\ Len(new) = Len(jobs)
           /\ DOMAIN new = JobIds
           /\ new[j] = x /\ \A i \in JobIds : i # j => new[i] = runs[i]
<1>1. runs \in Seq(RunRecords) /\ Len(runs) = Len(jobs)
  BY DEF TypeInv, Filed
<1>2. j \in DOMAIN runs /\ DOMAIN runs = JobIds
  BY Domains
<1> HIDE DEF RunRecords
<1> QED
  BY <1>1, <1>2, Replaced

LEMMA JobTallied ==
    ASSUME TypeInv, NEW j \in JobIds
    PROVE  /\ Tallied(j) \in Seq(Nat) /\ Len(Tallied(j)) = Len(jobs)
           /\ Tallied(j)[j] = projected[j] + 1
           /\ \A i \in JobIds : i # j => Tallied(j)[i] = projected[i]
<1>1. projected \in Seq(Nat) /\ Len(projected) = Len(jobs)
  BY DEF TypeInv, Filed
<1>2. j \in DOMAIN projected /\ DOMAIN projected = JobIds
  BY Domains
<1>3. projected[j] + 1 \in Nat
  BY JobTyped
<1> QED
  BY <1>1, <1>2, <1>3, Replaced DEF Tallied

-----------------------------------------------------------------------------
(* Type correctness                                                        *)

LEMMA StatusTyped ==
    ASSUME NEW c \in Inspection, ConclusionsHold(c),
           NEW status \in Closed \cup {"collecting", "active", "needs_input",
                                       "needs_human"}
    PROVE  LET new == [c EXCEPT !.status = status] IN
           /\ new \in Inspection /\ ConclusionsHold(new)
           /\ new.status = status /\ new.active = c.active
           /\ new.conf = c.conf /\ new.ev = c.ev
           /\ new.archived = c.archived /\ new.plan = c.plan
           /\ new.before = c.before /\ new.after = c.after
<1> HIDE DEF Confirmation, Issues
<1> QED
  BY DEF Inspection, ConclusionsHold

(* What FinishUpload leaves of the case.                                   *)
LEMMA UploadedTyped ==
    ASSUME TypeInv, FinishUpload
    PROVE  /\ case' \in Inspection /\ ConclusionsHold(case')
           /\ case'.active = case.active /\ case'.status = "collecting"
           /\ case'.archived = 0 /\ case'.plan = 0
           /\ upload.kind = "after" =>
                 /\ case'.after = case.after \cup
                                      {<<upload.issue, upload.stamp>>}
                 /\ \A k \in Keys :
                       case'.conf[k] =
                           IF k \in {"rectification", "report", "work_plan"}
                           THEN Unconfirmed ELSE case.conf[k]
           /\ upload.kind # "after" =>
                 /\ case'.after = case.after
                 /\ \A k \in Keys : case'.conf[k] = Unconfirmed
<1>1. case \in Inspection /\ ConclusionsHold(case)
  BY DEF TypeInv, Filed
<1>2. CASE upload.kind = "after"
  <2> DEFINE c == AfterUpload(case, upload.issue, upload.stamp)
  <2>1. case' = [c EXCEPT !.status = "collecting"]
    BY <1>2 DEF FinishUpload
  <2>2. upload.issue \in Issues /\ upload.stamp \in Nat
    BY <1>2 DEF TypeInv, Uploads
  <2>3. /\ c \in Inspection /\ ConclusionsHold(c)
        /\ \A k \in Keys :
              c.conf[k] = IF k \in {"rectification", "report", "work_plan"}
                          THEN Unconfirmed ELSE case.conf[k]
        /\ c.archived = 0 /\ c.plan = 0 /\ c.active = case.active
        /\ c.after = case.after \cup {<<upload.issue, upload.stamp>>}
    BY <1>1, <2>2, AfterUploadTyped
  <2> HIDE DEF c, Inspection, Issues
  <2>4. /\ case' \in Inspection /\ ConclusionsHold(case')
        /\ case'.status = "collecting" /\ case'.active = c.active
        /\ case'.conf = c.conf /\ case'.archived = c.archived
        /\ case'.plan = c.plan /\ case'.after = c.after
    BY <2>1, <2>3, StatusTyped
  <2> QED
    BY <1>2, <2>3, <2>4
<1>3. CASE upload.kind # "after"
  <2> DEFINE c == Invalidated(case)
             before == c.before \/ upload.kind = "before"
             d == [c EXCEPT !.before = before]
  <2>1. case' = [d EXCEPT !.status = "collecting"]
    BY <1>3 DEF FinishUpload
  <2>2. /\ c \in Inspection /\ ConclusionsHold(c)
        /\ \A k \in Keys : c.conf[k] = Unconfirmed
        /\ c.archived = 0 /\ c.plan = 0
        /\ c.active = case.active /\ c.after = case.after
    BY <1>1, InvalidatedTyped
  <2>3. before \in BOOLEAN
    BY DEF Inspection
  <2> HIDE DEF before, c
  <2>4. /\ d \in Inspection /\ ConclusionsHold(d)
        /\ d.conf = c.conf /\ d.archived = c.archived /\ d.plan = c.plan
        /\ d.active = c.active /\ d.after = c.after
    <3> HIDE DEF Confirmation, Issues
    <3> QED
      BY <2>2, <2>3 DEF Inspection, ConclusionsHold
  <2> HIDE DEF d, Inspection, Issues
  <2>5. /\ case' \in Inspection /\ ConclusionsHold(case')
        /\ case'.status = "collecting" /\ case'.active = d.active
        /\ case'.conf = d.conf /\ case'.archived = d.archived
        /\ case'.plan = d.plan /\ case'.after = d.after
    BY <2>1, <2>4, StatusTyped
  <2> QED
    BY <1>3, <2>2, <2>4, <2>5
<1> QED
  BY <1>2, <1>3

LEMMA ManualTyped ==
    ASSUME TypeInv, NEW key \in Keys, NEW value \in Findings,
           ManualResult(key, value)
    PROVE  /\ case' \in Inspection /\ ConclusionsHold(case')
           /\ case'.active = case.active /\ case'.status = case.status
           /\ case'.ev = case.ev /\ case'.after = case.after
           /\ case'.archived = IF key = "work_plan" THEN case.archived ELSE 0
           /\ case'.plan = 0
           /\ \E vouched \in BOOLEAN :
                 /\ vouched
                 /\ case'.conf[key] = Conclusion(case.stamps + 1, value, NoJob,
                                       Stamped(case), case.ev, vouched)
           /\ \A k \in Keys \ {key} :
                 case'.conf[k] = IF k \in Dependents(key) THEN Unconfirmed
                                 ELSE case.conf[k]
<1> DEFINE basis == Stamped(case)
           ev == case.ev
<1>1. case \in Inspection /\ ConclusionsHold(case)
  BY DEF TypeInv, Filed
<1>2. PICK vouched \in BOOLEAN :
          /\ vouched
          /\ case' = Stored(case, key, value, NoJob, basis, ev, vouched)
  BY DEF ManualResult
<1>3. basis \in Stamps /\ ev \in Nat /\ NoJob \in Nat
  BY <1>1, StampedTyped DEF Inspection, NoJob
<1> DEFINE s == Stored(case, key, value, NoJob, basis, ev, vouched)
<1>4. case' = s
  BY <1>2
<1> HIDE DEF basis, ev
<1>5. /\ s \in Inspection /\ ConclusionsHold(s) /\ s.active = case.active
      /\ s.status = case.status /\ s.ev = case.ev /\ s.after = case.after
      /\ s.archived = IF key = "work_plan" THEN case.archived ELSE 0
      /\ s.plan = 0
      /\ s.conf[key] = Conclusion(case.stamps + 1, value, NoJob, basis, ev,
                                  vouched)
      /\ \A k \in Keys \ {key} :
            s.conf[k] = IF k \in Dependents(key) THEN Unconfirmed
                        ELSE case.conf[k]
  <2>1. s = Stored(case, key, value, NoJob, basis, ev, vouched)
    OBVIOUS
  <2> HIDE DEF s
  <2> QED
    BY <1>1, <1>3, <2>1, StoredTyped
<1> HIDE DEF s
<1> QED
  BY <1>2, <1>4, <1>5 DEF basis, ev

LEMMA ArchivedTyped ==
    ASSUME case \in Inspection, ConclusionsHold(case),
           "report" \in Confirmed(case)
    PROVE  LET new == [case EXCEPT !.archived = case.conf["report"].stamp] IN
           /\ new \in Inspection /\ ConclusionsHold(new)
           /\ new.archived = case.conf["report"].stamp /\ new.archived > 0
           /\ new.status = case.status /\ new.active = case.active
           /\ new.conf = case.conf /\ new.ev = case.ev
           /\ new.plan = case.plan
           /\ new.before = case.before /\ new.after = case.after
<1> DEFINE stamp == case.conf["report"].stamp
<1>1. stamp \in Nat /\ stamp > 0
  BY DEF Inspection, Confirmed, Confirmation
<1> HIDE DEF stamp, Confirmation, Issues
<1>2. LET new == [case EXCEPT !.archived = stamp] IN
      /\ new \in Inspection /\ ConclusionsHold(new)
      /\ new.archived = stamp /\ new.archived > 0
      /\ new.status = case.status /\ new.active = case.active
      /\ new.conf = case.conf /\ new.ev = case.ev
      /\ new.plan = case.plan
      /\ new.before = case.before /\ new.after = case.after
  BY <1>1 DEF Inspection, ConclusionsHold
<1> QED
  BY <1>2 DEF stamp

LEMMA PublishedTyped ==
    ASSUME TypeInv, PublishPlan
    PROVE  /\ case' \in Inspection /\ ConclusionsHold(case')
           /\ "work_plan" \in Confirmed(case) /\ case.status # "cancelled"
           /\ case'.plan = case.conf["work_plan"].stamp /\ case'.plan > 0
           /\ case'.status = case.status /\ case'.active = case.active
           /\ case'.conf = case.conf /\ case'.ev = case.ev
           /\ case'.archived = case.archived
           /\ case'.before = case.before /\ case'.after = case.after
<1>1. case \in Inspection /\ ConclusionsHold(case)
  BY DEF TypeInv, Filed
<1> DEFINE plan == case.conf["work_plan"].stamp
           tasks == IF plan = case.plan THEN case.tasks ELSE {plan}
<1>2. /\ plan \in Nat /\ plan > 0 /\ "work_plan" \in Confirmed(case)
      /\ case.status # "cancelled"
  BY <1>1 DEF PublishPlan, Inspection, Confirmed, Confirmation
<1>3. tasks \in SUBSET Nat
  BY <1>1, <1>2 DEF Inspection
<1>4. case' = [case EXCEPT !.plan = plan, !.tasks = tasks]
  BY DEF PublishPlan
<1> HIDE DEF plan, tasks, Confirmation, Issues
<1>5. /\ case' \in Inspection /\ case'.plan = plan
      /\ case'.status = case.status /\ case'.active = case.active
      /\ case'.conf = case.conf /\ case'.ev = case.ev
      /\ case'.archived = case.archived
      /\ case'.before = case.before /\ case'.after = case.after
  BY <1>1, <1>2, <1>3, <1>4 DEF Inspection
<1>6. ConclusionsHold(case')
  BY <1>1, <1>5 DEF ConclusionsHold
<1> QED
  BY <1>2, <1>5, <1>6 DEF plan

LEMMA ClosedTyped ==
    ASSUME TypeInv, CloseTasks
    PROVE  /\ case' \in Inspection /\ ConclusionsHold(case')
           /\ case'.status = case.status /\ case'.active = case.active
           /\ Keeps(case)
<1>1. case \in Inspection /\ ConclusionsHold(case)
  BY DEF TypeInv, Filed
<1> HIDE DEF Confirmation, Issues
<1> QED
  BY <1>1 DEF CloseTasks, Inspection, ConclusionsHold, Keeps

LEMMA StoppedTyped ==
    ASSUME TypeInv, NEW action \in {"return", "cancel"}, Stop(action)
    PROVE  \/ /\ case.active # NoJob /\ case' = case
              /\ jobs' = [jobs EXCEPT ![case.active].stop = action]
           \/ /\ case.active = NoJob /\ jobs' = jobs
              /\ case.status \notin Closed
              /\ case' \in Inspection /\ ConclusionsHold(case')
              /\ case'.status \in {"cancelled", "needs_input"}
              /\ case'.active = NoJob /\ Keeps(case)
<1>1. case \in Inspection /\ ConclusionsHold(case)
  BY DEF TypeInv, Filed
<1>2. CASE case.active # NoJob
  BY <1>2 DEF Stop
<1>3. CASE case.active = NoJob
  <2>1. PICK status \in {"cancelled", "needs_input"} :
            case' = [case EXCEPT !.status = status]
    BY <1>3 DEF Stop
  <2>2. jobs' = jobs /\ case.status \notin Closed
    BY <1>3 DEF Stop
  <2> HIDE DEF Inspection, Issues
  <2>3. /\ case' \in Inspection /\ ConclusionsHold(case')
        /\ case'.status = status /\ case'.active = case.active
        /\ Keeps(case)
    BY <1>1, <2>1, StatusTyped DEF Keeps, Closed
  <2> QED
    BY <1>3, <2>2, <2>3
<1> QED
  BY <1>2, <1>3

(* The value of a run is one its agent or its reviewer may name.           *)
LEMMA ValuesTyped ==
    ASSUME NEW x \in RunRecords
    PROVE  x.value \in Values
BY NothingIsValue DEF RunRecords, Kernel!RunRecord, NoRun, Spent,
   Kernel!Submitted

(* The review a reviewer of a proposal leaves.                             *)
DispatchReview(j, action, review) ==
    /\ Record(j, review)
    /\ review.action = action /\ review.accept = TRUE
    /\ review.original = runs[j].value
    /\ review.effective \in Proposals \cup {runs[j].value}
    /\ \/ /\ review.selected \in Keys
          /\ CanDispatch(case, review.selected)
       \/ /\ review.selected = "none"
          /\ action \notin {"modify", "retry"}
          /\ action = "approve" => Acceptable(runs[j].value)

LEMMA DispatchRecords ==
    ASSUME TypeInv, NEW j \in JobIds,
           NEW action \in {"approve", "modify", "retry", "skip", "return",
                           "manual"},
           Dispatch(j, action)
    PROVE  /\ j = case.active /\ jobs[j].agent = "main"
           /\ jobs[j].review = NoReview
           /\ \E review \in Review : DispatchReview(j, action, review)
<1> DEFINE proposal == runs[j].value
           Of(key, effective) ==
               [action |-> action, accept |-> TRUE, selected |-> key,
                original |-> proposal, effective |-> effective]
<1>1. /\ j = case.active /\ jobs[j].agent = "main"
      /\ jobs[j].review = NoReview
  BY DEF Dispatch, AwaitsReviewer
<1>2. proposal \in Values
  BY JobTyped, ValuesTyped
<1> HIDE DEF proposal, Values
<1>3. ASSUME NEW key \in Keys \cup {"none"}, NEW effective \in Values
      PROVE  /\ Of(key, effective) \in Review
             /\ Of(key, effective).action = action
             /\ Of(key, effective).accept = TRUE
             /\ Of(key, effective).selected = key
             /\ Of(key, effective).original = proposal
             /\ Of(key, effective).effective = effective
  BY <1>2 DEF Review
<1>4. ASSUME NEW key \in Keys, Selectable(proposal, action, key),
             Record(j, Of(key, [act |-> "propose_agent", of |-> key]))
      PROVE  \E review \in Review :
                 /\ Record(j, review)
                 /\ review.action = action /\ review.accept = TRUE
                 /\ review.original = proposal
                 /\ review.effective \in Proposals
                 /\ review.selected \in Keys
                 /\ CanDispatch(case, review.selected)
  <2>1. [act |-> "propose_agent", of |-> key] \in Values \cap Proposals
    BY DEF Values, Proposals
  <2>2. CanDispatch(case, key)
    BY <1>4 DEF Selectable
  <2> DEFINE review == Of(key, [act |-> "propose_agent", of |-> key])
  <2>3. /\ review \in Review /\ review.action = action
        /\ review.accept = TRUE /\ review.selected = key
        /\ review.original = proposal /\ review.effective \in Proposals
    BY <1>3, <2>1
  <2>4. Record(j, review)
    BY <1>4
  <2> HIDE DEF review, Review
  <2> QED
    BY <2>2, <2>3, <2>4
<1>5. ASSUME \/ action = "approve" /\ Acceptable(proposal)
             \/ action \in {"skip", "return", "manual"},
             Record(j, Of("none", proposal))
      PROVE  \E review \in Review :
                 /\ Record(j, review)
                 /\ review.action = action /\ review.accept = TRUE
                 /\ review.original = proposal
                 /\ review.effective = proposal
                 /\ review.selected = "none"
                 /\ action \notin {"modify", "retry"}
                 /\ action = "approve" => Acceptable(proposal)
  <2> DEFINE review == Of("none", proposal)
  <2>3. /\ review \in Review /\ review.action = action
        /\ review.accept = TRUE /\ review.selected = "none"
        /\ review.original = proposal /\ review.effective = proposal
    BY <1>2, <1>3
  <2>4. Record(j, review)
    BY <1>5
  <2> HIDE DEF review, Review
  <2> QED
    BY <1>5, <2>3, <2>4
<1>6. \/ \E key \in Keys :
             /\ Selectable(proposal, action, key)
             /\ Record(j, Of(key, [act |-> "propose_agent", of |-> key]))
      \/ /\ action = "approve" /\ Acceptable(proposal)
         /\ Record(j, Of("none", proposal))
      \/ /\ action \in {"skip", "return", "manual"}
         /\ Record(j, Of("none", proposal))
  BY DEF Dispatch, proposal
<1>7. \E review \in Review :
         /\ Record(j, review)
         /\ review.action = action /\ review.accept = TRUE
         /\ review.original = proposal
         /\ review.effective \in Proposals \cup {proposal}
         /\ \/ /\ review.selected \in Keys
               /\ CanDispatch(case, review.selected)
            \/ /\ review.selected = "none"
               /\ action \notin {"modify", "retry"}
               /\ action = "approve" => Acceptable(proposal)
  <2> HIDE DEF Of, Review
  <2>1. CASE \E key \in Keys :
             /\ Selectable(proposal, action, key)
             /\ Record(j, Of(key, [act |-> "propose_agent", of |-> key]))
    BY <1>4, <2>1
  <2>2. CASE /\ \/ action = "approve" /\ Acceptable(proposal)
                \/ action \in {"skip", "return", "manual"}
             /\ Record(j, Of("none", proposal))
    BY <1>5, <2>2
  <2> QED
    BY <1>6, <2>1, <2>2
<1> QED
  BY <1>1, <1>7 DEF proposal, DispatchReview

LEMMA ReviewResultRecords ==
    ASSUME TypeInv, NEW j \in JobIds, NEW accept \in BOOLEAN,
           NEW edited \in Results, ReviewResult(j, accept, edited)
    PROVE  /\ j = case.active /\ jobs[j].agent # "main"
           /\ jobs[j].review = NoReview
           /\ \E review \in Review :
                 /\ Record(j, review)
                 /\ review.action \in {"confirm_result", "reject_result"}
                 /\ review.selected = "none"
                 /\ review.effective \in Results
<1> DEFINE original == runs[j].value
           action == IF accept THEN "confirm_result" ELSE "reject_result"
           review == [action |-> action, accept |-> accept,
                      selected |-> "none", original |-> original,
                      effective |-> edited]
<1>1. /\ j = case.active /\ jobs[j].agent # "main"
      /\ jobs[j].review = NoReview
  BY DEF ReviewResult, AwaitsReviewer
<1>2. original \in Values /\ edited \in Values
  <2>1. original \in Values
    BY JobTyped, ValuesTyped
  <2> QED
    BY <2>1 DEF Values
<1>3. Record(j, review)
  BY DEF ReviewResult
<1>4. action \in {"confirm_result", "reject_result"}
  OBVIOUS
<1> HIDE DEF original, action, Values
<1>5. /\ review \in Review /\ review.selected = "none"
      /\ review.action = action /\ review.effective \in Results
  BY <1>2, <1>4 DEF Review
<1> HIDE DEF review, Review
<1> QED
  BY <1>1, <1>3, <1>4, <1>5

-----------------------------------------------------------------------------
(* How the kernel changes the run of a job                                 *)

Outputs(j) == OutputsOf(jobs[j].agent)

LEMMA RunExists ==
    ASSUME TypeInv, NEW j \in JobIds, runs[j] \notin {NoRun, Spent}
    PROVE  runs[j] \in Kernel!RunRecord
BY JobTyped DEF RunRecords

LEMMA BegunFollows ==
    ASSUME NEW j, runs[j] \in Kernel!RunRecord, NEW y \in Begun(j)
    PROVE  Follows(Outputs(j), runs[j], y)
<1> DEFINE called ==
               UNION {Kernel!Called(x) : x \in Kernel!Started(runs[j])}
<1>1. \A z \in called :
          Follows(Outputs(j), runs[j], z) /\ z \in Kernel!RunRecord
  <2>1. ASSUME NEW x \in Kernel!Started(runs[j]), NEW z \in Kernel!Called(x)
        PROVE  Follows(Outputs(j), runs[j], z) /\ z \in Kernel!RunRecord
    <3>1. Follows(Outputs(j), runs[j], x) /\ x \in Kernel!RunRecord
      BY StartedFollows DEF Follows
    <3>2. Follows(Outputs(j), x, z)
      BY <3>1, CalledFollows
    <3> QED
      BY <3>1, <3>2, FollowsOn DEF Follows
  <2> QED
    BY <2>1
<1>2. \/ y \in called
      \/ \E z \in called : y \in Kernel!Broken(z)
  BY DEF Begun
<1> HIDE DEF called
<1>3. ASSUME NEW z \in called, y \in Kernel!Broken(z)
      PROVE  Follows(Outputs(j), runs[j], y)
  BY <1>1, <1>3, BrokenFollows, FollowsOn
<1> QED
  BY <1>1, <1>2, <1>3

LEMMA ResumedFollows ==
    ASSUME NEW j, runs[j] \in Kernel!RunRecord, NEW y \in Resumed(j)
    PROVE  Follows(Outputs(j), runs[j], y)
<1>1. PICK x \in Kernel!Started(runs[j]) : y \in Concluded(jobs[j].agent, x)
  BY DEF Resumed
<1>2. Follows(Outputs(j), runs[j], x) /\ x \in Kernel!RunRecord
  BY StartedFollows DEF Follows
<1> QED
  BY <1>1, <1>2, ConcludedFollows, FollowsOn DEF Outputs

(* Every step of the kernel replaces the run of one job by one that        *)
(* follows it.                                                             *)
RunFollows(j) ==
    /\ runs[j] \in Kernel!RunRecord
    /\ \E x \in Kernel!RunRecord :
          runs' = [runs EXCEPT ![j] = x] /\ Follows(Outputs(j), runs[j], x)

LEMMA KernelActionFollows ==
    ASSUME TypeInv, NEW j \in JobIds,
           KernelStep(j) \/ Disturb(j) \/ Reconcile(j)
    PROVE  RunFollows(j)
<1>1. runs[j] \in Kernel!RunRecord
  BY RunExists DEF KernelStep, Disturb, Reconcile
<1>2. ASSUME NEW x, Follows(Outputs(j), runs[j], x),
             runs' = [runs EXCEPT ![j] = x]
      PROVE  RunFollows(j)
  BY <1>1, <1>2 DEF RunFollows, Follows
<1>3. CASE KernelStep(j)
  <2>1. PICK x \in Begun(j) \cup Resumed(j)
                       \cup Concluded(jobs[j].agent, runs[j]) :
            runs' = [runs EXCEPT ![j] = x]
    BY <1>3 DEF KernelStep
  <2>2. Follows(Outputs(j), runs[j], x)
    BY <1>1, <2>1, BegunFollows, ResumedFollows, ConcludedFollows DEF Outputs
  <2> QED
    BY <1>2, <2>1, <2>2
<1>4. CASE Disturb(j)
  <2>1. PICK x \in Kernel!Crashed(runs[j]) \cup Kernel!Cancelled(runs[j])
                       \cup Kernel!Expired(runs[j]) :
            runs' = [runs EXCEPT ![j] = x]
    BY <1>4 DEF Disturb
  <2>2. Follows(Outputs(j), runs[j], x)
    BY <1>1, CrashedFollows, CancelledFollows, ExpiredFollows
  <2> QED
    BY <1>2, <2>1, <2>2
<1>5. CASE Reconcile(j)
  <2>1. PICK x \in Kernel!RetryGranted(runs[j])
                   \cup (UNION {Kernel!OutputConfirmed(runs[j], v) :
                                    v \in Outputs(j)}) :
            runs' = [runs EXCEPT ![j] = x]
    BY <1>5 DEF Reconcile, Outputs
  <2>2. CASE x \in Kernel!RetryGranted(runs[j])
    BY <1>1, <1>2, <2>1, <2>2, GrantedFollows
  <2>3. CASE \E v \in Outputs(j) :
                 x \in Kernel!OutputConfirmed(runs[j], v)
    <3>1. Follows(Outputs(j), runs[j], x)
      BY <1>1, <2>3, ConfirmedFollows, OutputsAreValues DEF Outputs
    <3> QED
      BY <1>2, <2>1, <3>1
  <2> QED
    BY <2>1, <2>2, <2>3
<1> QED
  BY <1>3, <1>4, <1>5

(* The approval endpoint of the kernel decides what was pending.           *)
RunDecided(j, decision, v) ==
    /\ runs[j] \in Kernel!RunRecord
    /\ \E x \in Kernel!RunRecord :
          /\ runs' = [runs EXCEPT ![j] = x]
          /\ x.gated = runs[j].gated /\ x.status = runs[j].status
          /\ Sound(Outputs(j), runs[j]) => Sound(Outputs(j), x)
          /\ x.review = "approved" => decision = "approved" /\ x.verdict = v

LEMMA ReviewedIsDecided ==
    ASSUME NEW j, runs[j] \in Kernel!RunRecord,
           NEW d \in {"approved", "rejected"}, NEW v \in Values,
           d = "approved" => v \in Outputs(j),
           NEW x \in Kernel!Reviewed(runs[j], d, v),
           runs' = [runs EXCEPT ![j] = x]
    PROVE  RunDecided(j, d, v)
<1> DEFINE run == runs[j]
           outputs == Outputs(j)
<1>1. /\ x \in Kernel!RunRecord
      /\ x.gated = run.gated /\ x.status = run.status
      /\ Sound(outputs, run) => Sound(outputs, x)
      /\ x.review = "approved" => d = "approved" /\ x.verdict = v
  <2>1. run \in Kernel!RunRecord /\ x \in Kernel!Reviewed(run, d, v)
    OBVIOUS
  <2>2. d = "rejected" \/ v \in outputs
    OBVIOUS
  <2> HIDE DEF run, outputs
  <2> QED
    BY <2>1, <2>2, ReviewedDecides
<1> QED
  BY <1>1 DEF RunDecided

LEMMA NativeDecides ==
    ASSUME TypeInv, NEW j \in JobIds, NativeDecide(j)
    PROVE  /\ Native
           /\ \E d \in {"approved", "rejected"}, v \in Outputs(j) :
                 RunDecided(j, d, v)
<1>1. runs[j] \in Kernel!RunRecord
  BY RunExists DEF NativeDecide
<1>2. PICK d \in {"approved", "rejected"}, v \in Outputs(j) :
          \E x \in Kernel!Reviewed(runs[j], d, v) :
             runs' = [runs EXCEPT ![j] = x]
  BY DEF NativeDecide, Outputs
<1>3. v \in Values
  BY OutputsAreValues DEF Outputs
<1>4. RunDecided(j, d, v)
  BY <1>1, <1>2, <1>3, ReviewedIsDecided
<1> QED
  BY <1>3, <1>4 DEF NativeDecide

(* What has no run is not pending ...                                      *)
LEMMA FlushReviewDecides ==
    ASSUME TypeInv, NEW p \in Procs, FlushReview(p),
           \A j \in JobIds : jobs[j].review.accept =>
                                 jobs[j].review.effective \in Outputs(j)
    PROVE  /\ mem[p].at = "approve" /\ mem[p].job \in JobIds
           /\ \/ runs' = runs
              \/ RunDecided(mem[p].job, DecisionOf(jobs[mem[p].job].review),
                            jobs[mem[p].job].review.effective)
<1> DEFINE j == mem[p].job
           d == DecisionOf(jobs[j].review)
           v == jobs[j].review.effective
<1>1. mem[p].at = "approve" /\ j \in JobIds
  BY DEF FlushReview, TypeInv
<1>2. Told(j, Kernel!Reviewed(runs[j], d, v))
  BY DEF FlushReview
<1>3. d \in {"approved", "rejected"}
  BY DEF DecisionOf
<1>4. v \in Values /\ (d = "approved" => v \in Outputs(j))
  <2>1. jobs[j].review \in Review
    BY <1>1, JobTyped DEF Job
  <2> QED
    BY <1>1, <2>1 DEF Review, DecisionOf
<1> HIDE DEF j, d, v
<1>5. CASE Kernel!Reviewed(runs[j], d, v) # {}
  <2>1. runs[j].review = "pending"
    BY <1>5 DEF Kernel!Reviewed
  <2>2. runs[j] \in Kernel!RunRecord
    BY <1>1, <2>1, RunExists DEF NoRun, Spent, Kernel!Submitted
  <2>3. PICK x \in Kernel!Reviewed(runs[j], d, v) :
            runs' = [runs EXCEPT ![j] = x]
    BY <1>2, <1>5 DEF Told
  <2>4. RunDecided(j, d, v)
    BY <1>3, <1>4, <2>2, <2>3, ReviewedIsDecided
  <2> QED
    BY <1>1, <2>4 DEF j, d, v
<1>6. CASE Kernel!Reviewed(runs[j], d, v) = {}
  <2>1. runs' = runs
    BY <1>2, <1>6 DEF Told
  <2> QED
    BY <1>1, <2>1 DEF j
<1> QED
  BY <1>5, <1>6

(* ... and the run of an applied job is left alone.                        *)
LEMMA FlushStopFollows ==
    ASSUME TypeInv, NEW p \in Procs, FlushStop(p)
    PROVE  /\ mem[p].at = "cancel" /\ mem[p].job \in JobIds
           /\ \/ runs' = runs
              \/ RunFollows(mem[p].job)
              \/ /\ runs[mem[p].job] = NoRun
                 /\ \E x \in RunRecords :
                       runs' = [runs EXCEPT ![mem[p].job] = x]
<1> DEFINE j == mem[p].job
<1>1. mem[p].at = "cancel" /\ j \in JobIds
  BY DEF FlushStop, TypeInv
<1>2. Told(j, IF runs[j] = Spent THEN {} ELSE Kernel!Cancelled(runs[j]))
  BY DEF FlushStop
<1> HIDE DEF j
<1>3. CASE runs[j] = Spent \/ Kernel!Cancelled(runs[j]) = {}
  <2>1. runs' = runs
    BY <1>2, <1>3 DEF Told
  <2> QED
    BY <1>1, <2>1 DEF j
<1>4. CASE runs[j] # Spent /\ Kernel!Cancelled(runs[j]) # {}
  <2>1. PICK x \in Kernel!Cancelled(runs[j]) : runs' = [runs EXCEPT ![j] = x]
    BY <1>2, <1>4 DEF Told
  <2>2. CASE runs[j] = NoRun
    <3>1. x = [runs[j] EXCEPT !.cancel = TRUE, !.status = "cancelled"]
      BY <2>2 DEF Kernel!Cancelled, NoRun, Kernel!Submitted, Kernel!Finished
    <3>2. x \in Kernel!RunRecord
      BY <2>2, <3>1 DEF NoRun, Kernel!Submitted, Kernel!RunRecord,
                        Kernel!Finished
    <3> QED
      BY <1>1, <2>1, <2>2, <3>2 DEF j, RunRecords
  <2>3. CASE runs[j] # NoRun
    <3>1. runs[j] \in Kernel!RunRecord
      BY <1>1, <1>4, <2>3, RunExists
    <3>2. Follows(Outputs(j), runs[j], x)
      BY <3>1, CancelledFollows
    <3>3. RunFollows(j)
      BY <2>1, <3>1, <3>2 DEF RunFollows, Follows
    <3> QED
      BY <1>1, <3>3 DEF j
  <2> QED
    BY <2>2, <2>3
<1> QED
  BY <1>3, <1>4

LEMMA SubmittedTyped ==
    ASSUME NEW gated \in BOOLEAN
    PROVE  /\ Kernel!Submitted(gated) \in Kernel!RunRecord
           /\ Kernel!Submitted(gated).gated = gated
           /\ Kernel!Submitted(gated).status = "queued"
           /\ Kernel!Submitted(gated).step = "new"
           /\ Kernel!Submitted(gated).review = "none"
BY DEF Kernel!Submitted, Kernel!RunRecord

(* No record of the kernel is the mark of a run not submitted or over.     *)
LEMMA MarksAreNoRuns ==
    /\ NoRun \notin Kernel!RunRecord /\ Spent \notin Kernel!RunRecord
    /\ NoRun # Spent
    /\ NoRun.status = "none" /\ Spent.status = "over"
    /\ NoRun.review = "none" /\ Spent.review = "none"
BY DEF NoRun, Spent, Kernel!Submitted, Kernel!RunRecord, Kernel!Finished

-----------------------------------------------------------------------------
(* How the run of a job stands to its job                                  *)

(* The run is over when the job is applied, it exists once its id is       *)
(* noted, it is gated unless it observes, and what a reviewer accepted is  *)
(* an output of the agent.                                                 *)
JobInv(job, run) ==
    /\ job.applied <=> run = Spent
    /\ job.known => run # NoRun
    /\ run \notin {NoRun, Spent} =>
           /\ run.gated <=> job.agent # "observation"
           /\ Sound(OutputsOf(job.agent), run)
    /\ job.review.accept => job.review.effective \in OutputsOf(job.agent)

(* What a process remembers of a job is still so.                          *)
Remembers(m) ==
    /\ m.at = "cancel" => jobs[m.job].known
    /\ m.at = "record" => runs[m.job] # NoRun
    /\ m.at = "project" /\ m.won =>
           jobs[m.job].applied \/ runs[m.job].status = "succeeded"

RunInv ==
    /\ \A j \in JobIds : JobInv(jobs[j], runs[j])
    /\ \A p \in Procs : mem[p].at # "idle" => Remembers(mem[p])

(* A job never loses what a process may remember of it.                    *)
Advances(i, job, run) ==
    /\ jobs[i].known => job.known
    /\ jobs[i].applied => job.applied
    /\ runs[i] # NoRun => run # NoRun
    /\ runs[i].status = "succeeded" =>
           job.applied \/ run.status = "succeeded"

Good(queue, started) ==
    /\ DOMAIN queue = JobIds
    /\ \A i \in JobIds : /\ JobInv(queue[i], started[i])
                         /\ Advances(i, queue[i], started[i])

RecordsGood ==
    /\ JobIds \subseteq DOMAIN jobs'
    /\ \A i \in DOMAIN jobs' : JobInv(jobs'[i], runs'[i])
    /\ \A i \in JobIds : Advances(i, jobs'[i], runs'[i])

LEMMA KeptIsGood ==
    ASSUME RunInv
    PROVE  Good(jobs, runs)
BY DEF RunInv, Good, Advances, JobIds

LEMMA GoodRecords ==
    ASSUME Good(jobs', runs')
    PROVE  RecordsGood
BY DEF Good, RecordsGood

LEMMA NewJobGood ==
    ASSUME NEW agent, NEW c
    PROVE  JobInv(NewJob(agent, c), NoRun)
BY MarksAreNoRuns DEF JobInv, NewJob, NoReview

LEMMA OpenedGood ==
    ASSUME NEW agent, NEW c, NEW queue, NEW started, NEW tally,
           Good(queue, started),
           OpenedJob(agent, c, queue, started, tally)
    PROVE  RecordsGood
<1> DEFINE n == Len(queue) + 1
<1>1. /\ DOMAIN jobs' = JobIds \cup {n} /\ n \notin JobIds
      /\ jobs'[n] = NewJob(agent, c) /\ runs'[n] = NoRun
      /\ \A i \in JobIds : jobs'[i] = queue[i] /\ runs'[i] = started[i]
  BY DEF OpenedJob, Good
<1>2. JobInv(jobs'[n], runs'[n])
  BY <1>1, NewJobGood
<1> HIDE DEF n
<1>3. \A i \in JobIds : /\ JobInv(jobs'[i], runs'[i])
                        /\ Advances(i, jobs'[i], runs'[i])
  BY <1>1 DEF Good
<1> QED
  BY <1>1, <1>2, <1>3 DEF RecordsGood

LEMMA RetiredGood ==
    ASSUME TypeInv, RunInv, NEW j \in JobIds
    PROVE  Good(Applied(j), Retired(j))
<1>1. /\ DOMAIN Applied(j) = JobIds
      /\ \A i \in JobIds : i # j => Applied(j)[i] = jobs[i]
      /\ Applied(j)[j].known /\ Applied(j)[j].applied
      /\ Applied(j)[j].review = NoReview
  BY JobApplied
<1>2. /\ Retired(j)[j] = Spent
      /\ \A i \in JobIds : i # j => Retired(j)[i] = runs[i]
  BY RunReplaced DEF Retired, RunRecords
<1>3. Good(jobs, runs)
  BY KeptIsGood
<1>4. JobInv(Applied(j)[j], Retired(j)[j])
  BY <1>1, <1>2, MarksAreNoRuns DEF JobInv, NoReview
<1>5. Advances(j, Applied(j)[j], Retired(j)[j])
  BY <1>1, <1>2, MarksAreNoRuns DEF Advances
<1> QED
  BY <1>1, <1>2, <1>3, <1>4, <1>5 DEF Good

(* A step of the kernel leaves the jobs, and one job's run follows.        *)
LEMMA FollowsGood ==
    ASSUME TypeInv, RunInv, NEW j \in JobIds, RunFollows(j), jobs' = jobs
    PROVE  /\ RecordsGood
           /\ runs' \in Seq(RunRecords) /\ Len(runs') = Len(jobs)
<1>1. PICK x \in Kernel!RunRecord :
          /\ runs' = [runs EXCEPT ![j] = x]
          /\ Follows(Outputs(j), runs[j], x)
          /\ runs[j] \in Kernel!RunRecord
  BY DEF RunFollows
<1>2. /\ runs' \in Seq(RunRecords) /\ Len(runs') = Len(jobs)
      /\ runs'[j] = x /\ \A i \in JobIds : i # j => runs'[i] = runs[i]
  BY <1>1, RunReplaced DEF RunRecords
<1>3. JobInv(jobs[j], runs[j]) /\ Good(jobs, runs)
  BY KeptIsGood DEF RunInv
<1>4. JobInv(jobs[j], x)
  BY <1>1, <1>3, MarksAreNoRuns DEF JobInv, Follows, Outputs
<1>5. Advances(j, jobs[j], x)
  <2>1. Sound(Outputs(j), runs[j])
    BY <1>1, <1>3, MarksAreNoRuns DEF JobInv, Outputs
  <2> QED
    BY <1>1, <2>1, MarksAreNoRuns DEF Advances, Follows
<1>6. Good(jobs', runs')
  BY <1>2, <1>3, <1>4, <1>5 DEF Good
<1> QED
  BY <1>2, <1>6, GoodRecords

LEMMA DecidedGood ==
    ASSUME TypeInv, RunInv, NEW j \in JobIds, NEW d, NEW v,
           RunDecided(j, d, v), jobs' = jobs
    PROVE  /\ RecordsGood
           /\ runs' \in Seq(RunRecords) /\ Len(runs') = Len(jobs)
<1>1. PICK x \in Kernel!RunRecord :
          /\ runs' = [runs EXCEPT ![j] = x]
          /\ x.gated = runs[j].gated /\ x.status = runs[j].status
          /\ Sound(Outputs(j), runs[j]) => Sound(Outputs(j), x)
          /\ runs[j] \in Kernel!RunRecord
  BY DEF RunDecided
<1>2. /\ runs' \in Seq(RunRecords) /\ Len(runs') = Len(jobs)
      /\ runs'[j] = x /\ \A i \in JobIds : i # j => runs'[i] = runs[i]
  BY <1>1, RunReplaced DEF RunRecords
<1>3. JobInv(jobs[j], runs[j]) /\ Good(jobs, runs)
  BY KeptIsGood DEF RunInv
<1>4. JobInv(jobs[j], x)
  BY <1>1, <1>3, MarksAreNoRuns DEF JobInv, Outputs
<1>5. Advances(j, jobs[j], x)
  BY <1>1, MarksAreNoRuns DEF Advances
<1>6. Good(jobs', runs')
  BY <1>2, <1>3, <1>4, <1>5 DEF Good
<1> QED
  BY <1>2, <1>6, GoodRecords

-----------------------------------------------------------------------------
(* What a projection may do                                                *)

(* An approved proposal to finish.                                         *)
Finishes(j) ==
    /\ jobs[j].agent = "main" /\ jobs[j].stop = "none"
    /\ jobs[j].review.action \in {"approve", "modify", "retry"}
    /\ jobs[j].review.selected = "none"
    /\ jobs[j].review.original.act = "finish"
    /\ ~ProjectRaises(j)

(* The result of a specialist whose run succeeded.                         *)
Stores(j, value, vouched) ==
    /\ jobs[j].agent \in Keys /\ value \in Findings
    /\ jobs[j].stop = "none" /\ ~ProjectRaises(j)
    /\ runs[j] \in Kernel!RunRecord /\ runs[j].status = "succeeded"
    /\ vouched = /\ jobs[j].stop = "none" /\ jobs[j].review.accept
                 /\ jobs[j].review.effective = runs[j].value

StoredOf(j, value, vouched) ==
    Stored(Ended(case.status), jobs[j].agent, value, j, jobs[j].snapshot,
           jobs[j].ev, vouched)

Projections(j) ==
    \/ \E status \in {"needs_input", "needs_human", "cancelled"} :
          Rests(j, Ended(status))
    \/ EnqueueMain(Ended(case.status), Applied(j), Retired(j), Tallied(j))
    \/ \E key \in Keys :
          Enqueued(key, Ended(case.status), Applied(j), Retired(j), Tallied(j))
    \/ /\ Finishes(j)
       /\ Enqueued("observation", Ended("completed"), Applied(j), Retired(j),
                   Tallied(j))
    \/ \E value \in Findings, vouched \in BOOLEAN :
          /\ Stores(j, value, vouched)
          /\ EnqueueMain(StoredOf(j, value, vouched), Applied(j), Retired(j),
                         Tallied(j))

LEMMA AgentsApart ==
    /\ "main" \notin Keys /\ "observation" \notin Keys /\ "none" \notin Keys
    /\ NoJob = 0
BY CaseAssumption DEF AllKeys, NoJob

LEMMA MainProjects ==
    ASSUME TypeInv, NEW j \in JobIds,
           jobs[j].agent = "main", jobs[j].stop = "none",
           ProjectMain(j, jobs[j].review), ~ProjectRaises(j)
    PROVE  Projections(j)
<1> DEFINE review == jobs[j].review
<1>1. review \in Review
  BY JobTyped DEF Job
<1>2. CASE review.action = "skip"
         /\ EnqueueMain(Ended(case.status), Applied(j), Retired(j), Tallied(j))
  BY <1>2 DEF Projections
<1>3. CASE \E status \in {"needs_input", "needs_human"} :
              Rests(j, Ended(status))
  BY <1>3 DEF Projections
<1>4. CASE /\ review.selected # "none"
           /\ Enqueued(review.selected, Ended(case.status), Applied(j),
                       Retired(j), Tallied(j))
  <2>1. review.selected \in Keys
    BY <1>1, <1>4 DEF Review
  <2> QED
    BY <1>4, <2>1 DEF Projections
<1>5. CASE /\ review.action \in {"approve", "modify", "retry"}
           /\ review.selected = "none" /\ review.original.act = "finish"
           /\ Enqueued("observation", Ended("completed"), Applied(j),
                       Retired(j), Tallied(j))
  BY <1>5 DEF Projections, Finishes
<1> HIDE DEF Ended, Applied, Retired, Tallied, Enqueued, EnqueueMain, Rests
<1> QED
  BY <1>2, <1>3, <1>4, <1>5 DEF ProjectMain

LEMMA ResultProjects ==
    ASSUME TypeInv, RunInv, NEW j \in JobIds, jobs[j].agent \in Keys,
           ~jobs[j].applied, runs[j].status = "succeeded",
           jobs[j].stop = "none", ~ProjectRaises(j),
           ProjectResult(j, runs[j].value)
    PROVE  Projections(j)
<1> DEFINE output == runs[j].value
<1>1. /\ runs[j] \in Kernel!RunRecord
      /\ Sound(OutputsOf(jobs[j].agent), runs[j])
  BY RunExists, MarksAreNoRuns DEF RunInv, JobInv
<1>2. output \in Results
  <2>1. output \in OutputsOf(jobs[j].agent)
    BY <1>1 DEF Sound, HasOutput
  <2> QED
    BY <2>1, AgentsApart DEF OutputsOf
<1>3. CASE output.act = "completed"
  <2> DEFINE value == output.of
             vouched == /\ jobs[j].stop = "none" /\ jobs[j].review.accept
                        /\ jobs[j].review.effective = output
  <2>1. value \in Findings
    BY <1>2, <1>3 DEF Results
  <2>2. vouched \in BOOLEAN
    OBVIOUS
  <2>3. EnqueueMain(StoredOf(j, value, vouched), Applied(j), Retired(j),
                    Tallied(j))
    BY <1>3 DEF ProjectResult, StoredOf
  <2>4. Stores(j, value, vouched)
    BY <1>1, <2>1 DEF Stores
  <2> HIDE DEF value, vouched
  <2> QED
    BY <2>1, <2>2, <2>3, <2>4 DEF Projections
<1>4. CASE output.act # "completed"
  <2>1. output.act \in {"needs_input", "needs_human"}
    BY <1>2, <1>4 DEF Results
  <2>2. Rests(j, Ended(output.act))
    BY <1>4 DEF ProjectResult
  <2> HIDE DEF output
  <2> QED
    BY <2>1, <2>2 DEF Projections
<1> QED
  BY <1>3, <1>4

LEMMA ProjectEffects ==
    ASSUME TypeInv, RunInv, NEW p \in Procs, Project(p)
    PROVE  LET j == mem[p].job IN
           /\ j \in JobIds /\ ~jobs[j].applied
           /\ mem' = [mem EXCEPT ![p] = Asleep]
           /\ \/ /\ jobs[j].agent = "observation" /\ Rests(j, case)
                 /\ upload' = upload
              \/ /\ jobs[j].agent # "observation" /\ case.active = j
                 /\ upload' = [upload EXCEPT !.fresh = FALSE]
                 /\ Projections(j)
<1> DEFINE j == mem[p].job
<1>1. /\ j \in JobIds /\ ~jobs[j].applied
      /\ mem' = [mem EXCEPT ![p] = Asleep]
      /\ jobs[j].agent # "observation" => case.active = j
      /\ ~(mem[p].won /\ ProjectRaises(j))
  BY DEF Project, Projectable, Sleep, TypeInv
<1>2. CASE jobs[j].agent = "observation"
  BY <1>1, <1>2 DEF Project
<1>3. CASE jobs[j].agent # "observation"
  <2>1. upload' = [upload EXCEPT !.fresh = FALSE]
    BY <1>3 DEF Project, Saved
  <2>2. Projections(j)
    <3>1. CASE jobs[j].stop # "none"
      <4>1. Rests(j, Ended(IF jobs[j].stop = "cancel" THEN "cancelled"
                           ELSE "needs_input"))
        BY <1>3, <3>1 DEF Project
      <4> QED
        BY <4>1 DEF Projections
    <3>2. CASE jobs[j].stop = "none" /\ ~mem[p].won
      <4>1. Rests(j, Ended("needs_human"))
        BY <1>3, <3>2 DEF Project
      <4> QED
        BY <4>1 DEF Projections
    <3>3. CASE jobs[j].stop = "none" /\ mem[p].won
      <4>1. ~ProjectRaises(j)
        BY <1>1, <3>3
      <4>2. CASE jobs[j].agent = "main"
        <5>1. ProjectMain(j, jobs[j].review)
          BY <1>3, <3>3, <4>2 DEF Project
        <5> QED
          BY <1>1, <3>3, <4>1, <4>2, <5>1, MainProjects
      <4>3. CASE jobs[j].agent # "main"
        <5>1. ProjectResult(j, runs[j].value)
          BY <1>3, <3>3, <4>3 DEF Project
        <5>2. jobs[j].agent \in Keys
          <6>1. jobs[j].agent \in Agents
            BY <1>1, JobTyped DEF Job
          <6> QED
            BY <1>3, <4>3, <6>1 DEF Agents
        <5>3. runs[j].status = "succeeded"
          BY <1>1, <3>3 DEF RunInv, Remembers, Project
        <5> QED
          BY <1>1, <3>3, <4>1, <5>1, <5>2, <5>3, ResultProjects
      <4> QED
        BY <4>2, <4>3
    <3> QED
      BY <3>1, <3>2, <3>3
  <2> QED
    BY <1>1, <1>3, <2>1, <2>2
<1> QED
  BY <1>2, <1>3

(* What the projection leaves, in terms of the case it starts from.        *)
LEMMA RetiredFiled ==
    ASSUME TypeInv, NEW j \in JobIds, NEW c \in Inspection,
           ConclusionsHold(c), c.active \in {NoJob} \cup JobIds
    PROVE  Filed(c, Applied(j), Retired(j), Tallied(j))
<1>1. /\ Applied(j) \in Seq(Job) /\ Len(Applied(j)) = Len(jobs)
      /\ DOMAIN Applied(j) = JobIds
  BY JobApplied
<1>2. /\ Retired(j) \in Seq(RunRecords) /\ Len(Retired(j)) = Len(jobs)
  BY RunReplaced DEF Retired, RunRecords
<1>3. /\ Tallied(j) \in Seq(Nat) /\ Len(Tallied(j)) = Len(jobs)
  BY JobTallied
<1> HIDE DEF Applied, Retired, Tallied
<1> QED
  BY <1>1, <1>2, <1>3 DEF Filed

LEMMA EndedFiled ==
    ASSUME TypeInv, NEW j \in JobIds,
           NEW status \in Closed \cup {"collecting", "active", "needs_input",
                                       "needs_human"}
    PROVE  Filed(Ended(status), Applied(j), Retired(j), Tallied(j))
<1>1. case \in Inspection /\ ConclusionsHold(case)
  BY DEF TypeInv, Filed
<1>2. /\ Ended(status) \in Inspection /\ ConclusionsHold(Ended(status))
      /\ Ended(status).active = NoJob
  BY <1>1, EndedTyped
<1> QED
  BY <1>2, RetiredFiled

LEMMA StoredFiled ==
    ASSUME TypeInv, NEW j \in JobIds, NEW value \in Findings,
           NEW vouched \in BOOLEAN, Stores(j, value, vouched)
    PROVE  LET s == StoredOf(j, value, vouched)
               key == jobs[j].agent
           IN
           /\ Filed(s, Applied(j), Retired(j), Tallied(j))
           /\ s.conf[key] = Conclusion(case.stamps + 1, value, j,
                                       jobs[j].snapshot, jobs[j].ev, vouched)
           /\ \A k \in Keys \ {key} :
                 s.conf[k] = IF k \in Dependents(key) THEN Unconfirmed
                             ELSE case.conf[k]
           /\ s.archived = IF key = "work_plan" THEN case.archived ELSE 0
           /\ s.plan = 0
           /\ s.active = NoJob /\ s.ev = case.ev /\ s.after = case.after
<1> DEFINE s == StoredOf(j, value, vouched)
           key == jobs[j].agent
           c == Ended(case.status)
           snapshot == jobs[j].snapshot
           ev == jobs[j].ev
<1>1. case \in Inspection /\ ConclusionsHold(case)
  BY DEF TypeInv, Filed
<1>2. case.status \in Closed \cup {"collecting", "active", "needs_input",
                                   "needs_human"}
  BY <1>1 DEF Inspection
<1>3. /\ c \in Inspection /\ ConclusionsHold(c)
      /\ c.active = NoJob /\ c.status = case.status
      /\ c.conf = case.conf /\ c.ev = case.ev
      /\ c.archived = case.archived /\ c.stamps = case.stamps
      /\ c.after = case.after
  BY <1>1, <1>2, EndedTyped
<1>4. key \in Keys /\ snapshot \in Stamps /\ ev \in Nat /\ j \in Nat
  BY JobTyped, Domains DEF Stores, Job
<1>5. s = Stored(c, key, value, j, snapshot, ev, vouched)
  BY DEF StoredOf
<1> HIDE DEF s, c, key, snapshot, ev
<1>6. /\ s \in Inspection /\ ConclusionsHold(s)
      /\ s.conf[key] = Conclusion(c.stamps + 1, value, j, snapshot, ev,
                                  vouched)
      /\ \A k \in Keys \ {key} :
            s.conf[k] = IF k \in Dependents(key) THEN Unconfirmed
                        ELSE c.conf[k]
      /\ s.archived = IF key = "work_plan" THEN c.archived ELSE 0
      /\ s.plan = 0 /\ s.active = c.active /\ s.ev = c.ev
      /\ s.after = c.after
  BY <1>3, <1>4, <1>5, StoredTyped
<1>7. Filed(s, Applied(j), Retired(j), Tallied(j))
  BY <1>3, <1>6, RetiredFiled
<1> QED
  BY <1>3, <1>6, <1>7 DEF s, key, snapshot, ev

-----------------------------------------------------------------------------
(* The records after a step                                                *)

FiledNext == Filed(case', jobs', runs', projected')

LEMMA RestsFiled ==
    ASSUME TypeInv, RunInv, NEW j \in JobIds, NEW c, Rests(j, c),
           Filed(c, Applied(j), Retired(j), Tallied(j))
    PROVE  FiledNext /\ RecordsGood
<1>1. /\ case' = c /\ jobs' = Applied(j) /\ runs' = Retired(j)
      /\ projected' = Tallied(j)
  BY DEF Rests
<1> HIDE DEF Applied, Retired, Tallied
<1> QED
  BY <1>1, RetiredGood, GoodRecords DEF FiledNext

LEMMA MainFiled ==
    ASSUME NEW c, NEW queue, NEW started, NEW tally,
           Filed(c, queue, started, tally), Good(queue, started),
           EnqueueMain(c, queue, started, tally)
    PROVE  FiledNext /\ RecordsGood
<1>1. /\ FiledNext
      /\ \/ OpenedJob("main", c, queue, started, tally)
         \/ RoundsOver(c, queue, started, tally)
  BY EnqueueMainOpens DEF FiledNext
<1>2. ASSUME RoundsOver(c, queue, started, tally)
      PROVE  RecordsGood
  <2>1. jobs' = queue /\ runs' = started
    BY <1>2 DEF RoundsOver
  <2> QED
    BY <2>1, GoodRecords
<1> QED
  BY <1>1, <1>2, OpenedGood

LEMMA EnqueuedFiled ==
    ASSUME NEW agent \in Agents, NEW c, NEW queue, NEW started, NEW tally,
           Filed(c, queue, started, tally), Good(queue, started),
           Enqueued(agent, c, queue, started, tally)
    PROVE  FiledNext /\ RecordsGood
BY EnqueuedOpens, OpenedGood DEF FiledNext

LEMMA ProjectionsFiled ==
    ASSUME TypeInv, RunInv, NEW j \in JobIds, Projections(j)
    PROVE  FiledNext /\ RecordsGood
<1>1. Good(Applied(j), Retired(j))
  BY RetiredGood
<1>2. case.status \in Closed \cup {"collecting", "active", "needs_input",
                                   "needs_human"}
  BY DEF TypeInv, Filed, Inspection
<1>3. \A key \in Keys : key \in Agents
  BY DEF Agents
<1>4. ASSUME NEW status \in {"needs_input", "needs_human", "cancelled"},
             Rests(j, Ended(status))
      PROVE  FiledNext /\ RecordsGood
  BY <1>4, EndedFiled, RestsFiled DEF Closed
<1>5. CASE EnqueueMain(Ended(case.status), Applied(j), Retired(j),
                       Tallied(j))
  BY <1>1, <1>2, <1>5, EndedFiled, MainFiled
<1>6. ASSUME NEW key \in Keys,
             Enqueued(key, Ended(case.status), Applied(j), Retired(j),
                      Tallied(j))
      PROVE  FiledNext /\ RecordsGood
  BY <1>1, <1>2, <1>3, <1>6, EndedFiled, EnqueuedFiled
<1>7. CASE Enqueued("observation", Ended("completed"), Applied(j),
                    Retired(j), Tallied(j))
  BY <1>1, <1>7, EndedFiled, EnqueuedFiled DEF Closed, Agents
<1>8. ASSUME NEW value \in Findings, NEW vouched \in BOOLEAN,
             Stores(j, value, vouched),
             EnqueueMain(StoredOf(j, value, vouched), Applied(j), Retired(j),
                         Tallied(j))
      PROVE  FiledNext /\ RecordsGood
  BY <1>1, <1>8, StoredFiled, MainFiled
<1> QED
  BY <1>4, <1>5, <1>6, <1>7, <1>8 DEF Projections

(* One job is edited and its run left alone.                               *)
LEMMA EditedGood ==
    ASSUME TypeInv, RunInv, NEW j \in JobIds,
           runs' = runs, DOMAIN jobs' = JobIds,
           \A i \in JobIds : i # j => jobs'[i] = jobs[i],
           jobs'[j].agent = jobs[j].agent,
           jobs'[j].applied = jobs[j].applied,
           jobs[j].known => jobs'[j].known,
           jobs'[j].known => runs[j] # NoRun,
           jobs'[j].review.accept =>
               jobs'[j].review.effective \in OutputsOf(jobs[j].agent)
    PROVE  RecordsGood
<1>1. JobInv(jobs[j], runs[j]) /\ Good(jobs, runs)
  BY KeptIsGood DEF RunInv
<1>2. JobInv(jobs'[j], runs[j])
  BY <1>1 DEF JobInv
<1>3. Advances(j, jobs'[j], runs[j])
  BY DEF Advances
<1>4. Good(jobs', runs')
  BY <1>1, <1>2, <1>3 DEF Good
<1> QED
  BY <1>4, GoodRecords

(* Records that a step leaves, or of which only the case or the runs       *)
(* change, are filed.                                                      *)
LEMMA RefiledRuns ==
    ASSUME TypeInv, UNCHANGED <<case, jobs, projected>>,
           runs' \in Seq(RunRecords), Len(runs') = Len(jobs)
    PROVE  FiledNext
BY DEF TypeInv, Filed, FiledNext

LEMMA RefiledCase ==
    ASSUME TypeInv, UNCHANGED <<jobs, runs, projected>>,
           case' \in Inspection, ConclusionsHold(case'),
           case'.active = case.active
    PROVE  FiledNext
BY DEF TypeInv, Filed, FiledNext

LEMMA RefiledJobs ==
    ASSUME TypeInv, UNCHANGED <<case, runs, projected>>,
           jobs' \in Seq(Job), Len(jobs') = Len(jobs), DOMAIN jobs' = JobIds
    PROVE  FiledNext
BY DEF TypeInv, Filed, FiledNext, JobIds

LEMMA KeptGood ==
    ASSUME RunInv, UNCHANGED <<jobs, runs>>
    PROVE  RecordsGood
BY KeptIsGood, GoodRecords

LEMMA RecordedFiled ==
    ASSUME TypeInv, RunInv, NEW j \in JobIds, NEW review \in Review,
           Record(j, review),
           review.accept => review.effective \in OutputsOf(jobs[j].agent)
    PROVE  FiledNext /\ RecordsGood
<1>1. /\ jobs' = [jobs EXCEPT ![j].review = review]
      /\ UNCHANGED <<case, runs, projected>>
  BY DEF Record, kernelVars
<1>2. /\ jobs' \in Seq(Job) /\ Len(jobs') = Len(jobs)
      /\ DOMAIN jobs' = JobIds
      /\ \A i \in JobIds : i # j => jobs'[i] = jobs[i]
      /\ jobs'[j].agent = jobs[j].agent
      /\ jobs'[j].known = jobs[j].known
      /\ jobs'[j].applied = jobs[j].applied
      /\ jobs'[j].review = review
  BY <1>1, ReviewRecorded
<1>3. FiledNext
  BY <1>1, <1>2, RefiledJobs
<1>4. jobs[j].known => runs[j] # NoRun
  BY DEF RunInv, JobInv
<1>5. RecordsGood
  BY <1>1, <1>2, <1>4, EditedGood
<1> QED
  BY <1>3, <1>5

(* The output a reviewer sees is one of the agent's.                       *)
LEMMA PendingHasOutput ==
    ASSUME TypeInv, RunInv, NEW j \in JobIds, AwaitsReviewer(j)
    PROVE  runs[j].value \in OutputsOf(jobs[j].agent)
           /\ jobs[j].agent # "observation"
<1>1. runs[j].review = "pending"
  BY DEF AwaitsReviewer
<1>2. runs[j] \notin {NoRun, Spent}
  BY <1>1, MarksAreNoRuns
<1> QED
  BY <1>1, <1>2 DEF RunInv, JobInv, Sound, HasOutput

LEMMA DispatchFiled ==
    ASSUME TypeInv, RunInv, NEW j \in JobIds,
           NEW action \in {"approve", "modify", "retry", "skip", "return",
                           "manual"},
           Dispatch(j, action)
    PROVE  FiledNext /\ RecordsGood
<1>0. jobs[j].agent = "main"
  BY DispatchRecords
<1>1. PICK review \in Review : DispatchReview(j, action, review)
  BY DispatchRecords
<1>2. AwaitsReviewer(j)
  BY DEF Dispatch
<1>3. OutputsOf("main") = Proposals
  BY DEF OutputsOf
<1>4. review.effective \in OutputsOf(jobs[j].agent)
  BY <1>0, <1>1, <1>2, <1>3, PendingHasOutput DEF DispatchReview
<1> QED
  BY <1>1, <1>4, RecordedFiled DEF DispatchReview

LEMMA ReviewResultFiled ==
    ASSUME TypeInv, RunInv, NEW j \in JobIds, NEW accept \in BOOLEAN,
           NEW edited \in Results, ReviewResult(j, accept, edited)
    PROVE  FiledNext /\ RecordsGood
<1>1. PICK review \in Review :
          /\ Record(j, review) /\ jobs[j].agent # "main"
          /\ review.effective \in Results
  BY ReviewResultRecords
<1>2. jobs[j].agent # "observation"
  BY PendingHasOutput DEF ReviewResult
<1>3. OutputsOf(jobs[j].agent) = Results
  BY <1>1, <1>2 DEF OutputsOf
<1> QED
  BY <1>1, <1>3, RecordedFiled

LEMMA CommandFiled ==
    ASSUME TypeInv, RunInv, Command
    PROVE  FiledNext /\ RecordsGood
<1> USE DEF kernelVars
<1>1. /\ case \in Inspection /\ ConclusionsHold(case)
      /\ Filed(case, jobs, runs, projected) /\ Good(jobs, runs)
  BY KeptIsGood DEF TypeInv, Filed
<1>2. CASE Start
  BY <1>1, <1>2, MainFiled DEF Start
<1>3. CASE Amend
  <2> DEFINE c == Invalidated(case)
  <2>1. case' = [c EXCEPT !.status = "collecting"]
    BY <1>3 DEF Amend
  <2>2. c \in Inspection /\ ConclusionsHold(c) /\ c.active = case.active
    BY <1>1, InvalidatedTyped
  <2> HIDE DEF c
  <2>3. /\ case' \in Inspection /\ ConclusionsHold(case')
        /\ case'.active = case.active
    BY <2>1, <2>2, StatusTyped
  <2> QED
    BY <1>3, <2>3, RefiledCase, KeptGood DEF Amend
<1>4. CASE FinishUpload
  BY <1>4, UploadedTyped, RefiledCase, KeptGood DEF FinishUpload
<1>5. CASE \/ UploadRefused
           \/ \E kind \in {"before", "context"} : BeginUpload(kind, NoValue)
           \/ \E issue \in KnownIssues(case) : BeginUpload("after", issue)
  <2>1. UNCHANGED <<case, jobs, runs, projected>>
    BY <1>5 DEF UploadRefused, BeginUpload
  <2> QED
    BY <1>1, <2>1, KeptGood DEF FiledNext
<1>6. CASE Archive
  <2> DEFINE c == [case EXCEPT !.archived = case.conf["report"].stamp]
  <2>1. /\ "report" \in Confirmed(case)
        /\ Enqueued("observation", c, jobs, runs, projected)
    BY <1>6 DEF Archive
  <2>2. c \in Inspection /\ ConclusionsHold(c) /\ c.active = case.active
    BY <1>1, <2>1, ArchivedTyped
  <2> HIDE DEF c
  <2>3. Filed(c, jobs, runs, projected)
    BY <1>1, <2>2 DEF Filed
  <2> QED
    BY <1>1, <2>1, <2>3, EnqueuedFiled DEF Agents
<1>7. CASE PublishPlan
  BY <1>7, PublishedTyped, RefiledCase, KeptGood DEF PublishPlan
<1>8. CASE CloseTasks
  BY <1>8, ClosedTyped, RefiledCase, KeptGood DEF CloseTasks
<1>9. ASSUME NEW key \in Keys, NEW value \in Findings,
             ManualResult(key, value)
      PROVE  FiledNext /\ RecordsGood
  <2>1. /\ case' \in Inspection /\ ConclusionsHold(case')
        /\ case'.active = case.active
    BY <1>9, ManualTyped
  <2> QED
    BY <1>9, <2>1, RefiledCase, KeptGood DEF ManualResult
<1>10. ASSUME NEW action \in {"return", "cancel"}, Stop(action)
       PROVE  FiledNext /\ RecordsGood
  <2>1. UNCHANGED <<runs, projected>>
    BY <1>10 DEF Stop
  <2>2. CASE /\ case.active # NoJob /\ case' = case
             /\ jobs' = [jobs EXCEPT ![case.active].stop = action]
    <3> DEFINE j == case.active
    <3>1. j \in JobIds /\ jobs' = [jobs EXCEPT ![j].stop = action]
      BY <1>1, <2>2 DEF Filed, JobIds
    <3> HIDE DEF j
    <3>2. /\ jobs' \in Seq(Job) /\ Len(jobs') = Len(jobs)
          /\ DOMAIN jobs' = JobIds
          /\ \A i \in JobIds : i # j => jobs'[i] = jobs[i]
          /\ jobs'[j].agent = jobs[j].agent
          /\ jobs'[j].known = jobs[j].known
          /\ jobs'[j].applied = jobs[j].applied
          /\ jobs'[j].review = jobs[j].review
      BY <3>1, StopMarked
    <3>3. /\ jobs[j].known => runs[j] # NoRun
          /\ jobs[j].review.accept =>
                 jobs[j].review.effective
                     \in OutputsOf(jobs[j].agent)
      BY <3>1 DEF RunInv, JobInv
    <3>4. RecordsGood
      BY <2>1, <3>1, <3>2, <3>3, EditedGood
    <3> QED
      BY <2>1, <2>2, <3>2, <3>4, RefiledJobs
  <2>3. CASE /\ case.active = NoJob /\ jobs' = jobs
             /\ case' \in Inspection /\ ConclusionsHold(case')
             /\ case'.active = NoJob
    BY <2>1, <2>3, RefiledCase, KeptGood
  <2> QED
    BY <1>10, <2>2, <2>3, StoppedTyped
<1>11. ASSUME NEW j \in JobIds,
              \/ \E action \in {"approve", "modify", "retry", "skip",
                                "return", "manual"} : Dispatch(j, action)
              \/ \E accept \in BOOLEAN, edited \in Results :
                    ReviewResult(j, accept, edited)
       PROVE  FiledNext /\ RecordsGood
  BY <1>11, DispatchFiled, ReviewResultFiled
<1> QED
  BY <1>2, <1>3, <1>4, <1>5, <1>6, <1>7, <1>8, <1>9, <1>10, <1>11
     DEF Command

LEMMA ProcessFiled ==
    ASSUME TypeInv, RunInv, NEW p \in Procs,
           \/ Flush(p) \/ Project(p) \/ ProjectNothing(p) \/ Die(p)
           \/ \E j \in JobIds : ScanJob(p, j) \/ ReadRun(p, j)
    PROVE  FiledNext /\ RecordsGood
<1> USE DEF kernelVars
<1> DEFINE j == mem[p].job
<1>1. /\ Filed(case, jobs, runs, projected) /\ Good(jobs, runs)
  BY KeptIsGood DEF TypeInv
<1>2. CASE FlushStop(p)
  <2>1. UNCHANGED <<case, jobs, projected>>
    BY <1>2 DEF FlushStop
  <2>2. /\ j \in JobIds /\ jobs[j].known
        /\ \/ runs' = runs
           \/ RunFollows(j)
           \/ runs[j] = NoRun
    BY <1>2, FlushStopFollows DEF RunInv, Remembers
  <2>3. runs[j] # NoRun
    BY <2>2 DEF RunInv, JobInv
  <2>4. CASE runs' = runs
    BY <1>1, <2>1, <2>4, KeptGood DEF FiledNext
  <2>5. CASE RunFollows(j)
    BY <2>1, <2>2, <2>5, FollowsGood, RefiledRuns
  <2> QED
    BY <2>2, <2>3, <2>4, <2>5
<1>3. CASE FlushReview(p)
  <2>1. UNCHANGED <<case, jobs, projected>>
    BY <1>3 DEF FlushReview
  <2>2. \A i \in JobIds : jobs[i].review.accept =>
                             jobs[i].review.effective \in Outputs(i)
    BY DEF RunInv, JobInv, Outputs
  <2>3. /\ j \in JobIds
        /\ \/ runs' = runs
           \/ RunDecided(j, DecisionOf(jobs[j].review),
                         jobs[j].review.effective)
    BY <1>3, <2>2, FlushReviewDecides
  <2>4. CASE runs' = runs
    BY <1>1, <2>1, <2>4, KeptGood DEF FiledNext
  <2>5. CASE RunDecided(j, DecisionOf(jobs[j].review),
                        jobs[j].review.effective)
    BY <2>1, <2>3, <2>5, DecidedGood, RefiledRuns
  <2> QED
    BY <2>3, <2>4, <2>5
<1>4. CASE FlushSubmit(p)
  <2>1. UNCHANGED <<case, jobs, projected>>
    BY <1>4 DEF FlushSubmit
  <2>2. j \in JobIds
    BY <1>4 DEF FlushSubmit, TypeInv
  <2>3. CASE runs' = runs
    BY <1>1, <2>1, <2>3, KeptGood DEF FiledNext
  <2>4. CASE runs' # runs
    <3> DEFINE gated == jobs[j].agent # "observation"
               x == Kernel!Submitted(gated)
    <3>1. runs[j] = NoRun /\ runs' = [runs EXCEPT ![j] = x]
      BY <1>4, <2>4 DEF FlushSubmit
    <3>2. /\ x \in Kernel!RunRecord /\ x.gated = gated
          /\ x.status = "queued" /\ x.step = "new" /\ x.review = "none"
      <4>1. gated \in BOOLEAN
        OBVIOUS
      <4> HIDE DEF gated
      <4> QED
        BY <4>1, SubmittedTyped
    <3> HIDE DEF x
    <3>3. /\ runs' \in Seq(RunRecords) /\ Len(runs') = Len(jobs)
          /\ runs'[j] = x /\ \A i \in JobIds : i # j => runs'[i] = runs[i]
      BY <2>2, <3>1, <3>2, RunReplaced DEF RunRecords
    <3>4. JobInv(jobs[j], runs[j])
      BY <2>2 DEF RunInv
    <3>5. JobInv(jobs[j], x)
      BY <3>1, <3>2, <3>4, MarksAreNoRuns DEF JobInv, Sound, HasOutput
    <3>6. Advances(j, jobs[j], x)
      BY <3>1, <3>2, MarksAreNoRuns DEF Advances
    <3>7. Good(jobs', runs')
      BY <1>1, <2>1, <3>3, <3>5, <3>6 DEF Good
    <3> QED
      BY <2>1, <3>3, <3>7, RefiledRuns, GoodRecords
  <2> QED
    BY <2>3, <2>4
<1>5. CASE FlushRecord(p)
  <2>1. /\ UNCHANGED <<case, runs, projected>>
        /\ jobs' = [jobs EXCEPT ![j].known = TRUE]
    BY <1>5 DEF FlushRecord
  <2>2. j \in JobIds /\ runs[j] # NoRun
    BY <1>5 DEF FlushRecord, TypeInv, RunInv, Remembers
  <2>3. /\ jobs' \in Seq(Job) /\ Len(jobs') = Len(jobs)
        /\ DOMAIN jobs' = JobIds
        /\ \A i \in JobIds : i # j => jobs'[i] = jobs[i]
        /\ jobs'[j].agent = jobs[j].agent /\ jobs'[j].known
        /\ jobs'[j].applied = jobs[j].applied
        /\ jobs'[j].review = jobs[j].review
    BY <2>1, <2>2, IdNoted
  <2>4. jobs[j].review.accept =>
            jobs[j].review.effective \in OutputsOf(jobs[j].agent)
    BY <2>2 DEF RunInv, JobInv
  <2>5. RecordsGood
    BY <2>1, <2>2, <2>3, <2>4, EditedGood
  <2> QED
    BY <2>1, <2>3, <2>5, RefiledJobs
<1>6. CASE Project(p)
  <2>1. /\ j \in JobIds
        /\ Rests(j, case) \/ Projections(j)
    BY <1>6, ProjectEffects
  <2>2. Filed(case, Applied(j), Retired(j), Tallied(j))
    BY <1>1, <2>1, RetiredFiled DEF Filed, JobIds
  <2> QED
    BY <2>1, <2>2, RestsFiled, ProjectionsFiled
<1>7. CASE \/ ProjectNothing(p) \/ Die(p)
           \/ \E i \in JobIds : ScanJob(p, i) \/ ReadRun(p, i)
  <2>1. UNCHANGED <<case, jobs, runs, projected>>
    BY <1>7 DEF ProjectNothing, Die, ScanJob, ReadRun
  <2> QED
    BY <1>1, <2>1, KeptGood DEF FiledNext
<1> QED
  BY <1>2, <1>3, <1>4, <1>5, <1>6, <1>7 DEF Flush

LEMMA KernelFiled ==
    ASSUME TypeInv, RunInv, NEW j \in JobIds,
           KernelStep(j) \/ Disturb(j) \/ Reconcile(j) \/ NativeDecide(j)
    PROVE  FiledNext /\ RecordsGood
<1>1. UNCHANGED <<case, jobs, projected>>
  BY DEF KernelStep, Disturb, Reconcile, NativeDecide
<1>2. CASE NativeDecide(j)
  BY <1>1, <1>2, NativeDecides, DecidedGood, RefiledRuns
<1>3. CASE KernelStep(j) \/ Disturb(j) \/ Reconcile(j)
  BY <1>1, <1>3, KernelActionFollows, FollowsGood, RefiledRuns
<1> QED
  BY <1>2, <1>3

(* What the processes remember and the upload.                             *)
MemNext ==
    /\ mem' \in [Procs -> Memory]
    /\ \A p \in Procs : mem'[p].at # "idle" =>
                           mem'[p].job \in JobIds' /\ Remembers(mem[p])'

LEMMA RemembersOn ==
    ASSUME RecordsGood, NEW m, m.job \in JobIds, Remembers(m)
    PROVE  /\ m.job \in DOMAIN jobs'
           /\ m.at = "cancel" => jobs'[m.job].known
           /\ m.at = "record" => runs'[m.job] # NoRun
           /\ m.at = "project" /\ m.won =>
                  \/ jobs'[m.job].applied
                  \/ runs'[m.job].status = "succeeded"
BY DEF RecordsGood, Advances, Remembers

LEMMA MemKept ==
    ASSUME TypeInv, RunInv, RecordsGood,
           mem' \in [Procs -> Memory],
           \A p \in Procs : mem'[p] = mem[p] \/ mem'[p] = Asleep
    PROVE  MemNext
<1>1. \A p \in Procs : mem[p].at # "idle" =>
          mem[p].job \in JobIds /\ Remembers(mem[p])
  BY DEF TypeInv, RunInv
<1>2. ASSUME NEW p \in Procs, mem'[p].at # "idle"
      PROVE  mem'[p].job \in JobIds' /\ Remembers(mem[p])'
  <2>1. mem'[p] = mem[p]
    BY <1>2 DEF Asleep
  <2> DEFINE m == mem[p]
  <2>2. m.job \in JobIds /\ Remembers(m)
    BY <1>1, <1>2, <2>1
  <2> HIDE DEF m
  <2>3. /\ m.job \in DOMAIN jobs'
        /\ m.at = "cancel" => jobs'[m.job].known
        /\ m.at = "record" => runs'[m.job] # NoRun
        /\ m.at = "project" /\ m.won =>
               \/ jobs'[m.job].applied
               \/ runs'[m.job].status = "succeeded"
    BY <2>2, RemembersOn
  <2> QED
    BY <2>1, <2>3 DEF m, JobIds, Remembers
<1> QED
  BY <1>2 DEF MemNext

LEMMA SleepKeeps ==
    ASSUME TypeInv, NEW p \in Procs, Sleep(p)
    PROVE  /\ mem' \in [Procs -> Memory]
           /\ \A q \in Procs : mem'[q] = mem[q] \/ mem'[q] = Asleep
<1>1. Asleep \in Memory
  BY DEF Asleep, Memory, NoJob
<1> HIDE DEF Memory, Asleep
<1> QED
  BY <1>1 DEF TypeInv, Sleep

(* A process that starts to remember something of job j.                   *)
LEMMA MemWritten ==
    ASSUME TypeInv, RunInv, RecordsGood, NEW p \in Procs, NEW m \in Memory,
           mem' = [mem EXCEPT ![p] = m], m.job \in JobIds,
           m.at = "cancel" => jobs'[m.job].known,
           m.at = "record" => runs'[m.job] # NoRun,
           m.at = "project" /\ m.won => runs'[m.job].status = "succeeded"
    PROVE  MemNext
<1>1. mem' \in [Procs -> Memory] /\ mem'[p] = m
  BY DEF TypeInv
<1>2. m.job \in JobIds' /\ Remembers(mem[p])'
  BY <1>1 DEF RecordsGood, JobIds, Remembers
<1>3. ASSUME NEW q \in Procs, q # p, mem'[q].at # "idle"
      PROVE  mem'[q].job \in JobIds' /\ Remembers(mem[q])'
  <2>1. mem'[q] = mem[q]
    BY <1>3 DEF TypeInv
  <2> DEFINE n == mem[q]
  <2>2. n.job \in JobIds /\ Remembers(n)
    BY <1>3, <2>1 DEF TypeInv, RunInv
  <2> HIDE DEF n
  <2>3. /\ n.job \in DOMAIN jobs'
        /\ n.at = "cancel" => jobs'[n.job].known
        /\ n.at = "record" => runs'[n.job] # NoRun
        /\ n.at = "project" /\ n.won =>
               \/ jobs'[n.job].applied
               \/ runs'[n.job].status = "succeeded"
    BY <2>2, RemembersOn
  <2> QED
    BY <2>1, <2>3 DEF n, JobIds, Remembers
<1> QED
  BY <1>1, <1>2, <1>3 DEF MemNext

LEMMA MemStep ==
    ASSUME TypeInv, RunInv, RecordsGood, [Next]_vars
    PROVE  MemNext
<1>1. CASE UNCHANGED mem
  BY <1>1, MemKept DEF TypeInv
<1>2. ASSUME NEW p \in Procs, Sleep(p)
      PROVE  MemNext
  BY <1>2, SleepKeeps, MemKept
<1>3. ASSUME NEW p \in Procs, NEW j \in JobIds, ScanJob(p, j)
      PROVE  MemNext
  <2> DEFINE at == IF jobs[j].stop # "none" /\ jobs[j].known THEN "cancel"
                   ELSE IF jobs[j].known THEN "approve" ELSE "submit"
             m == [Asleep EXCEPT !.job = j, !.at = at]
  <2>1. mem' = [mem EXCEPT ![p] = m] /\ UNCHANGED <<jobs, runs>>
    BY <1>3 DEF ScanJob, kernelVars
  <2>2. /\ at \in {"cancel", "approve", "submit"}
        /\ at = "cancel" => jobs[j].known
    OBVIOUS
  <2>3. j \in Nat
    BY Domains
  <2> HIDE DEF at
  <2>4. m \in Memory /\ m.job = j /\ m.at = at
    BY <2>2, <2>3 DEF Memory, Asleep
  <2> HIDE DEF m
  <2> QED
    BY <2>1, <2>2, <2>4, MemWritten
<1>4. ASSUME NEW p \in Procs, NEW j \in JobIds, ReadRun(p, j)
      PROVE  MemNext
  <2> DEFINE won == runs[j].status = "succeeded"
             m == [at |-> "project", job |-> j, won |-> won]
  <2>1. mem' = [mem EXCEPT ![p] = m] /\ UNCHANGED <<jobs, runs>>
    BY <1>4 DEF ReadRun, kernelVars
  <2>2. won \in BOOLEAN /\ (won => runs[j].status = "succeeded")
    OBVIOUS
  <2>3. j \in Nat
    BY Domains
  <2> HIDE DEF won
  <2>4. m \in Memory /\ m.job = j /\ m.at = "project" /\ m.won = won
    BY <2>2, <2>3 DEF Memory
  <2> HIDE DEF m
  <2> QED
    BY <2>1, <2>2, <2>4, MemWritten
<1>5. ASSUME NEW p \in Procs, FlushSubmit(p)
      PROVE  MemNext
  <2> DEFINE m == [mem[p] EXCEPT !.at = "record"]
             j == mem[p].job
  <2>1. mem' = [mem EXCEPT ![p] = m]
    BY <1>5 DEF FlushSubmit
  <2>2. j \in JobIds /\ mem[p] \in Memory
    BY <1>5 DEF FlushSubmit, TypeInv
  <2>3. m \in Memory /\ m.job = j /\ m.at = "record"
    BY <2>2 DEF Memory
  <2>4. runs'[j] # NoRun
    <3>1. \/ runs[j] # NoRun /\ runs' = runs
          \/ \E gated \in BOOLEAN :
                runs' = [runs EXCEPT ![j] = Kernel!Submitted(gated)]
      BY <1>5 DEF FlushSubmit
    <3>2. ASSUME NEW gated \in BOOLEAN,
                 runs' = [runs EXCEPT ![j] = Kernel!Submitted(gated)]
          PROVE  runs'[j] = Kernel!Submitted(gated)
      BY <2>2, <3>2, Domains
    <3> QED
      BY <3>1, <3>2, SubmittedTyped, MarksAreNoRuns
  <2> HIDE DEF m, j
  <2> QED
    BY <2>1, <2>2, <2>3, <2>4, MemWritten
<1>6. CASE Command
  <2>1. UNCHANGED mem
    BY <1>6 DEF Command, Start, Amend, FinishUpload, UploadRefused, Archive,
       PublishPlan, CloseTasks, BeginUpload, ManualResult, Stop, Dispatch,
       ReviewResult, Record
  <2> QED
    BY <1>1, <2>1
<1>7. ASSUME NEW j \in JobIds,
             KernelStep(j) \/ Disturb(j) \/ Reconcile(j) \/ NativeDecide(j)
      PROVE  MemNext
  BY <1>1, <1>7 DEF KernelStep, Disturb, Reconcile, NativeDecide
<1>8. ASSUME NEW p \in Procs,
             \/ FlushStop(p) \/ FlushReview(p) \/ FlushRecord(p)
             \/ Project(p) \/ ProjectNothing(p) \/ Die(p)
      PROVE  MemNext
  BY <1>2, <1>8 DEF FlushStop, FlushReview, FlushRecord, Project,
     ProjectNothing, Die
<1> QED
  BY <1>1, <1>3, <1>4, <1>5, <1>6, <1>7, <1>8 DEF Next, Flush, vars

UploadNext ==
    /\ upload' \in Uploads
    /\ upload'.kind = "after" => upload'.issue \in Issues

LEMMA SavedTyped ==
    ASSUME TypeInv, upload' = [upload EXCEPT !.fresh = FALSE]
    PROVE  UploadNext /\ ~upload'.fresh
<1> HIDE DEF Issues
<1> QED
  BY DEF TypeInv, Uploads, UploadNext

LEMMA NoUploadTyped ==
    ASSUME upload' = NoUpload
    PROVE  UploadNext /\ ~upload'.fresh
<1> HIDE DEF Issues
<1> QED
  BY DEF NoUpload, Uploads, UploadNext

(* The issues of a conclusion are issues of what was found.                *)
LEMMA KnownAreIssues ==
    ASSUME NEW c, ConclusionsHold(c)
    PROVE  KnownIssues(c) \subseteq Issues
BY DEF KnownIssues, Confirmed, ConclusionsHold, Issues

LEMMA BegunUpload ==
    ASSUME TypeInv, NEW kind \in {"before", "after", "context"}, NEW issue,
           BeginUpload(kind, issue),
           kind # "after" => issue = NoValue
    PROVE  /\ UploadNext /\ upload'.kind = kind
           /\ kind = "after" => /\ upload'.issue = issue
                                /\ issue \in KnownIssues(case)
                                /\ upload'.stamp = case.conf["issues"].stamp
<1> DEFINE stamp == IF "issues" \in Keys THEN case.conf["issues"].stamp ELSE 0
           fresh == TRUE
<1>1. upload' = [kind |-> kind, issue |-> issue, fresh |-> fresh,
                 stamp |-> stamp]
  BY DEF BeginUpload
<1>2. case \in Inspection /\ ConclusionsHold(case)
  BY DEF TypeInv, Filed
<1>3. stamp \in Nat
  BY <1>2 DEF Inspection, Confirmation
<1>4. kind = "after" => issue \in KnownIssues(case)
  BY DEF BeginUpload
<1>5. kind = "after" => stamp = case.conf["issues"].stamp
  BY <1>4 DEF KnownIssues, Confirmed
<1>6. kind = "after" => issue \in Issues
  BY <1>2, <1>4, KnownAreIssues
<1>7. fresh \in BOOLEAN /\ issue \in Issues \cup {NoValue}
  BY <1>6
<1> HIDE DEF stamp, fresh, Issues
<1>8. /\ upload' \in Uploads /\ upload'.kind = kind /\ upload'.issue = issue
      /\ upload'.stamp = stamp
  BY <1>1, <1>3, <1>7 DEF Uploads
<1> QED
  BY <1>4, <1>5, <1>6, <1>8 DEF UploadNext

(* A step saves the case, ends or begins an upload, or leaves the case and *)
(* the upload alone.                                                       *)
LEMMA UploadSteps ==
    ASSUME TypeInv, RunInv, [Next]_vars
    PROVE  \/ upload' = [upload EXCEPT !.fresh = FALSE]
           \/ upload' = NoUpload
           \/ /\ UNCHANGED case
              /\ \/ \E kind \in {"before", "context"} :
                       BeginUpload(kind, NoValue)
                 \/ \E issue \in KnownIssues(case) :
                       BeginUpload("after", issue)
           \/ upload' = upload /\ (UNCHANGED case \/ CloseTasks)
<1>1. CASE UNCHANGED vars
  BY <1>1 DEF vars
<1>2. CASE Command
  BY <1>2 DEF Command, Start, Amend, FinishUpload, UploadRefused, Archive,
     PublishPlan, CloseTasks, BeginUpload, ManualResult, Stop, Dispatch,
     ReviewResult, Record, Saved
<1>3. ASSUME NEW p \in Procs, Project(p)
      PROVE  \/ upload' = [upload EXCEPT !.fresh = FALSE]
             \/ upload' = upload /\ UNCHANGED case
  BY <1>3, ProjectEffects DEF Rests
<1>4. ASSUME NEW p \in Procs,
             \/ Flush(p) \/ ProjectNothing(p) \/ Die(p)
             \/ \E j \in JobIds : ScanJob(p, j) \/ ReadRun(p, j)
      PROVE  UNCHANGED <<case, upload>>
  BY <1>4 DEF Flush, FlushStop, FlushReview, FlushSubmit, FlushRecord,
     ProjectNothing, Die, ScanJob, ReadRun
<1>5. ASSUME NEW j \in JobIds,
             KernelStep(j) \/ Disturb(j) \/ Reconcile(j) \/ NativeDecide(j)
      PROVE  UNCHANGED <<case, upload>>
  BY <1>5 DEF KernelStep, Disturb, Reconcile, NativeDecide
<1> QED
  BY <1>1, <1>2, <1>3, <1>4, <1>5 DEF Next

LEMMA UploadStep ==
    ASSUME TypeInv, RunInv, [Next]_vars
    PROVE  UploadNext
<1>1. CASE upload' = upload
  BY <1>1 DEF TypeInv, UploadNext
<1> QED
  BY <1>1, UploadSteps, SavedTyped, NoUploadTyped, BegunUpload

-----------------------------------------------------------------------------
(* The records are typed and the runs stand to their jobs                  *)

LEMMA InitTyped ==
    ASSUME Init
    PROVE  TypeInv /\ RunInv
<1> DEFINE conf == [k \in Keys |-> Unconfirmed]
           c == [status |-> "collecting", active |-> NoJob, ev |-> 1,
                 before |-> FALSE, after |-> {}, conf |-> conf,
                 archived |-> 0, plan |-> 0, tasks |-> {}, rounds |-> 0,
                 stamps |-> 0]
<1>1. case = c
  BY DEF Init
<1>2. conf \in [Keys -> Confirmation] /\ \A k \in Keys : conf[k].stamp = 0
  BY UnconfirmedTyped DEF Unconfirmed
<1> HIDE DEF conf
<1>3. c \in Inspection /\ c.conf = conf /\ c.active = NoJob
  <2> HIDE DEF Confirmation, Issues
  <2> QED
    BY <1>2 DEF Inspection, NoJob
<1> HIDE DEF c
<1>4. ConclusionsHold(case)
  BY <1>1, <1>2, <1>3 DEF ConclusionsHold
<1>5. Filed(case, jobs, runs, projected)
  <2>1. jobs = <<>> /\ runs = <<>> /\ projected = <<>>
    BY DEF Init
  <2> HIDE DEF Job, RunRecords, Inspection
  <2> QED
    BY <1>1, <1>3, <1>4, <2>1 DEF Filed
<1>6. /\ mem \in [Procs -> Memory]
      /\ \A p \in Procs : mem[p].at = "idle"
  BY DEF Init, Asleep, Memory, NoJob
<1>7. upload \in Uploads /\ upload.kind = "none"
  <2> HIDE DEF Issues
  <2> QED
    BY DEF Init, NoUpload, Uploads
<1>8. JobIds = {}
  BY DEF Init, JobIds
<1> QED
  BY <1>5, <1>6, <1>7, <1>8 DEF TypeInv, RunInv

LEMMA TypedStep ==
    ASSUME TypeInv, RunInv, [Next]_vars
    PROVE  TypeInv' /\ RunInv' /\ RecordsGood
<1>1. FiledNext /\ RecordsGood
  <2>1. CASE UNCHANGED vars
    BY <2>1, KeptGood DEF TypeInv, FiledNext, vars
  <2> QED
    BY <2>1, CommandFiled, ProcessFiled, KernelFiled DEF Next
<1>2. MemNext /\ UploadNext
  BY <1>1, MemStep, UploadStep
<1>3. TypeInv'
  BY <1>1, <1>2 DEF TypeInv, FiledNext, MemNext, UploadNext
<1>4. RunInv'
  BY <1>1, <1>2 DEF RunInv, RecordsGood, MemNext, JobIds
<1> QED
  BY <1>1, <1>3, <1>4

LEMMA RecordsHold == Spec => [](TypeInv /\ RunInv)
<1>1. Init => TypeInv /\ RunInv
  BY InitTyped
<1>2. TypeInv /\ RunInv /\ [Next]_vars => (TypeInv /\ RunInv)'
  BY TypedStep
<1> QED
  BY <1>1, <1>2, PTL DEF Spec

LEMMA TypedState ==
    ASSUME TypeInv
    PROVE  TypeOK
<1>1. /\ case \in Inspection /\ case.active \in {NoJob} \cup JobIds
      /\ mem \in [Procs -> Memory]
  BY DEF TypeInv, Filed, JobIds
<1>2. case \in [status : Closed \cup {"collecting", "active", "needs_input",
                                      "needs_human"},
                active : {NoJob} \cup JobIds, ev : Nat,
                before : BOOLEAN, after : SUBSET (Issues \X Nat),
                conf : [Keys -> Confirmation], archived : Nat, plan : Nat,
                tasks : SUBSET Nat, rounds : Nat, stamps : Nat]
  <2> HIDE DEF Confirmation, Issues, JobIds
  <2> QED
    BY <1>1 DEF Inspection
<1>3. \A j \in JobIds : jobs[j] \in Job /\ runs[j] \in RunRecords
                         /\ projected[j] \in Nat
  BY JobTyped
<1>4. /\ runs \in [JobIds -> RunRecords] /\ projected \in [JobIds -> Nat]
  <2>1. /\ runs \in Seq(RunRecords) /\ projected \in Seq(Nat)
        /\ DOMAIN runs = JobIds /\ DOMAIN projected = JobIds
    BY Domains DEF TypeInv, Filed
  <2>2. /\ runs = [i \in DOMAIN runs |-> runs[i]]
        /\ projected = [i \in DOMAIN projected |-> projected[i]]
    <3> HIDE DEF RunRecords
    <3> QED
      BY <2>1
  <2> HIDE DEF RunRecords, JobIds
  <2> QED
    BY <1>3, <2>1, <2>2
<1>5. upload.kind \in {"none", "before", "after", "context"}
  BY DEF TypeInv, Uploads
<1> QED
  BY <1>1, <1>2, <1>3, <1>4, <1>5 DEF TypeOK, RunRecords

(* The records of an inspection keep their types.  (The invariant that is  *)
(* proved says more: every job has the run that stands to it as JobInv     *)
(* says, and no process works on a job that does not exist.)               *)
THEOREM TypeCorrect == Spec => []TypeOK
<1>1. TypeInv /\ RunInv => TypeOK
  BY TypedState
<1> QED
  BY <1>1, RecordsHold, PTL
-----------------------------------------------------------------------------
(* The steps as the invariants see them                                    *)

(* No job comes, goes or is applied.                                       *)
JobsLike ==
    /\ DOMAIN jobs' = JobIds
    /\ \A i \in JobIds : /\ jobs'[i].agent = jobs[i].agent
                         /\ jobs'[i].ev = jobs[i].ev
                         /\ jobs'[i].snapshot = jobs[i].snapshot
                         /\ jobs'[i].applied = jobs[i].applied
    /\ projected' = projected

LEMMA RecordedLike ==
    ASSUME TypeInv, NEW j \in JobIds, NEW review \in Review,
           Record(j, review)
    PROVE  /\ JobsLike /\ UNCHANGED case
           /\ jobs'[j].review = review
           /\ \A i \in JobIds : i # j => jobs'[i].review = jobs[i].review
<1>1. /\ jobs' = [jobs EXCEPT ![j].review = review]
      /\ UNCHANGED <<case, projected>>
  BY DEF Record
<1>2. /\ DOMAIN jobs' = JobIds
      /\ \A i \in JobIds : i # j => jobs'[i] = jobs[i]
      /\ jobs'[j].agent = jobs[j].agent /\ jobs'[j].ev = jobs[j].ev
      /\ jobs'[j].snapshot = jobs[j].snapshot
      /\ jobs'[j].applied = jobs[j].applied
      /\ jobs'[j].review = review
  BY <1>1, ReviewRecorded
<1> QED
  BY <1>1, <1>2 DEF JobsLike

LEMMA StoppedLike ==
    ASSUME TypeInv, NEW action \in {"return", "cancel"}, Stop(action)
    PROVE  /\ JobsLike
           /\ \A i \in JobIds : jobs'[i].review = jobs[i].review
<1>1. projected' = projected
  BY DEF Stop
<1>2. CASE /\ case.active # NoJob
           /\ jobs' = [jobs EXCEPT ![case.active].stop = action]
  <2> DEFINE j == case.active
  <2>1. j \in JobIds /\ jobs' = [jobs EXCEPT ![j].stop = action]
    BY <1>2 DEF TypeInv, Filed, JobIds
  <2> HIDE DEF j
  <2>2. /\ DOMAIN jobs' = JobIds
        /\ \A i \in JobIds : i # j => jobs'[i] = jobs[i]
        /\ jobs'[j].agent = jobs[j].agent /\ jobs'[j].ev = jobs[j].ev
        /\ jobs'[j].snapshot = jobs[j].snapshot
        /\ jobs'[j].applied = jobs[j].applied
        /\ jobs'[j].review = jobs[j].review
    BY <2>1, StopMarked
  <2> QED
    BY <1>1, <2>2 DEF JobsLike
<1>3. CASE jobs' = jobs
  BY <1>1, <1>3 DEF JobsLike, JobIds
<1> QED
  BY <1>2, <1>3, StoppedTyped

LEMMA NotedLike ==
    ASSUME TypeInv, NEW p \in Procs, FlushRecord(p)
    PROVE  /\ JobsLike
           /\ \A i \in JobIds : jobs'[i].review = jobs[i].review
<1> DEFINE j == mem[p].job
<1>1. /\ jobs' = [jobs EXCEPT ![j].known = TRUE] /\ projected' = projected
      /\ j \in JobIds
  BY DEF FlushRecord, TypeInv
<1> HIDE DEF j
<1>2. /\ DOMAIN jobs' = JobIds
      /\ \A i \in JobIds : i # j => jobs'[i] = jobs[i]
      /\ jobs'[j].agent = jobs[j].agent /\ jobs'[j].ev = jobs[j].ev
      /\ jobs'[j].snapshot = jobs[j].snapshot
      /\ jobs'[j].applied = jobs[j].applied
      /\ jobs'[j].review = jobs[j].review
  BY <1>1, IdNoted
<1> QED
  BY <1>1, <1>2 DEF JobsLike

(* The reviews of the jobs stay as they are.                               *)
ReviewsKept == \A i \in JobIds : jobs'[i].review = jobs[i].review

Reviewing ==
    \E j \in JobIds :
       \/ \E action \in {"approve", "modify", "retry", "skip", "return",
                         "manual"} : Dispatch(j, action)
       \/ \E accept \in BOOLEAN, edited \in Results :
             ReviewResult(j, accept, edited)

Managing ==
    \/ Start \/ Amend \/ FinishUpload \/ Archive \/ PublishPlan \/ CloseTasks
    \/ \E key \in Keys, value \in Findings : ManualResult(key, value)
    \/ \E action \in {"return", "cancel"} : Stop(action)

LEMMA JobsUntouched ==
    ASSUME UNCHANGED <<jobs, projected>>
    PROVE  JobsLike /\ ReviewsKept
BY DEF JobsLike, ReviewsKept, JobIds

(* Beside the commands and the projections nothing changes the case.       *)
LEMMA StepKinds ==
    ASSUME TypeInv, [Next]_vars
    PROVE  \/ Managing
           \/ Reviewing
           \/ \E p \in Procs : Project(p)
           \/ UNCHANGED case /\ JobsLike /\ ReviewsKept
<1>1. CASE UNCHANGED vars
  BY <1>1, JobsUntouched DEF vars
<1>2. CASE Command
  <2>1. CASE \/ UploadRefused
             \/ \E kind \in {"before", "context"} : BeginUpload(kind, NoValue)
             \/ \E issue \in KnownIssues(case) : BeginUpload("after", issue)
    BY <2>1, JobsUntouched DEF UploadRefused, BeginUpload
  <2> QED
    BY <1>2, <2>1 DEF Command, Managing, Reviewing
<1>3. ASSUME NEW p \in Procs, FlushRecord(p)
      PROVE  UNCHANGED case /\ JobsLike /\ ReviewsKept
  BY <1>3, NotedLike DEF FlushRecord, ReviewsKept
<1>4. ASSUME NEW p \in Procs,
             \/ FlushStop(p) \/ FlushReview(p) \/ FlushSubmit(p)
             \/ ProjectNothing(p) \/ Die(p)
             \/ \E j \in JobIds : ScanJob(p, j) \/ ReadRun(p, j)
      PROVE  UNCHANGED <<case, jobs, projected>>
  BY <1>4 DEF FlushStop, FlushReview, FlushSubmit, ProjectNothing, Die,
     ScanJob, ReadRun
<1>5. ASSUME NEW j \in JobIds,
             KernelStep(j) \/ Disturb(j) \/ Reconcile(j) \/ NativeDecide(j)
      PROVE  UNCHANGED <<case, jobs, projected>>
  BY <1>5 DEF KernelStep, Disturb, Reconcile, NativeDecide
<1> QED
  BY <1>1, <1>2, <1>3, <1>4, <1>5, JobsUntouched DEF Next, Flush

LEMMA ManagingLike ==
    ASSUME TypeInv, Managing, ~Start, ~Archive
    PROVE  JobsLike /\ ReviewsKept
<1>1. CASE Amend \/ FinishUpload \/ PublishPlan \/ CloseTasks
  BY <1>1, JobsUntouched DEF Amend, FinishUpload, PublishPlan, CloseTasks
<1>2. ASSUME NEW key \in Keys, NEW value \in Findings,
             ManualResult(key, value)
      PROVE  JobsLike /\ ReviewsKept
  BY <1>2, JobsUntouched DEF ManualResult
<1>3. ASSUME NEW action \in {"return", "cancel"}, Stop(action)
      PROVE  JobsLike /\ ReviewsKept
  BY <1>3, StoppedLike DEF ReviewsKept
<1> QED
  BY <1>1, <1>2, <1>3 DEF Managing

LEMMA ReviewingRecords ==
    ASSUME TypeInv, Reviewing
    PROVE  /\ UNCHANGED case /\ JobsLike
           /\ case.active \in JobIds
           /\ \A i \in JobIds : i # case.active =>
                                   jobs'[i].review = jobs[i].review
           /\ \/ \E action \in {"approve", "modify", "retry", "skip",
                                "return", "manual"} :
                    DispatchReview(case.active, action,
                                   jobs'[case.active].review)
              \/ /\ jobs[case.active].agent # "main"
                 /\ jobs'[case.active].review.action
                        \in {"confirm_result", "reject_result"}
                 /\ jobs'[case.active].review.selected = "none"
<1>1. ASSUME NEW j \in JobIds,
             NEW action \in {"approve", "modify", "retry", "skip", "return",
                             "manual"},
             Dispatch(j, action)
      PROVE  /\ j = case.active /\ UNCHANGED case /\ JobsLike
             /\ \A i \in JobIds : i # j => jobs'[i].review = jobs[i].review
             /\ DispatchReview(j, action, jobs'[j].review)
  <2>1. PICK review \in Review : DispatchReview(j, action, review)
    BY <1>1, DispatchRecords
  <2>2. j = case.active
    BY <1>1, DispatchRecords
  <2>3. Record(j, review)
    BY <2>1 DEF DispatchReview
  <2>4. /\ JobsLike /\ UNCHANGED case
        /\ jobs'[j].review = review
        /\ \A i \in JobIds : i # j => jobs'[i].review = jobs[i].review
    BY <2>3, RecordedLike
  <2> QED
    BY <2>1, <2>2, <2>4
<1>2. ASSUME NEW j \in JobIds, NEW accept \in BOOLEAN,
             NEW edited \in Results, ReviewResult(j, accept, edited)
      PROVE  /\ j = case.active /\ UNCHANGED case /\ JobsLike
             /\ \A i \in JobIds : i # j => jobs'[i].review = jobs[i].review
             /\ jobs[j].agent # "main"
             /\ jobs'[j].review.action \in {"confirm_result", "reject_result"}
             /\ jobs'[j].review.selected = "none"
  <2>1. /\ j = case.active /\ jobs[j].agent # "main"
        /\ \E review \in Review :
              /\ Record(j, review)
              /\ review.action \in {"confirm_result", "reject_result"}
              /\ review.selected = "none"
    BY <1>2, ReviewResultRecords
  <2>2. PICK review \in Review :
            /\ Record(j, review)
            /\ review.action \in {"confirm_result", "reject_result"}
            /\ review.selected = "none"
    BY <2>1
  <2>3. /\ JobsLike /\ UNCHANGED case
        /\ jobs'[j].review = review
        /\ \A i \in JobIds : i # j => jobs'[i].review = jobs[i].review
    BY <2>2, RecordedLike
  <2> QED
    BY <2>1, <2>2, <2>3
<1>3. CASE \E j \in JobIds :
              \E action \in {"approve", "modify", "retry", "skip",
                             "return", "manual"} : Dispatch(j, action)
  BY <1>1, <1>3
<1>4. CASE \E j \in JobIds :
              \E accept \in BOOLEAN, edited \in Results :
                 ReviewResult(j, accept, edited)
  BY <1>2, <1>4
<1> QED
  BY <1>3, <1>4 DEF Reviewing

(* Start and Archive, as records of jobs.                                  *)
LEMMA StartOpens ==
    ASSUME TypeInv, Start
    PROVE  /\ IsIdle(case)
           /\ \/ OpenedJob("main", case, jobs, runs, projected)
              \/ RoundsOver(case, jobs, runs, projected)
BY EnqueueMainOpens DEF Start, TypeInv

ArchivedCase == [case EXCEPT !.archived = case.conf["report"].stamp]

LEMMA ArchiveOpens ==
    ASSUME TypeInv, Archive
    PROVE  /\ "report" \in Confirmed(case) /\ case.status # "cancelled"
           /\ OpenedJob("observation", ArchivedCase, jobs, runs, projected)
           /\ case' = ArchivedCase
           /\ ArchivedCase.archived = case.conf["report"].stamp
           /\ ArchivedCase.archived > 0
           /\ ArchivedCase.status = case.status
           /\ ArchivedCase.active = case.active
           /\ ArchivedCase.conf = case.conf /\ ArchivedCase.ev = case.ev
           /\ ArchivedCase.plan = case.plan
           /\ ArchivedCase.before = case.before
           /\ ArchivedCase.after = case.after
<1> DEFINE c == ArchivedCase
<1>1. /\ case \in Inspection /\ ConclusionsHold(case)
      /\ "report" \in Confirmed(case) /\ case.status # "cancelled"
      /\ Enqueued("observation", c, jobs, runs, projected)
  BY DEF TypeInv, Filed, Archive, ArchivedCase
<1>2. /\ c \in Inspection /\ ConclusionsHold(c)
      /\ c.archived = case.conf["report"].stamp /\ c.archived > 0
      /\ c.status = case.status /\ c.active = case.active
      /\ c.conf = case.conf /\ c.ev = case.ev /\ c.plan = case.plan
      /\ c.before = case.before /\ c.after = case.after
  BY <1>1, ArchivedTyped DEF ArchivedCase
<1> HIDE DEF c
<1>3. Filed(c, jobs, runs, projected)
  BY <1>2 DEF TypeInv, Filed
<1>4. OpenedJob("observation", c, jobs, runs, projected)
  BY <1>1, <1>3, EnqueuedOpens DEF Agents
<1>5. case' = c
  BY <1>4 DEF OpenedJob
<1> QED
  BY <1>1, <1>2, <1>4, <1>5 DEF c

(* A projection rests, opens a job behind the applied ones, or ends the    *)
(* rounds.                                                                 *)
Ends(j, c) ==
    \/ /\ jobs' = Applied(j) /\ runs' = Retired(j) /\ projected' = Tallied(j)
       /\ case'.active = NoJob /\ Keeps(c)
       /\ case'.status \in {"needs_input", "needs_human", "cancelled"}
    \/ \E agent \in Agents \ {"observation"} :
          OpenedJob(agent, c, Applied(j), Retired(j), Tallied(j))

LEMMA ProjectionOpens ==
    ASSUME TypeInv, RunInv, NEW j \in JobIds, Projections(j)
    PROVE  \/ Ends(j, case)
           \/ /\ Finishes(j)
              /\ OpenedJob("observation", Ended("completed"), Applied(j),
                           Retired(j), Tallied(j))
           \/ \E value \in Findings, vouched \in BOOLEAN :
                 /\ Stores(j, value, vouched)
                 /\ Ends(j, StoredOf(j, value, vouched))
<1>1. /\ case \in Inspection /\ ConclusionsHold(case)
      /\ case.status \in Closed \cup {"collecting", "active", "needs_input",
                                      "needs_human"}
  BY DEF TypeInv, Filed, Inspection
<1>2. ASSUME NEW agent \in Agents \ {"observation"}, NEW status,
             status \in Closed \cup {"collecting", "active", "needs_input",
                                      "needs_human"},
             OpenedJob(agent, Ended(status), Applied(j), Retired(j),
                       Tallied(j))
      PROVE  Ends(j, case)
  <2> DEFINE c == Ended(status)
  <2>1. /\ Stamped(c) = Stamped(case) /\ c.ev = case.ev
        /\ c.conf = case.conf /\ c.archived = case.archived
        /\ c.plan = case.plan /\ c.before = case.before
        /\ c.after = case.after
    BY <1>1, <1>2, EndedTyped DEF Stamped
  <2> HIDE DEF c
  <2>2. NewJob(agent, c) = NewJob(agent, case)
    BY <2>1 DEF NewJob
  <2>3. OpenedJob(agent, c, Applied(j), Retired(j), Tallied(j))
    BY <1>2 DEF c
  <2>4. OpenedJob(agent, case, Applied(j), Retired(j), Tallied(j))
    BY <2>1, <2>2, <2>3 DEF OpenedJob, Keeps
  <2> QED
    BY <2>4 DEF Ends
<1>3. ASSUME NEW c, RoundsOver(c, Applied(j), Retired(j), Tallied(j))
      PROVE  Ends(j, c)
  BY <1>3 DEF RoundsOver, Ends
<1>4. ASSUME NEW status \in {"needs_input", "needs_human", "cancelled"},
             Rests(j, Ended(status))
      PROVE  Ends(j, case)
  <2>1. /\ case' = Ended(status) /\ jobs' = Applied(j) /\ runs' = Retired(j)
        /\ projected' = Tallied(j)
    BY <1>4 DEF Rests
  <2>2. /\ Ended(status).active = NoJob /\ Ended(status).status = status
        /\ Ended(status).conf = case.conf /\ Ended(status).ev = case.ev
        /\ Ended(status).archived = case.archived
        /\ Ended(status).plan = case.plan
        /\ Ended(status).before = case.before
        /\ Ended(status).after = case.after
    BY <1>1, EndedTyped DEF Closed
  <2> HIDE DEF Ended, Applied, Retired, Tallied
  <2> QED
    BY <2>1, <2>2 DEF Ends, Keeps
<1>5. CASE EnqueueMain(Ended(case.status), Applied(j), Retired(j),
                       Tallied(j))
  <2> DEFINE c == Ended(case.status)
  <2>1. Filed(c, Applied(j), Retired(j), Tallied(j))
    BY <1>1, EndedFiled
  <2>2. \/ OpenedJob("main", c, Applied(j), Retired(j), Tallied(j))
        \/ RoundsOver(c, Applied(j), Retired(j), Tallied(j))
    <3> HIDE DEF c
    <3>1. EnqueueMain(c, Applied(j), Retired(j), Tallied(j))
      BY <1>5 DEF c
    <3> QED
      BY <2>1, <3>1, EnqueueMainOpens
  <2>3. ASSUME RoundsOver(c, Applied(j), Retired(j), Tallied(j))
        PROVE  RoundsOver(case, Applied(j), Retired(j), Tallied(j))
    <3>1. /\ c.conf = case.conf /\ c.ev = case.ev
          /\ c.archived = case.archived /\ c.plan = case.plan
          /\ c.before = case.before /\ c.after = case.after
      BY <1>1, EndedTyped
    <3> HIDE DEF c
    <3> QED
      BY <2>3, <3>1 DEF RoundsOver, Keeps
  <2> QED
    BY <1>1, <1>2, <1>3, <2>2, <2>3 DEF Agents
<1>6. ASSUME NEW key \in Keys,
             Enqueued(key, Ended(case.status), Applied(j), Retired(j),
                      Tallied(j))
      PROVE  Ends(j, case)
  <2>1. key \in Agents \ {"observation"}
    BY AgentsApart DEF Agents
  <2>2. OpenedJob(key, Ended(case.status), Applied(j), Retired(j),
                  Tallied(j))
    BY <1>1, <1>6, <2>1, EndedFiled, EnqueuedOpens
  <2> QED
    BY <1>1, <1>2, <2>1, <2>2
<1>7. CASE /\ Finishes(j)
           /\ Enqueued("observation", Ended("completed"), Applied(j),
                       Retired(j), Tallied(j))
  BY <1>7, EndedFiled, EnqueuedOpens DEF Agents, Closed
<1>8. ASSUME NEW value \in Findings, NEW vouched \in BOOLEAN,
             Stores(j, value, vouched),
             EnqueueMain(StoredOf(j, value, vouched), Applied(j), Retired(j),
                         Tallied(j))
      PROVE  Ends(j, StoredOf(j, value, vouched))
  <2> DEFINE c == StoredOf(j, value, vouched)
  <2>1. Filed(c, Applied(j), Retired(j), Tallied(j))
    BY <1>8, StoredFiled
  <2>2. \/ OpenedJob("main", c, Applied(j), Retired(j), Tallied(j))
        \/ RoundsOver(c, Applied(j), Retired(j), Tallied(j))
    <3> HIDE DEF c
    <3>1. EnqueueMain(c, Applied(j), Retired(j), Tallied(j))
      BY <1>8 DEF c
    <3> QED
      BY <2>1, <3>1, EnqueueMainOpens
  <2>3. "main" \in Agents \ {"observation"}
    BY DEF Agents
  <2> HIDE DEF c
  <2>4. Ends(j, c)
    BY <1>3, <2>2, <2>3 DEF Ends
  <2> QED
    BY <2>4 DEF c
<1> QED
  BY <1>4, <1>5, <1>6, <1>7, <1>8 DEF Projections


-----------------------------------------------------------------------------
(* The outcome of a job enters the case once                               *)

LEMMA TallyOpened ==
    ASSUME NEW agent, NEW c, NEW queue, NEW started, NEW tally,
           OpenedJob(agent, c, queue, started, tally),
           \A i \in DOMAIN queue :
              tally[i] = IF queue[i].applied THEN 1 ELSE 0
    PROVE  TallyInv'
BY DEF OpenedJob, NewJob, TallyInv, JobIds

LEMMA TallyApplied ==
    ASSUME TypeInv, TallyInv, NEW j \in JobIds, ~jobs[j].applied
    PROVE  /\ DOMAIN Applied(j) = JobIds
           /\ \A i \in JobIds :
                 Tallied(j)[i] = IF Applied(j)[i].applied THEN 1 ELSE 0
<1>1. /\ DOMAIN Applied(j) = JobIds /\ Applied(j)[j].applied
      /\ \A i \in JobIds : i # j => Applied(j)[i] = jobs[i]
  BY JobApplied
<1>2. /\ Tallied(j)[j] = projected[j] + 1
      /\ \A i \in JobIds : i # j => Tallied(j)[i] = projected[i]
  BY JobTallied
<1>3. projected[j] = 0
  BY DEF TallyInv
<1> QED
  BY <1>1, <1>2, <1>3 DEF TallyInv

LEMMA TallyStep ==
    ASSUME TypeInv, RunInv, TallyInv, [Next]_vars
    PROVE  TallyInv'
<1>1. CASE JobsLike
  BY <1>1 DEF JobsLike, TallyInv, JobIds
<1>2. CASE Start
  <2>1. CASE OpenedJob("main", case, jobs, runs, projected)
    BY <2>1, TallyOpened DEF TallyInv, JobIds
  <2>2. CASE RoundsOver(case, jobs, runs, projected)
    BY <2>2 DEF RoundsOver, TallyInv, JobIds
  <2> QED
    BY <1>2, <2>1, <2>2, StartOpens
<1>3. CASE Archive
  <2>1. OpenedJob("observation", ArchivedCase, jobs, runs, projected)
    BY <1>3, ArchiveOpens
  <2> QED
    BY <2>1, TallyOpened DEF TallyInv, JobIds
<1>4. ASSUME NEW p \in Procs, Project(p)
      PROVE  TallyInv'
  <2> DEFINE j == mem[p].job
  <2>1. /\ j \in JobIds /\ ~jobs[j].applied
        /\ \/ Rests(j, case)
           \/ Projections(j)
    BY <1>4, ProjectEffects
  <2> HIDE DEF j
  <2>2. /\ DOMAIN Applied(j) = JobIds
        /\ \A i \in JobIds :
              Tallied(j)[i] = IF Applied(j)[i].applied THEN 1 ELSE 0
    BY <2>1, TallyApplied
  <2>3. CASE jobs' = Applied(j) /\ projected' = Tallied(j)
    BY <2>2, <2>3 DEF TallyInv, JobIds
  <2>4. ASSUME NEW agent, NEW c,
               OpenedJob(agent, c, Applied(j), Retired(j), Tallied(j))
        PROVE  TallyInv'
    BY <2>2, <2>4, TallyOpened
  <2>5. CASE Projections(j)
    BY <2>1, <2>3, <2>4, <2>5, ProjectionOpens DEF Ends
  <2> QED
    BY <2>1, <2>3, <2>5 DEF Rests
<1> QED
  BY <1>1, <1>2, <1>3, <1>4, StepKinds, ManagingLike, ReviewingRecords

(* The outcome of a job enters the case at most once, however many         *)
(* processes read the end of its run and project it.                       *)
THEOREM ProjectedCorrect == Spec => []ProjectedOnce
<1>1. Init => TallyInv
  BY DEF Init, TallyInv, JobIds
<1>2. TypeInv /\ RunInv /\ TallyInv /\ [Next]_vars => TallyInv'
  BY TallyStep
<1>3. TallyInv => ProjectedOnce
  BY DEF TallyInv, ProjectedOnce
<1> QED
  BY <1>1, <1>2, <1>3, RecordsHold, PTL DEF Spec

-----------------------------------------------------------------------------
(* The job the case waits for is current                                   *)

LEMMA ActiveOpened ==
    ASSUME NEW agent, NEW c, NEW queue, NEW started, NEW tally,
           agent # "observation",
           OpenedJob(agent, c, queue, started, tally)
    PROVE  ActiveInv'
<1> DEFINE n == Len(queue) + 1
<1>1. /\ case'.active = n /\ case'.status = "active"
      /\ jobs'[n] = NewJob(agent, c)
      /\ case'.conf = c.conf /\ case'.ev = c.ev
  BY DEF OpenedJob, Keeps
<1> HIDE DEF n
<1>2. Stamped(case') = Stamped(c)
  BY <1>1 DEF Stamped
<1>3. /\ jobs'[n].agent = agent /\ ~jobs'[n].applied
      /\ jobs'[n].ev = c.ev /\ jobs'[n].snapshot = Stamped(c)
  BY <1>1 DEF NewJob
<1> QED
  BY <1>1, <1>2, <1>3 DEF ActiveInv, ActiveJobIsCurrent, Closed

LEMMA NobodyActive ==
    ASSUME case'.active = NoJob
    PROVE  ActiveInv'
BY DEF ActiveInv, ActiveJobIsCurrent

LEMMA ActiveKept ==
    ASSUME ActiveInv, case'.active = case.active, case'.status = case.status,
           case'.conf = case.conf, case'.ev = case.ev,
           case.active # NoJob =>
               /\ jobs'[case.active].agent = jobs[case.active].agent
               /\ jobs'[case.active].ev = jobs[case.active].ev
               /\ jobs'[case.active].snapshot = jobs[case.active].snapshot
               /\ jobs'[case.active].applied = jobs[case.active].applied
    PROVE  ActiveInv'
<1>1. Stamped(case') = Stamped(case)
  BY DEF Stamped
<1> QED
  BY <1>1 DEF ActiveInv, ActiveJobIsCurrent

LEMMA ActiveExists ==
    ASSUME TypeInv, case.active # NoJob
    PROVE  case.active \in JobIds
BY DEF TypeInv, Filed, JobIds

LEMMA ActiveStep ==
    ASSUME TypeInv, RunInv, ActiveInv, [Next]_vars
    PROVE  ActiveInv'
<1>1. ASSUME JobsLike, case'.active = case.active,
             case'.status = case.status, case'.conf = case.conf,
             case'.ev = case.ev
      PROVE  ActiveInv'
  BY <1>1, ActiveKept, ActiveExists DEF JobsLike
<1>2. CASE Start
  BY <1>2, StartOpens, ActiveOpened, NobodyActive DEF RoundsOver
<1>3. CASE Amend \/ FinishUpload
           \/ \E key \in Keys, value \in Findings : ManualResult(key, value)
  <2>1. CASE Amend
    <3>1. /\ Invalidated(case) \in Inspection
          /\ ConclusionsHold(Invalidated(case))
          /\ Invalidated(case).active = NoJob
      BY <2>1, InvalidatedTyped DEF TypeInv, Filed, Amend, IsIdle
    <3>2. case' = [Invalidated(case) EXCEPT !.status = "collecting"]
      BY <2>1 DEF Amend
    <3> QED
      BY <3>1, <3>2, StatusTyped, NobodyActive
  <2>2. CASE FinishUpload
    BY <2>2, UploadedTyped, NobodyActive
       DEF FinishUpload, UploadCurrent, IsIdle
  <2>3. ASSUME NEW key \in Keys, NEW value \in Findings,
               ManualResult(key, value)
        PROVE  ActiveInv'
    BY <2>3, ManualTyped, NobodyActive DEF ManualResult, IsIdle
  <2> QED
    BY <1>3, <2>1, <2>2, <2>3
<1>4. CASE Archive
  <2>1. /\ OpenedJob("observation", ArchivedCase, jobs, runs, projected)
        /\ case'.active = case.active /\ case'.status = case.status
        /\ case'.conf = case.conf /\ case'.ev = case.ev
    BY <1>4, ArchiveOpens
  <2>2. \A i \in JobIds : jobs'[i] = jobs[i]
    BY <2>1 DEF OpenedJob, JobIds
  <2> QED
    BY <2>1, <2>2, ActiveKept, ActiveExists
<1>5. CASE PublishPlan \/ CloseTasks
  <2>1. /\ case'.active = case.active /\ case'.status = case.status
        /\ case'.conf = case.conf /\ case'.ev = case.ev
    BY <1>5, PublishedTyped, ClosedTyped DEF Keeps
  <2>2. JobsLike
    BY <1>5, JobsUntouched DEF PublishPlan, CloseTasks
  <2> QED
    BY <1>1, <2>1, <2>2
<1>6. ASSUME NEW action \in {"return", "cancel"}, Stop(action)
      PROVE  ActiveInv'
  BY <1>1, <1>6, StoppedTyped, StoppedLike, NobodyActive
<1>7. CASE Reviewing
  BY <1>1, <1>7, ReviewingRecords
<1>8. ASSUME NEW p \in Procs, Project(p)
      PROVE  ActiveInv'
  <2> DEFINE j == mem[p].job
  <2>1. /\ j \in JobIds
        /\ \/ jobs[j].agent = "observation" /\ Rests(j, case)
           \/ Projections(j)
    BY <1>8, ProjectEffects
  <2> HIDE DEF j
  <2>2. CASE jobs[j].agent = "observation" /\ Rests(j, case)
    <3>1. /\ case' = case /\ jobs' = Applied(j)
      BY <2>2 DEF Rests
    <3>2. \A i \in JobIds : i # j => jobs'[i] = jobs[i]
      BY <2>1, <3>1, JobApplied
    <3>3. case.active # NoJob => case.active # j
      BY <2>2 DEF ActiveInv
    <3> QED
      BY <3>1, <3>2, <3>3, ActiveKept, ActiveExists
  <2>3. ASSUME NEW c, Ends(j, c)
        PROVE  ActiveInv'
    <3>1. CASE case'.active = NoJob
      BY <3>1, NobodyActive
    <3> QED
      BY <2>3, <3>1, ActiveOpened DEF Ends
  <2>4. CASE OpenedJob("observation", Ended("completed"), Applied(j),
                       Retired(j), Tallied(j))
    <3>1. case' = Ended("completed")
      BY <2>4 DEF OpenedJob
    <3> QED
      BY <3>1, EndedTyped, NobodyActive DEF TypeInv, Filed, Closed
  <2> QED
    BY <2>1, <2>2, <2>3, <2>4, ProjectionOpens
<1> QED
  BY <1>1, <1>2, <1>3, <1>4, <1>5, <1>6, <1>7, <1>8, StepKinds DEF Managing

(* A closed case waits for no job.                                         *)
LEMMA ActiveHolds == Spec => []ActiveInv
<1>1. Init => ActiveInv
  BY DEF Init, ActiveInv, ActiveJobIsCurrent
<1>2. TypeInv /\ RunInv /\ ActiveInv /\ [Next]_vars => ActiveInv'
  BY ActiveStep
<1> QED
  BY <1>1, <1>2, RecordsHold, PTL DEF Spec

(* The job a case waits for awaits its outcome, and it was dispatched for  *)
(* the evidence and the conclusions the case holds now.                    *)
THEOREM ActiveCorrect == Spec => []ActiveJobIsCurrent
<1>1. ActiveInv => ActiveJobIsCurrent
  BY DEF ActiveInv
<1> QED
  BY <1>1, ActiveHolds, PTL

LEMMA ClosedStep ==
    ASSUME TypeInv, RunInv, ActiveInv, [Next]_vars, case.status \in Closed
    PROVE  case'.status = case.status
<1>1. CASE Managing
  <2>1. ~IsIdle(case)
    BY DEF IsIdle
  <2>2. ~Start /\ ~Amend /\ ~FinishUpload
    BY <2>1 DEF Start, Amend, FinishUpload, UploadCurrent
  <2>3. ASSUME NEW key \in Keys, NEW value \in Findings,
               ManualResult(key, value)
        PROVE  FALSE
    BY <2>1, <2>3 DEF ManualResult
  <2>4. ASSUME NEW action \in {"return", "cancel"}, Stop(action)
        PROVE  FALSE
    BY <2>4 DEF Stop
  <2>5. Archive \/ PublishPlan \/ CloseTasks
    BY <1>1, <2>2, <2>3, <2>4 DEF Managing
  <2> QED
    BY <2>5, ArchiveOpens, PublishedTyped, ClosedTyped
<1>2. ASSUME NEW p \in Procs, Project(p)
      PROVE  case' = case
  BY <1>2, ProjectEffects, Domains DEF ActiveInv, Rests
<1> QED
  BY <1>1, <1>2, StepKinds, ReviewingRecords

(* A closed inspection is never opened again by a late run, review or      *)
(* upload.                                                                 *)
THEOREM ClosedCorrect == Spec => ClosedStays
<1> DEFINE Stays == case.status \in Closed => case'.status = case.status
<1>1. TypeInv /\ RunInv /\ ActiveInv /\ [Next]_vars => [Stays]_vars
  BY ClosedStep
<1> QED
  BY <1>1, RecordsHold, ActiveHolds, PTL DEF Spec, ClosedStays

-----------------------------------------------------------------------------
(* After-evidence is filed under current issues                            *)

LEMMA UploadInvStep ==
    ASSUME TypeInv, RunInv, UploadInv, [Next]_vars
    PROVE  UploadInv'
<1>1. CASE ~upload'.fresh
  BY <1>1 DEF UploadInv
<1>2. CASE UNCHANGED <<case, upload>>
  BY <1>2 DEF UploadInv, KnownIssues, Confirmed
<1>3. CASE CloseTasks
  <2>1. case'.conf = case.conf /\ upload' = upload
    BY <1>3, ClosedTyped DEF Keeps, CloseTasks
  <2> QED
    BY <2>1 DEF UploadInv, KnownIssues, Confirmed
<1>4. ASSUME UNCHANGED case, NEW kind \in {"before", "context"},
             BeginUpload(kind, NoValue)
      PROVE  UploadInv'
  <2>1. upload'.kind = kind
    BY <1>4, BegunUpload
  <2> QED
    BY <2>1 DEF UploadInv
<1>5. ASSUME UNCHANGED case, NEW issue \in KnownIssues(case),
             BeginUpload("after", issue)
      PROVE  UploadInv'
  <2>1. /\ upload'.issue = issue
        /\ upload'.stamp = case.conf["issues"].stamp
    BY <1>5, BegunUpload
  <2> QED
    BY <1>5, <2>1 DEF UploadInv, KnownIssues, Confirmed
<1> QED
  BY <1>1, <1>2, <1>3, <1>4, <1>5, UploadSteps, SavedTyped, NoUploadTyped

LEMMA AfterKept ==
    ASSUME TypeInv, RunInv, [Next]_vars, ~FinishUpload
    PROVE  case'.after = case.after
<1>1. case \in Inspection /\ ConclusionsHold(case)
  BY DEF TypeInv, Filed
<1>2. CASE Start
  BY <1>2, StartOpens DEF OpenedJob, RoundsOver, Keeps
<1>3. CASE Amend
  <2>1. /\ Invalidated(case) \in Inspection
        /\ ConclusionsHold(Invalidated(case))
        /\ Invalidated(case).after = case.after
    BY <1>1, InvalidatedTyped
  <2>2. case' = [Invalidated(case) EXCEPT !.status = "collecting"]
    BY <1>3 DEF Amend
  <2> QED
    BY <2>1, <2>2, StatusTyped
<1>4. CASE Archive \/ PublishPlan \/ CloseTasks
           \/ \E key \in Keys, value \in Findings : ManualResult(key, value)
  BY <1>4, ArchiveOpens, PublishedTyped, ClosedTyped, ManualTyped DEF Keeps
<1>5. ASSUME NEW action \in {"return", "cancel"}, Stop(action)
      PROVE  case'.after = case.after
  BY <1>5, StoppedTyped DEF Keeps
<1>6. ASSUME NEW p \in Procs, Project(p)
      PROVE  case'.after = case.after
  <2> DEFINE j == mem[p].job
  <2>1. j \in JobIds /\ (Rests(j, case) \/ Projections(j))
    BY <1>6, ProjectEffects
  <2> HIDE DEF j
  <2>2. ASSUME NEW c, Ends(j, c)
        PROVE  case'.after = c.after
    BY <2>2 DEF Ends, OpenedJob, Keeps
  <2>3. CASE OpenedJob("observation", Ended("completed"), Applied(j),
                       Retired(j), Tallied(j))
    <3>1. case' = Ended("completed")
      BY <2>3 DEF OpenedJob
    <3> QED
      BY <1>1, <3>1, EndedTyped DEF Closed
  <2>4. ASSUME NEW value \in Findings, NEW vouched \in BOOLEAN,
               Stores(j, value, vouched),
               Ends(j, StoredOf(j, value, vouched))
        PROVE  case'.after = case.after
    BY <2>1, <2>2, <2>4, StoredFiled
  <2> QED
    BY <2>1, <2>2, <2>3, <2>4, ProjectionOpens DEF Rests
<1> QED
  BY <1>2, <1>3, <1>4, <1>5, <1>6, StepKinds, ReviewingRecords DEF Managing

LEMMA EvidenceStep ==
    ASSUME TypeInv, RunInv, UploadInv, [Next]_vars,
           NEW pair \in case'.after \ case.after
    PROVE  /\ pair[1] \in KnownIssues(case)
           /\ pair[2] = case.conf["issues"].stamp
<1>1. FinishUpload
  BY AfterKept
<1>2. /\ upload.kind = "after"
      /\ pair = <<upload.issue, upload.stamp>>
  BY <1>1, UploadedTyped
<1>3. upload.fresh
  BY <1>1 DEF FinishUpload, UploadCurrent
<1> QED
  BY <1>2, <1>3 DEF UploadInv

(* After-evidence is filed under an issue of the confirmation that is      *)
(* current when it is filed, although the service reads the case before    *)
(* the embedding and writes after it.                                      *)
THEOREM EvidenceCorrect == Spec => EvidenceFiledCurrent
<1> DEFINE Current == \A pair \in case'.after \ case.after :
                         /\ pair[1] \in KnownIssues(case)
                         /\ pair[2] = case.conf["issues"].stamp
<1>1. Init => UploadInv
  BY DEF Init, NoUpload, UploadInv
<1>2. TypeInv /\ RunInv /\ UploadInv /\ [Next]_vars => UploadInv'
  BY UploadInvStep
<1>3. TypeInv /\ RunInv /\ UploadInv /\ [Next]_vars => [Current]_vars
  BY EvidenceStep
<1> QED
  BY <1>1, <1>2, <1>3, RecordsHold, PTL DEF Spec, EvidenceFiledCurrent

-----------------------------------------------------------------------------
(* A review remains possible, and a completed case is complete             *)

(* The case holds what it held, and what is published stays published.     *)
Richer ==
    /\ case'.conf = case.conf
    /\ case'.before = case.before /\ case'.after = case.after
    /\ case.archived > 0 => case'.archived > 0
    /\ case.plan > 0 => case'.plan > 0

LEMMA RicherAllows ==
    ASSUME Richer
    PROVE  /\ CanFinish(case) => CanFinish(case')
           /\ \A key \in Keys :
                 CanDispatch(case, key) => CanDispatch(case', key)
           /\ Required \subseteq Confirmed(case) =>
                 Required \subseteq Confirmed(case')
BY DEF Richer, CanFinish, CanDispatch, KnownIssues, Confirmed

LEMMA PossibleStays ==
    ASSUME Richer, NEW review \in Review, Possible(case, review)
    PROVE  Possible(case', review)
<1>1. review.selected # "none" => review.selected \in Keys
  BY DEF Review
<1> HIDE DEF Richer, CanFinish, CanDispatch
<1> QED
  BY <1>1, RicherAllows DEF Possible

LEMMA UnchangedIsRicher ==
    ASSUME case' = case
    PROVE  Richer
BY DEF Richer

(* The reviews of the jobs that were there are those of a queue.           *)
LEMMA ReviewOpened ==
    ASSUME NEW agent, NEW c, NEW queue, NEW started, NEW tally,
           agent # "observation",
           OpenedJob(agent, c, queue, started, tally),
           \A i \in DOMAIN queue : NamesSpecialist(queue[i].review)
    PROVE  ReviewInv'
<1> DEFINE n == Len(queue) + 1
<1>1. /\ case'.active = n /\ DOMAIN jobs' = DOMAIN queue \cup {n}
      /\ jobs'[n] = NewJob(agent, c)
      /\ \A i \in DOMAIN queue : jobs'[i] = queue[i]
  BY DEF OpenedJob
<1> HIDE DEF n
<1>2. jobs'[n].review = NoReview /\ NamesSpecialist(NoReview)
  BY <1>1 DEF NewJob, NamesSpecialist, NoReview
<1> QED
  BY <1>1, <1>2 DEF ReviewInv, JobIds

LEMMA ObservationOpened ==
    ASSUME NEW c, NEW queue, NEW started, NEW tally,
           OpenedJob("observation", c, queue, started, tally),
           \A i \in DOMAIN queue : NamesSpecialist(queue[i].review)
    PROVE  /\ case' = c
           /\ \A i \in DOMAIN jobs' : NamesSpecialist(jobs'[i].review)
<1> DEFINE n == Len(queue) + 1
<1>1. /\ case' = c /\ DOMAIN jobs' = DOMAIN queue \cup {n}
      /\ jobs'[n] = NewJob("observation", c)
      /\ \A i \in DOMAIN queue : jobs'[i] = queue[i]
  BY DEF OpenedJob
<1> HIDE DEF n
<1>2. jobs'[n].review = NoReview /\ NamesSpecialist(NoReview)
  BY <1>1 DEF NewJob, NamesSpecialist, NoReview
<1> QED
  BY <1>1, <1>2

LEMMA ReviewNobody ==
    ASSUME case'.active = NoJob,
           \A i \in DOMAIN jobs' : NamesSpecialist(jobs'[i].review)
    PROVE  ReviewInv'
BY DEF ReviewInv, JobIds

(* The reviews stay and the case keeps what the active one asks for.       *)
LEMMA ReviewKept ==
    ASSUME TypeInv, ReviewInv, Richer, case'.active = case.active,
           case.active # NoJob =>
               jobs'[case.active].review = jobs[case.active].review,
           \A i \in DOMAIN jobs' : NamesSpecialist(jobs'[i].review)
    PROVE  ReviewInv'
<1>1. CASE case.active = NoJob
  BY <1>1, ReviewNobody
<1>2. CASE case.active # NoJob
  <2>1. jobs[case.active].review \in Review
    BY <1>2, ActiveExists, JobTyped DEF Job
  <2> QED
    BY <1>2, <2>1, PossibleStays DEF ReviewInv, JobIds
<1> QED
  BY <1>1, <1>2

LEMMA ReviewInvStep ==
    ASSUME TypeInv, RunInv, ActiveInv, ReviewInv, [Next]_vars
    PROVE  ReviewInv'
<1>1. \A i \in JobIds : NamesSpecialist(jobs[i].review)
  BY DEF ReviewInv
<1>2. ASSUME JobsLike, ReviewsKept
      PROVE  /\ \A i \in DOMAIN jobs' : NamesSpecialist(jobs'[i].review)
             /\ case.active # NoJob =>
                    jobs'[case.active].review = jobs[case.active].review
  BY <1>1, <1>2, ActiveExists DEF JobsLike, ReviewsKept
<1>3. CASE Start
  <2>1. CASE RoundsOver(case, jobs, runs, projected)
    BY <1>1, <2>1, ReviewNobody DEF RoundsOver, JobIds
  <2> QED
    BY <1>1, <1>3, <2>1, StartOpens, ReviewOpened DEF JobIds
<1>4. CASE Amend
  <2>1. /\ Invalidated(case) \in Inspection
        /\ ConclusionsHold(Invalidated(case))
        /\ Invalidated(case).active = NoJob
    BY <1>4, InvalidatedTyped DEF TypeInv, Filed, Amend, IsIdle
  <2>2. case' = [Invalidated(case) EXCEPT !.status = "collecting"]
        /\ jobs' = jobs
    BY <1>4 DEF Amend
  <2>3. case'.active = NoJob
    BY <2>1, <2>2, StatusTyped
  <2> QED
    BY <1>1, <2>2, <2>3, ReviewNobody DEF JobIds
<1>5. CASE FinishUpload
  <2>1. case'.active = NoJob /\ jobs' = jobs
    BY <1>5, UploadedTyped DEF FinishUpload, UploadCurrent, IsIdle
  <2> QED
    BY <1>1, <2>1, ReviewNobody DEF JobIds
<1>6. ASSUME NEW key \in Keys, NEW value \in Findings,
             ManualResult(key, value)
      PROVE  ReviewInv'
  <2>1. case'.active = NoJob /\ jobs' = jobs
    BY <1>6, ManualTyped DEF ManualResult, IsIdle
  <2> QED
    BY <1>1, <2>1, ReviewNobody DEF JobIds
<1>7. CASE Archive
  <2>1. /\ OpenedJob("observation", ArchivedCase, jobs, runs, projected)
        /\ case'.active = case.active /\ Richer
    BY <1>7, ArchiveOpens DEF Richer
  <2>2. \A i \in JobIds : jobs'[i] = jobs[i]
    BY <2>1 DEF OpenedJob, JobIds
  <2>3. \A i \in DOMAIN jobs' : NamesSpecialist(jobs'[i].review)
    BY <1>1, <2>1, ObservationOpened DEF JobIds
  <2> QED
    BY <2>1, <2>2, <2>3, ReviewKept, ActiveExists
<1>8. CASE PublishPlan \/ CloseTasks
  <2>1. case'.active = case.active /\ Richer
    BY <1>8, PublishedTyped, ClosedTyped DEF Keeps, Richer
  <2>2. JobsLike /\ ReviewsKept
    BY <1>8, JobsUntouched DEF PublishPlan, CloseTasks
  <2> QED
    BY <1>2, <2>1, <2>2, ReviewKept
<1>9. ASSUME NEW action \in {"return", "cancel"}, Stop(action)
      PROVE  ReviewInv'
  <2>1. JobsLike /\ ReviewsKept
    BY <1>9, StoppedLike DEF ReviewsKept
  <2>2. CASE case' = case
    BY <1>2, <2>1, <2>2, ReviewKept, UnchangedIsRicher
  <2>3. CASE case'.active = NoJob
    BY <1>2, <2>1, <2>3, ReviewNobody
  <2> QED
    BY <1>9, <2>2, <2>3, StoppedTyped
<1>10. CASE Reviewing
  <2> DEFINE j == case.active
             review == jobs'[j].review
  <2>1. /\ case' = case /\ JobsLike /\ j \in JobIds
        /\ \A i \in JobIds : i # j => jobs'[i].review = jobs[i].review
    BY <1>10, ReviewingRecords
  <2>2. NamesSpecialist(review) /\ Possible(case, review)
    <3>1. ASSUME NEW action, DispatchReview(j, action, review)
          PROVE  NamesSpecialist(review) /\ Possible(case, review)
      <4> HIDE DEF review, j
      <4>1. /\ review.action = action /\ review.original = runs[j].value
            /\ \/ /\ review.selected \in Keys
                  /\ CanDispatch(case, review.selected)
               \/ /\ review.selected = "none"
                  /\ action \notin {"modify", "retry"}
                  /\ action = "approve" => Acceptable(runs[j].value)
        BY <3>1 DEF DispatchReview
      <4>2. CASE review.selected \in Keys
                 /\ CanDispatch(case, review.selected)
        BY <4>2, AgentsApart DEF NamesSpecialist, Possible
      <4>3. CASE /\ review.selected = "none"
                 /\ action \notin {"modify", "retry"}
                 /\ action = "approve" => Acceptable(runs[j].value)
        BY <4>1, <4>3 DEF NamesSpecialist, Possible, Acceptable
      <4> QED
        BY <4>1, <4>2, <4>3
    <3>2. CASE /\ review.action \in {"confirm_result", "reject_result"}
               /\ review.selected = "none"
      BY <3>2 DEF NamesSpecialist, Possible
    <3> QED
      BY <1>10, <3>1, <3>2, ReviewingRecords
  <2>3. Possible(case', review)
    BY <2>1, <2>2
  <2> QED
    BY <1>1, <2>1, <2>2, <2>3 DEF ReviewInv, JobsLike, JobIds
<1>11. ASSUME NEW p \in Procs, Project(p)
       PROVE  ReviewInv'
  <2> DEFINE j == mem[p].job
  <2>1. /\ j \in JobIds
        /\ \/ jobs[j].agent = "observation" /\ Rests(j, case)
           \/ Projections(j)
    BY <1>11, ProjectEffects
  <2> HIDE DEF j
  <2>2. /\ DOMAIN Applied(j) = JobIds
        /\ \A i \in JobIds : i # j => Applied(j)[i] = jobs[i]
        /\ \A i \in JobIds : NamesSpecialist(Applied(j)[i].review)
    <3>1. NamesSpecialist(NoReview)
      BY DEF NamesSpecialist, NoReview
    <3> QED
      BY <1>1, <2>1, <3>1, JobApplied
  <2>3. CASE jobs[j].agent = "observation" /\ Rests(j, case)
    <3>1. case' = case /\ jobs' = Applied(j)
      BY <2>3 DEF Rests
    <3>2. case.active # NoJob => case.active # j
      BY <2>3 DEF ActiveInv
    <3> QED
      BY <2>2, <3>1, <3>2, ReviewKept, ActiveExists, UnchangedIsRicher
  <2>4. ASSUME NEW c, Ends(j, c)
        PROVE  ReviewInv'
    <3>1. CASE jobs' = Applied(j) /\ case'.active = NoJob
      BY <2>2, <3>1, ReviewNobody
    <3> QED
      BY <2>2, <2>4, <3>1, ReviewOpened DEF Ends
  <2>5. CASE OpenedJob("observation", Ended("completed"), Applied(j),
                       Retired(j), Tallied(j))
    <3>1. /\ case' = Ended("completed")
          /\ \A i \in DOMAIN jobs' : NamesSpecialist(jobs'[i].review)
      BY <2>2, <2>5, ObservationOpened
    <3>2. case'.active = NoJob
      BY <3>1, EndedTyped DEF TypeInv, Filed, Closed
    <3> QED
      BY <3>1, <3>2, ReviewNobody
  <2> QED
    BY <2>1, <2>3, <2>4, <2>5, ProjectionOpens
<1>12. CASE UNCHANGED case /\ JobsLike /\ ReviewsKept
  BY <1>2, <1>12, ReviewKept, UnchangedIsRicher
<1> QED
  BY <1>3, <1>4, <1>5, <1>6, <1>7, <1>8, <1>9, <1>10, <1>11, <1>12,
     StepKinds DEF Managing

LEMMA ReviewHolds == Spec => []ReviewInv
<1>1. Init => ReviewInv
  BY DEF Init, ReviewInv, JobIds
<1>2. TypeInv /\ RunInv /\ ActiveInv /\ ReviewInv /\ [Next]_vars => ReviewInv'
  BY ReviewInvStep
<1> QED
  BY <1>1, <1>2, RecordsHold, ActiveHolds, PTL DEF Spec

LEMMA PossibleApplies ==
    ASSUME TypeInv, ReviewInv, NEW j \in JobIds,
           case.active = j, jobs[j].review # NoReview
    PROVE  ~ProjectRaises(j)
<1>1. Possible(case, jobs[j].review)
  BY Domains DEF ReviewInv
<1> QED
  BY <1>1 DEF Possible, ProjectRaises

(* What a reviewer decided can be carried out when the run has ended: no   *)
(* command in between takes the conclusions or the evidence it needs.      *)
THEOREM ReviewCorrect == Spec => []ReviewStaysApplicable
<1>1. TypeInv /\ RunInv /\ ReviewInv => ReviewStaysApplicable
  BY PossibleApplies DEF ReviewStaysApplicable
<1> QED
  BY <1>1, ReviewHolds, RecordsHold, PTL

LEMMA StaysComplete ==
    ASSUME CompletedIsComplete, Richer, case'.active = case.active,
           case'.status = case.status
    PROVE  CompletedIsComplete'
BY RicherAllows DEF CompletedIsComplete, Richer

LEMMA NotCompleted ==
    ASSUME case'.status # "completed"
    PROVE  CompletedIsComplete'
BY DEF CompletedIsComplete

LEMMA CompletedStep ==
    ASSUME TypeInv, RunInv, ReviewInv, CompletedIsComplete, [Next]_vars
    PROVE  CompletedIsComplete'
<1>1. CASE UNCHANGED case
  BY <1>1, StaysComplete, UnchangedIsRicher
<1>2. CASE Start
  BY <1>2, StartOpens, NotCompleted DEF OpenedJob, RoundsOver
<1>3. CASE Amend
  <2>1. /\ Invalidated(case) \in Inspection
        /\ ConclusionsHold(Invalidated(case))
    BY InvalidatedTyped DEF TypeInv, Filed
  <2>2. case' = [Invalidated(case) EXCEPT !.status = "collecting"]
    BY <1>3 DEF Amend
  <2> QED
    BY <2>1, <2>2, StatusTyped, NotCompleted
<1>4. CASE FinishUpload
  BY <1>4, UploadedTyped, NotCompleted
<1>5. ASSUME NEW key \in Keys, NEW value \in Findings,
             ManualResult(key, value)
      PROVE  CompletedIsComplete'
  BY <1>5, ManualTyped, NotCompleted DEF ManualResult, IsIdle, Closed
<1>6. CASE Archive \/ PublishPlan \/ CloseTasks
  <2>1. /\ Richer /\ case'.active = case.active
        /\ case'.status = case.status
    BY <1>6, ArchiveOpens, PublishedTyped, ClosedTyped DEF Richer, Keeps
  <2> QED
    BY <2>1, StaysComplete
<1>7. ASSUME NEW action \in {"return", "cancel"}, Stop(action)
      PROVE  CompletedIsComplete'
  BY <1>1, <1>7, StoppedTyped, NotCompleted
<1>8. ASSUME NEW p \in Procs, Project(p)
      PROVE  CompletedIsComplete'
  <2> DEFINE j == mem[p].job
  <2>1. j \in JobIds /\ (case' = case \/ Projections(j))
    BY <1>8, ProjectEffects DEF Rests
  <2> HIDE DEF j
  <2>2. ASSUME NEW c, Ends(j, c)
        PROVE  CompletedIsComplete'
    BY <2>2, NotCompleted DEF Ends, OpenedJob
  <2>3. CASE /\ Finishes(j)
             /\ OpenedJob("observation", Ended("completed"), Applied(j),
                          Retired(j), Tallied(j))
    <3>1. jobs[j].review.action = "approve"
      BY <2>1, <2>3 DEF Finishes, ReviewInv, NamesSpecialist
    <3>2. CanFinish(case)
      BY <2>3, <3>1 DEF Finishes, ProjectRaises
    <3>3. case' = Ended("completed")
      BY <2>3 DEF OpenedJob
    <3>4. /\ case'.active = NoJob /\ case'.conf = case.conf
          /\ case'.archived = case.archived /\ case'.plan = case.plan
      BY <3>3, EndedTyped DEF TypeInv, Filed, Closed
    <3> QED
      BY <3>2, <3>4 DEF CanFinish, CompletedIsComplete, Confirmed
  <2> QED
    BY <1>1, <2>1, <2>2, <2>3, ProjectionOpens
<1> QED
  BY <1>1, <1>2, <1>3, <1>4, <1>5, <1>6, <1>7, <1>8, StepKinds,
     ReviewingRecords DEF Managing

(* A completed inspection holds every required conclusion, its report is   *)
(* archived and its work plan published.                                   *)
THEOREM CompletedCorrect == Spec => []CompletedIsComplete
<1>1. Init => CompletedIsComplete
  BY DEF Init, CompletedIsComplete
<1>2. TypeInv /\ RunInv /\ ReviewInv /\ CompletedIsComplete /\ [Next]_vars
         => CompletedIsComplete'
  BY CompletedStep
<1> QED
  BY <1>1, <1>2, ReviewHolds, RecordsHold, PTL DEF Spec

-----------------------------------------------------------------------------
(* Conclusions are drawn from what the case still holds                    *)

Derived == Keys \cap {"rectification", "report", "work_plan"}

Sources(key) ==
    {u \in Keys :
        \/ key = "rectification" /\ u = "issues"
        \/ key \in {"report", "work_plan"}
           /\ u \in {"issues", "rectification", "history_analysis",
                     "coverage"}
        \/ key = "work_plan" /\ u = "report"}

Stands(c, key) ==
    c.conf[key].stamp > 0 =>
        /\ c.conf[key].ev = c.ev
        /\ \A u \in Sources(key) : c.conf[key].basis[u] = c.conf[u].stamp

Published(c) ==
    /\ c.archived > 0 => "report" \in Confirmed(c)
                         /\ c.archived = c.conf["report"].stamp
    /\ c.plan > 0 => "work_plan" \in Confirmed(c)
                     /\ c.plan = c.conf["work_plan"].stamp

Consistent(c) == (\A key \in Derived : Stands(c, key)) /\ Published(c)

(* A new conclusion discards whatever was drawn from the old one, and      *)
(* whatever was drawn from that.                                           *)
LEMMA DependentsClosed ==
    ASSUME NEW key \in Keys, NEW k \in Derived, NEW u \in Sources(k)
    PROVE  /\ u # k
           /\ key \notin Dependents(key)
           /\ u = key => k \in Dependents(key)
           /\ u \in Dependents(key) => k \in Dependents(key)
BY CaseAssumption DEF AllKeys, Derived, Sources, Dependents

LEMMA DependentsPublished ==
    ASSUME NEW key \in Keys
    PROVE  /\ "report" \in Dependents(key) => key # "work_plan"
           /\ key = "report" => key # "work_plan"
BY CaseAssumption DEF AllKeys, Dependents

LEMMA KeepsConsistent ==
    ASSUME Consistent(case), Keeps(case)
    PROVE  Consistent(case')
BY DEF Keeps, Consistent, Stands, Published, Confirmed

LEMMA DroppedConsistent ==
    ASSUME \A k \in Derived : case'.conf[k].stamp = 0,
           case'.archived = 0, case'.plan = 0
    PROVE  Consistent(case')
BY DEF Consistent, Stands, Published

LEMMA StoredConsistent ==
    ASSUME NEW c, NEW s, NEW key \in Keys, Consistent(c),
           c.conf[key].stamp \in Nat, s.ev = c.ev,
           s.conf[key].basis = Stamped(c), s.conf[key].ev = c.ev,
           \A k \in Keys \ {key} :
              s.conf[k] = IF k \in Dependents(key) THEN Unconfirmed
                          ELSE c.conf[k],
           s.archived = IF key = "work_plan" THEN c.archived ELSE 0,
           s.plan = 0
    PROVE  Consistent(s)
<1>1. ASSUME NEW k \in Derived, s.conf[k].stamp > 0
      PROVE  /\ s.conf[k].ev = s.ev
             /\ \A u \in Sources(k) : s.conf[k].basis[u] = s.conf[u].stamp
  <2>1. k \in Keys /\ \A u \in Sources(k) : u \in Keys
    BY DEF Derived, Sources
  <2>2. CASE k = key
    <3>1. ASSUME NEW u \in Sources(k)
          PROVE  s.conf[k].basis[u] = s.conf[u].stamp
      <4>1. u # key /\ u \notin Dependents(key)
        BY <2>2, DependentsClosed
      <4>2. s.conf[u] = c.conf[u]
        BY <2>1, <4>1
      <4> QED
        BY <2>1, <2>2, <4>2 DEF Stamped
    <3> QED
      BY <2>2, <3>1
  <2>3. CASE k # key
    <3>1. k \notin Dependents(key)
      BY <1>1, <2>1, <2>3 DEF Unconfirmed
    <3>2. s.conf[k] = c.conf[k]
      BY <2>1, <2>3, <3>1
    <3>3. ASSUME NEW u \in Sources(k)
          PROVE  s.conf[u] = c.conf[u]
      <4>1. u # key /\ u \notin Dependents(key)
        BY <3>1, DependentsClosed
      <4> QED
        BY <2>1, <4>1
    <3>4. Stands(c, k)
      BY DEF Consistent
    <3> QED
      BY <1>1, <3>2, <3>3, <3>4 DEF Stands
  <2> QED
    BY <2>2, <2>3
<1>2. Published(s)
  <2>1. CASE key = "work_plan"
    <3>1. "report" \in Keys => s.conf["report"] = c.conf["report"]
      BY <2>1, DependentsPublished
    <3> QED
      BY <2>1, <3>1 DEF Consistent, Published, Confirmed
  <2> QED
    BY <2>1 DEF Published
<1> QED
  BY <1>1, <1>2 DEF Consistent, Stands

LEMMA ConsistentStep ==
    ASSUME TypeInv, RunInv, ActiveInv, Consistent(case), [Next]_vars
    PROVE  Consistent(case')
<1>1. case \in Inspection /\ ConclusionsHold(case)
  BY DEF TypeInv, Filed
<1>2. ASSUME NEW key \in Keys
      PROVE  case.conf[key].stamp \in Nat /\ case.stamps + 1 \in Nat
             /\ case.ev \in Nat
  BY <1>1 DEF Inspection, Confirmation
<1>3. CASE Keeps(case)
  BY <1>3, KeepsConsistent
<1>4. CASE UNCHANGED case
  BY <1>4
<1>5. CASE Start
  BY <1>3, <1>5, StartOpens DEF OpenedJob, RoundsOver
<1>6. CASE Amend
  <2> DEFINE c == Invalidated(case)
  <2>1. /\ c \in Inspection /\ ConclusionsHold(c)
        /\ \A k \in Keys : c.conf[k] = Unconfirmed
        /\ c.archived = 0 /\ c.plan = 0
    BY <1>1, InvalidatedTyped
  <2>2. case' = [c EXCEPT !.status = "collecting"]
    BY <1>6 DEF Amend
  <2> HIDE DEF c
  <2>3. /\ case'.conf = c.conf
        /\ case'.archived = c.archived /\ case'.plan = c.plan
    BY <2>1, <2>2, StatusTyped
  <2> QED
    BY <2>1, <2>3, DroppedConsistent DEF Derived, Unconfirmed
<1>7. CASE FinishUpload
  BY <1>7, UploadedTyped, DroppedConsistent DEF Derived, Unconfirmed
<1>8. ASSUME NEW key \in Keys, NEW value \in Findings,
             ManualResult(key, value)
      PROVE  Consistent(case')
  <2>1. PICK vouched \in BOOLEAN :
            case'.conf[key] = Conclusion(case.stamps + 1, value, NoJob,
                                         Stamped(case), case.ev, vouched)
    BY <1>8, ManualTyped
  <2>2. /\ case'.conf[key].basis = Stamped(case)
        /\ case'.conf[key].ev = case.ev
    <3>1. Stamped(case) \in Stamps /\ NoJob \in Nat
      BY <1>1, StampedTyped DEF NoJob
    <3> QED
      BY <1>2, <2>1, <3>1, ConclusionTyped
  <2>3. /\ case'.ev = case.ev /\ case'.plan = 0
        /\ case'.archived = IF key = "work_plan" THEN case.archived ELSE 0
        /\ \A k \in Keys \ {key} :
              case'.conf[k] = IF k \in Dependents(key) THEN Unconfirmed
                              ELSE case.conf[k]
    BY <1>8, ManualTyped
  <2> QED
    BY <1>2, <2>2, <2>3, StoredConsistent
<1>9. CASE Archive
  <2>1. /\ "report" \in Confirmed(case)
        /\ case'.archived = case.conf["report"].stamp
        /\ case'.conf = case.conf /\ case'.ev = case.ev
        /\ case'.plan = case.plan
    BY <1>9, ArchiveOpens
  <2> QED
    BY <2>1 DEF Consistent, Stands, Published, Confirmed
<1>10. CASE PublishPlan
  <2>1. /\ "work_plan" \in Confirmed(case)
        /\ case'.plan = case.conf["work_plan"].stamp
        /\ case'.conf = case.conf /\ case'.ev = case.ev
        /\ case'.archived = case.archived
    BY <1>10, PublishedTyped
  <2> QED
    BY <2>1 DEF Consistent, Stands, Published, Confirmed
<1>11. CASE CloseTasks
  BY <1>3, <1>11, ClosedTyped
<1>12. ASSUME NEW action \in {"return", "cancel"}, Stop(action)
       PROVE  Consistent(case')
  BY <1>3, <1>4, <1>12, StoppedTyped
<1>13. ASSUME NEW p \in Procs, Project(p)
       PROVE  Consistent(case')
  <2> DEFINE j == mem[p].job
  <2>1. /\ j \in JobIds
        /\ \/ case' = case
           \/ /\ Projections(j) /\ case.active = j
    BY <1>13, ProjectEffects DEF Rests
  <2> HIDE DEF j
  <2>2. ASSUME NEW c, Ends(j, c)
        PROVE  Keeps(c)
    BY <2>2 DEF Ends, OpenedJob
  <2>3. CASE OpenedJob("observation", Ended("completed"), Applied(j),
                       Retired(j), Tallied(j))
    <3>1. case' = Ended("completed")
      BY <2>3 DEF OpenedJob
    <3>2. Keeps(case)
      BY <1>1, <3>1, EndedTyped DEF Closed, Keeps
    <3> QED
      BY <1>3, <3>2
  <2>4. ASSUME NEW value \in Findings, NEW vouched \in BOOLEAN,
               Stores(j, value, vouched), case.active = j,
               Ends(j, StoredOf(j, value, vouched))
        PROVE  Consistent(case')
    <3> DEFINE s == StoredOf(j, value, vouched)
               key == jobs[j].agent
    <3>1. /\ jobs[j].snapshot = Stamped(case) /\ jobs[j].ev = case.ev
          /\ key \in Keys /\ j \in Nat /\ Stamped(case) \in Stamps
      BY <1>1, <2>1, <2>4, Domains, StampedTyped
         DEF ActiveInv, ActiveJobIsCurrent, Stores
    <3>2. /\ s.conf[key] = Conclusion(case.stamps + 1, value, j,
                                      Stamped(case), case.ev, vouched)
          /\ \A k \in Keys \ {key} :
                s.conf[k] = IF k \in Dependents(key) THEN Unconfirmed
                            ELSE case.conf[k]
          /\ s.archived = IF key = "work_plan" THEN case.archived ELSE 0
          /\ s.plan = 0 /\ s.ev = case.ev
      BY <2>1, <2>4, <3>1, StoredFiled
    <3>3. Keeps(s)
      BY <2>2, <2>4
    <3> HIDE DEF s, key
    <3>4. s.conf[key].basis = Stamped(case) /\ s.conf[key].ev = case.ev
      BY <1>2, <3>1, <3>2, ConclusionTyped
    <3>5. Consistent(s)
      BY <1>2, <3>1, <3>2, <3>4, StoredConsistent
    <3> QED
      BY <3>3, <3>5 DEF Keeps, Consistent, Stands, Published, Confirmed
  <2> QED
    BY <1>3, <1>4, <2>1, <2>2, <2>3, <2>4, ProjectionOpens
<1> QED
  BY <1>4, <1>5, <1>6, <1>7, <1>8, <1>9, <1>10, <1>11, <1>12, <1>13,
     StepKinds, ReviewingRecords DEF Managing

LEMMA ConsistentIsCurrent ==
    ASSUME Consistent(case)
    PROVE  ConclusionsAreCurrent
<1>1. ASSUME NEW key \in Confirmed(case), key \in Derived
      PROVE  /\ case.conf[key].ev = case.ev
             /\ \A u \in Sources(key) :
                   case.conf[key].basis[u] = case.conf[u].stamp
  BY <1>1 DEF Consistent, Stands, Confirmed
<1> QED
  BY <1>1 DEF ConclusionsAreCurrent, Consistent, Published, Derived, Sources,
     Confirmed

(* Every conclusion the case holds was drawn from conclusions and evidence *)
(* the case still holds; the archive and the plan are those of its report  *)
(* and its work plan.                                                      *)
THEOREM ConclusionsCorrect == Spec => []ConclusionsAreCurrent
<1> DEFINE Current == Consistent(case)
<1>1. Init => Current
  <2> SUFFICES ASSUME Init PROVE Consistent(case)
    OBVIOUS
  <2>1. /\ \A k \in Keys : case.conf[k] = Unconfirmed
        /\ case.archived = 0 /\ case.plan = 0
    BY DEF Init
  <2> QED
    BY <2>1 DEF Consistent, Stands, Published, Derived, Unconfirmed
<1>2. TypeInv /\ RunInv /\ ActiveInv /\ Current /\ [Next]_vars => Current'
  BY ConsistentStep
<1>3. Current => ConclusionsAreCurrent
  BY ConsistentIsCurrent
<1> QED
  BY <1>1, <1>2, <1>3, RecordsHold, ActiveHolds, PTL DEF Spec

-----------------------------------------------------------------------------
(* A conclusion of a job is what a reviewer of the inspection let through  *)

(* What the kernel takes for approved is what the recorded review accepts. *)
Vouched(job, run) ==
    run.review = "approved" =>
        job.review.accept /\ run.verdict = job.review.effective

VouchInv == \A j \in JobIds : Vouched(jobs[j], runs[j])

LEMMA VouchedOpened ==
    ASSUME NEW agent, NEW c, NEW queue, NEW started, NEW tally,
           OpenedJob(agent, c, queue, started, tally),
           \A i \in DOMAIN queue : Vouched(queue[i], started[i])
    PROVE  VouchInv'
<1> DEFINE n == Len(queue) + 1
<1>1. /\ DOMAIN jobs' = DOMAIN queue \cup {n} /\ runs'[n] = NoRun
      /\ \A i \in DOMAIN queue : jobs'[i] = queue[i] /\ runs'[i] = started[i]
  BY DEF OpenedJob
<1> HIDE DEF n
<1>2. Vouched(jobs'[n], runs'[n])
  BY <1>1, MarksAreNoRuns DEF Vouched
<1> QED
  BY <1>1, <1>2 DEF VouchInv, JobIds

LEMMA VouchedRetired ==
    ASSUME TypeInv, VouchInv, NEW j \in JobIds
    PROVE  /\ DOMAIN Applied(j) = JobIds
           /\ \A i \in JobIds : Vouched(Applied(j)[i], Retired(j)[i])
<1>1. /\ DOMAIN Applied(j) = JobIds
      /\ \A i \in JobIds : i # j => Applied(j)[i] = jobs[i]
  BY JobApplied
<1>2. /\ Retired(j)[j] = Spent
      /\ \A i \in JobIds : i # j => Retired(j)[i] = runs[i]
  BY RunReplaced DEF Retired, RunRecords
<1>3. Vouched(Applied(j)[j], Retired(j)[j])
  BY <1>2, MarksAreNoRuns DEF Vouched
<1> QED
  BY <1>1, <1>2, <1>3 DEF VouchInv

(* The run of one job changes, and the jobs stay.                          *)
LEMMA VouchedRun ==
    ASSUME TypeInv, VouchInv, NEW j \in JobIds, NEW x \in Kernel!RunRecord,
           runs' = [runs EXCEPT ![j] = x], jobs' = jobs,
           Vouched(jobs[j], x)
    PROVE  VouchInv'
<1>1. runs'[j] = x /\ \A i \in JobIds : i # j => runs'[i] = runs[i]
  BY RunReplaced DEF RunRecords
<1> QED
  BY <1>1 DEF VouchInv, JobIds

LEMMA VouchedFollows ==
    ASSUME TypeInv, VouchInv, NEW j \in JobIds, RunFollows(j), jobs' = jobs
    PROVE  VouchInv'
<1>1. PICK x \in Kernel!RunRecord :
          runs' = [runs EXCEPT ![j] = x] /\ Follows(Outputs(j), runs[j], x)
  BY DEF RunFollows
<1>2. Vouched(jobs[j], x)
  BY <1>1 DEF VouchInv, Vouched, Follows
<1> QED
  BY <1>1, <1>2, VouchedRun

LEMMA VouchedDecided ==
    ASSUME TypeInv, VouchInv, NEW j \in JobIds, jobs' = jobs,
           RunDecided(j, DecisionOf(jobs[j].review),
                      jobs[j].review.effective)
    PROVE  VouchInv'
<1>1. PICK x \in Kernel!RunRecord :
          /\ runs' = [runs EXCEPT ![j] = x]
          /\ x.review = "approved" =>
                DecisionOf(jobs[j].review) = "approved"
                /\ x.verdict = jobs[j].review.effective
  BY DEF RunDecided
<1>2. Vouched(jobs[j], x)
  BY <1>1 DEF Vouched, DecisionOf
<1> QED
  BY <1>1, <1>2, VouchedRun

(* The reviews and the runs stay as they are.                              *)
LEMMA VouchedKept ==
    ASSUME VouchInv, runs' = runs, DOMAIN jobs' = JobIds, ReviewsKept
    PROVE  VouchInv'
BY DEF VouchInv, Vouched, ReviewsKept, JobIds

(* A review is recorded where there was none, so that the run waits.       *)
LEMMA VouchedRecorded ==
    ASSUME TypeInv, VouchInv, NEW j \in JobIds, NEW review \in Review,
           Record(j, review), jobs[j].review = NoReview
    PROVE  VouchInv'
<1>1. /\ runs' = runs /\ JobsLike
      /\ \A i \in JobIds : i # j => jobs'[i].review = jobs[i].review
  BY RecordedLike DEF Record, kernelVars
<1>2. runs[j].review # "approved"
  BY DEF VouchInv, Vouched, NoReview
<1> QED
  BY <1>1, <1>2 DEF VouchInv, Vouched, JobsLike, JobIds

LEMMA VouchCommand ==
    ASSUME TypeInv, VouchInv, Command
    PROVE  VouchInv'
<1>1. CASE Start
  <2>1. CASE RoundsOver(case, jobs, runs, projected)
    BY <2>1 DEF RoundsOver, VouchInv, JobIds
  <2> QED
    BY <1>1, <2>1, StartOpens, VouchedOpened DEF VouchInv, JobIds
<1>2. CASE Archive
  <2>1. OpenedJob("observation", ArchivedCase, jobs, runs, projected)
    BY <1>2, ArchiveOpens
  <2> QED
    BY <2>1, VouchedOpened DEF VouchInv, JobIds
<1>3. CASE UNCHANGED <<jobs, runs>>
  BY <1>3 DEF VouchInv, JobIds
<1>4. CASE \/ Amend \/ FinishUpload \/ PublishPlan \/ CloseTasks
           \/ \E key \in Keys, value \in Findings : ManualResult(key, value)
  BY <1>3, <1>4 DEF Amend, FinishUpload, PublishPlan, CloseTasks,
     ManualResult, kernelVars
<1>5. ASSUME NEW action \in {"return", "cancel"}, Stop(action)
      PROVE  VouchInv'
  <2>1. JobsLike /\ ReviewsKept
    BY <1>5, StoppedLike DEF ReviewsKept
  <2>2. runs' = runs
    BY <1>5 DEF Stop, kernelVars
  <2> QED
    BY <2>1, <2>2, VouchedKept DEF JobsLike
<1>6. ASSUME NEW j \in JobIds,
             NEW action \in {"approve", "modify", "retry", "skip", "return",
                             "manual"},
             Dispatch(j, action)
      PROVE  VouchInv'
  <2>1. PICK review \in Review : DispatchReview(j, action, review)
    BY <1>6, DispatchRecords
  <2>2. Record(j, review)
    BY <2>1 DEF DispatchReview
  <2>3. jobs[j].review = NoReview
    BY <1>6, DispatchRecords
  <2> QED
    BY <2>2, <2>3, VouchedRecorded
<1>7. ASSUME NEW j \in JobIds, NEW accept \in BOOLEAN, NEW edited \in Results,
             ReviewResult(j, accept, edited)
      PROVE  VouchInv'
  <2>1. PICK review \in Review : Record(j, review)
    BY <1>7, ReviewResultRecords
  <2>2. jobs[j].review = NoReview
    BY <1>7, ReviewResultRecords
  <2> QED
    BY <2>1, <2>2, VouchedRecorded
<1>8. CASE Managing
  BY <1>1, <1>2, <1>4, <1>5, <1>8 DEF Managing
<1>9. CASE Reviewing
  <2>1. PICK j \in JobIds :
            \/ \E action \in {"approve", "modify", "retry", "skip", "return",
                              "manual"} : Dispatch(j, action)
            \/ \E accept \in BOOLEAN, edited \in Results :
                  ReviewResult(j, accept, edited)
    BY <1>9 DEF Reviewing
  <2> QED
    BY <1>6, <1>7, <2>1
<1>10. CASE \/ UploadRefused
            \/ \E kind \in {"before", "context"} : BeginUpload(kind, NoValue)
            \/ \E issue \in KnownIssues(case) : BeginUpload("after", issue)
  BY <1>3, <1>10 DEF UploadRefused, BeginUpload, kernelVars
<1> QED
  BY <1>8, <1>9, <1>10 DEF Command, Managing, Reviewing

LEMMA VouchProcess ==
    ASSUME TypeInv, RunInv, VouchInv, NEW p \in Procs,
           \/ Flush(p) \/ Project(p) \/ ProjectNothing(p) \/ Die(p)
           \/ \E j \in JobIds : ScanJob(p, j) \/ ReadRun(p, j)
    PROVE  VouchInv'
<1> DEFINE j == mem[p].job
<1>1. CASE UNCHANGED <<jobs, runs>>
  BY <1>1 DEF VouchInv, JobIds
<1>2. CASE FlushStop(p)
  <2>1. jobs' = jobs /\ j \in JobIds /\ jobs[j].known
    BY <1>2, FlushStopFollows DEF RunInv, Remembers, FlushStop
  <2>2. runs[j] # NoRun
    BY <2>1 DEF RunInv, JobInv
  <2> HIDE DEF j
  <2>3. runs' = runs \/ RunFollows(j)
    BY <1>2, <2>2, FlushStopFollows DEF j
  <2> QED
    BY <1>1, <2>1, <2>3, VouchedFollows
<1>3. CASE FlushReview(p)
  <2>1. \A i \in JobIds : jobs[i].review.accept =>
                             jobs[i].review.effective \in Outputs(i)
    BY DEF RunInv, JobInv, Outputs
  <2>2. /\ j \in JobIds /\ jobs' = jobs
        /\ \/ runs' = runs
           \/ RunDecided(j, DecisionOf(jobs[j].review),
                         jobs[j].review.effective)
    BY <1>3, <2>1, FlushReviewDecides DEF FlushReview
  <2> HIDE DEF j
  <2> QED
    BY <1>1, <2>2, VouchedDecided
<1>4. CASE FlushSubmit(p)
  <2>1. jobs' = jobs /\ j \in JobIds
    BY <1>4 DEF FlushSubmit, TypeInv
  <2>2. CASE runs' = runs
    BY <1>1, <2>1, <2>2
  <2>3. CASE runs' # runs
    <3> DEFINE gated == jobs[j].agent # "observation"
               x == Kernel!Submitted(gated)
    <3>1. runs' = [runs EXCEPT ![j] = x]
      BY <1>4, <2>3 DEF FlushSubmit
    <3>2. x \in Kernel!RunRecord /\ x.review = "none"
      <4>1. gated \in BOOLEAN
        OBVIOUS
      <4> HIDE DEF gated
      <4> QED
        BY <4>1, SubmittedTyped
    <3> HIDE DEF x, j
    <3>3. Vouched(jobs[j], x)
      BY <3>2 DEF Vouched
    <3> QED
      BY <2>1, <3>1, <3>2, <3>3, VouchedRun
  <2> QED
    BY <2>2, <2>3
<1>5. CASE FlushRecord(p)
  <2>1. /\ runs' = runs /\ JobsLike /\ ReviewsKept
    BY <1>5, NotedLike DEF FlushRecord, kernelVars, ReviewsKept
  <2> QED
    BY <2>1, VouchedKept DEF JobsLike
<1>6. CASE Project(p)
  <2>1. j \in JobIds /\ (Rests(j, case) \/ Projections(j))
    BY <1>6, ProjectEffects
  <2> HIDE DEF j
  <2>2. /\ DOMAIN Applied(j) = JobIds
        /\ \A i \in JobIds : Vouched(Applied(j)[i], Retired(j)[i])
    BY <2>1, VouchedRetired
  <2>3. CASE jobs' = Applied(j) /\ runs' = Retired(j)
    BY <2>2, <2>3 DEF VouchInv, JobIds
  <2>4. ASSUME NEW agent, NEW c,
               OpenedJob(agent, c, Applied(j), Retired(j), Tallied(j))
        PROVE  VouchInv'
    BY <2>2, <2>4, VouchedOpened
  <2>5. CASE Projections(j)
    BY <2>1, <2>3, <2>4, <2>5, ProjectionOpens DEF Ends
  <2> QED
    BY <2>1, <2>3, <2>5 DEF Rests
<1>7. CASE \/ ProjectNothing(p) \/ Die(p)
           \/ \E i \in JobIds : ScanJob(p, i) \/ ReadRun(p, i)
  BY <1>1, <1>7 DEF ProjectNothing, Die, ScanJob, ReadRun, kernelVars
<1> QED
  BY <1>2, <1>3, <1>4, <1>5, <1>6, <1>7 DEF Flush

LEMMA VouchStep ==
    ASSUME ~Native, TypeInv, RunInv, VouchInv, [Next]_vars
    PROVE  VouchInv'
<1>1. CASE UNCHANGED vars
  BY <1>1 DEF vars, VouchInv, JobIds
<1>2. ASSUME NEW j \in JobIds,
             KernelStep(j) \/ Disturb(j) \/ Reconcile(j) \/ NativeDecide(j)
      PROVE  VouchInv'
  <2>1. ~NativeDecide(j)
    BY DEF NativeDecide
  <2>2. jobs' = jobs
    BY <1>2 DEF KernelStep, Disturb, Reconcile, NativeDecide
  <2> QED
    BY <1>2, <2>1, <2>2, KernelActionFollows, VouchedFollows
<1> QED
  BY <1>1, <1>2, VouchCommand, VouchProcess DEF Next

(* Conclusions that are kept or dropped were vouched for as before.        *)
LEMMA ReviewedKept ==
    ASSUME ConfirmedAsReviewed,
           \A k \in Keys : case'.conf[k] = case.conf[k]
                           \/ case'.conf[k] = Unconfirmed
    PROVE  ConfirmedAsReviewed'
BY DEF ConfirmedAsReviewed, Confirmed, Unconfirmed

LEMMA ReviewedStored ==
    ASSUME ConfirmedAsReviewed, NEW key \in Keys,
           case'.conf[key].by # NoJob => case'.conf[key].vouched,
           \A k \in Keys \ {key} :
              case'.conf[k] = IF k \in Dependents(key) THEN Unconfirmed
                              ELSE case.conf[k]
    PROVE  ConfirmedAsReviewed'
BY DEF ConfirmedAsReviewed, Confirmed, Unconfirmed

(* What a run that succeeded committed is what the reviewer accepted.      *)
LEMMA StoresVouched ==
    ASSUME TypeInv, RunInv, VouchInv, NEW j \in JobIds, NEW value,
           NEW vouched \in BOOLEAN, Stores(j, value, vouched)
    PROVE  vouched
<1>1. /\ runs[j] \in Kernel!RunRecord /\ runs[j].status = "succeeded"
      /\ jobs[j].agent # "observation" /\ jobs[j].stop = "none"
  BY AgentsApart DEF Stores
<1>2. runs[j].gated /\ Sound(OutputsOf(jobs[j].agent), runs[j])
  BY <1>1, MarksAreNoRuns DEF RunInv, JobInv
<1>3. runs[j].review = "approved" /\ runs[j].value = runs[j].verdict
  BY <1>1, <1>2 DEF Sound
<1>4. jobs[j].review.accept /\ runs[j].verdict = jobs[j].review.effective
  BY <1>3 DEF VouchInv, Vouched
<1> QED
  BY <1>1, <1>3, <1>4 DEF Stores

LEMMA ReviewedStep ==
    ASSUME TypeInv, RunInv, VouchInv, ConfirmedAsReviewed, [Next]_vars
    PROVE  ConfirmedAsReviewed'
<1>1. case \in Inspection /\ ConclusionsHold(case)
  BY DEF TypeInv, Filed
<1>2. case.stamps + 1 \in Nat /\ case.ev \in Nat
  BY <1>1 DEF Inspection
<1>3. CASE case'.conf = case.conf
  BY <1>3, ReviewedKept
<1>4. CASE Start
  BY <1>3, <1>4, StartOpens DEF OpenedJob, RoundsOver, Keeps
<1>5. CASE Amend
  <2> DEFINE c == Invalidated(case)
  <2>1. /\ c \in Inspection /\ ConclusionsHold(c)
        /\ \A k \in Keys : c.conf[k] = Unconfirmed
    BY <1>1, InvalidatedTyped
  <2>2. case' = [c EXCEPT !.status = "collecting"]
    BY <1>5 DEF Amend
  <2> HIDE DEF c
  <2>3. case'.conf = c.conf
    BY <2>1, <2>2, StatusTyped
  <2> QED
    BY <2>1, <2>3, ReviewedKept
<1>6. CASE FinishUpload
  BY <1>6, UploadedTyped, ReviewedKept
<1>7. ASSUME NEW key \in Keys, NEW value \in Findings,
             ManualResult(key, value)
      PROVE  ConfirmedAsReviewed'
  <2>1. PICK vouched \in BOOLEAN :
            case'.conf[key] = Conclusion(case.stamps + 1, value, NoJob,
                                         Stamped(case), case.ev, vouched)
    BY <1>7, ManualTyped
  <2>2. Stamped(case) \in Stamps /\ NoJob \in Nat
    BY <1>1, StampedTyped DEF NoJob
  <2>3. case'.conf[key].by = NoJob
    BY <1>2, <2>1, <2>2, ConclusionTyped
  <2>4. \A k \in Keys \ {key} :
           case'.conf[k] = IF k \in Dependents(key) THEN Unconfirmed
                           ELSE case.conf[k]
    BY <1>7, ManualTyped
  <2> QED
    BY <2>3, <2>4, ReviewedStored
<1>8. CASE Archive \/ PublishPlan \/ CloseTasks
  BY <1>3, <1>8, ArchiveOpens, PublishedTyped, ClosedTyped DEF Keeps
<1>9. ASSUME NEW action \in {"return", "cancel"}, Stop(action)
      PROVE  ConfirmedAsReviewed'
  BY <1>3, <1>9, StoppedTyped DEF Keeps
<1>10. ASSUME NEW p \in Procs, Project(p)
       PROVE  ConfirmedAsReviewed'
  <2> DEFINE j == mem[p].job
  <2>1. j \in JobIds /\ (case' = case \/ Projections(j))
    BY <1>10, ProjectEffects DEF Rests
  <2> HIDE DEF j
  <2>2. ASSUME NEW c, Ends(j, c)
        PROVE  case'.conf = c.conf
    BY <2>2 DEF Ends, OpenedJob, Keeps
  <2>3. CASE OpenedJob("observation", Ended("completed"), Applied(j),
                       Retired(j), Tallied(j))
    <3>1. case' = Ended("completed")
      BY <2>3 DEF OpenedJob
    <3> QED
      BY <1>1, <1>3, <3>1, EndedTyped DEF Closed
  <2>4. ASSUME NEW value \in Findings, NEW vouched \in BOOLEAN,
               Stores(j, value, vouched),
               Ends(j, StoredOf(j, value, vouched))
        PROVE  ConfirmedAsReviewed'
    <3> DEFINE key == jobs[j].agent
    <3>1. /\ key \in Keys /\ j \in Nat
          /\ jobs[j].snapshot \in Stamps /\ jobs[j].ev \in Nat
      BY <2>1, <2>4, JobTyped, Domains DEF Stores, Job
    <3>2. /\ case'.conf[key] = Conclusion(case.stamps + 1, value, j,
                                          jobs[j].snapshot, jobs[j].ev,
                                          vouched)
          /\ \A k \in Keys \ {key} :
                case'.conf[k] = IF k \in Dependents(key) THEN Unconfirmed
                                ELSE case.conf[k]
      BY <2>1, <2>2, <2>4, StoredFiled
    <3>3. case'.conf[key].vouched = vouched
      BY <1>2, <3>1, <3>2, ConclusionTyped
    <3>4. vouched
      BY <2>1, <2>4, StoresVouched
    <3> HIDE DEF key
    <3> QED
      BY <3>1, <3>2, <3>3, <3>4, ReviewedStored
  <2> QED
    BY <1>3, <2>1, <2>2, <2>3, <2>4, ProjectionOpens
<1> QED
  BY <1>3, <1>4, <1>5, <1>6, <1>7, <1>8, <1>9, <1>10, StepKinds,
     ReviewingRecords DEF Managing

(* While reviewers use the inspection and not the kernel's own approval    *)
(* endpoint, a conclusion that a job contributed is the value its reviewer *)
(* confirmed, and no job that was stopped contributed any.                 *)
THEOREM ReviewedCorrect ==
    ASSUME ~Native
    PROVE  Spec => []ConfirmedAsReviewed
<1>1. Init => VouchInv /\ ConfirmedAsReviewed
  <2> SUFFICES ASSUME Init PROVE VouchInv /\ ConfirmedAsReviewed
    OBVIOUS
  <2>1. \A k \in Keys : case.conf[k] = Unconfirmed
    BY DEF Init
  <2>2. VouchInv
    BY DEF Init, VouchInv, JobIds
  <2> QED
    BY <2>1, <2>2 DEF ConfirmedAsReviewed, Confirmed, Unconfirmed
<1>2. TypeInv /\ RunInv /\ VouchInv /\ [Next]_vars => VouchInv'
  BY VouchStep
<1>3. TypeInv /\ RunInv /\ VouchInv /\ ConfirmedAsReviewed /\ [Next]_vars
         => ConfirmedAsReviewed'
  BY ReviewedStep
<1> QED
  BY <1>1, <1>2, <1>3, RecordsHold, PTL DEF Spec
=============================================================================
