--------------------------- MODULE ServiceProofs ----------------------------
(* Services of CPS, the episode memory and the review of a construction plan, *)
(* each an instance of its module: for any number of requests, executions and *)
(* verdicts, wherever they are interleaved and cut off, and for any plan.     *)
EXTENDS FiniteSetTheorems, SequenceTheorems, TLAPS

CONSTANTS Callers, Requests, Overalls, MaxAttempts, PushLimit, MaxCrashes, MaxVerdicts,
          Hours, Results, Upstream, Table, Groups, Limit, TopK, MaxCount, Retries,
          WorkTypes, Chapters
VARIABLES row, call, heard, answered, late, crashes, deliverable, judged, task, transit,
          java, overlapped, dialect, rows, archive, pushes, dto, entry, pattern, cluster

Review == INSTANCE InitialReview
Callbacks == INSTANCE RoomCallbacks
Weekly == INSTANCE WeeklyReport
Episodes == INSTANCE SkillMemory
Plans == INSTANCE PlanReview

(* The cardinality that the instances speak of.                               *)
LEMMA Counted ==
  \A S : Review!Cardinality(S) = Cardinality(S) /\ Weekly!Cardinality(S) = Cardinality(S)
  <1>1. \A S : Review!Cardinality(S) = Cardinality(S)
    BY DEF Review!Cardinality, Cardinality
  <1>2. \A S : Weekly!Cardinality(S) = Cardinality(S)
    BY DEF Weekly!Cardinality, Cardinality
  <1> QED
    BY <1>1, <1>2

-----------------------------------------------------------------------------
(* The initial review (InitialReview).                                        *)

(* One outcome of an initial review is told, for any number of requests,      *)
(* attempts, re-pushes and process deaths.                                    *)

ReviewOutcomes == Overalls \cup {"none", "CHECK_ERROR", "TIMEOUT"}
Bodies == [of : Requests \cup {"none"}, outcome : ReviewOutcomes]

ReviewWhys == {"none", "natural", "replay", "manual"}
ReviewCalls == [at : {"idle", "loading", "checking", "delivering", "posting", "recording", "done"},
                created : BOOLEAN, why : ReviewWhys, body : Bodies, base : Nat, tries : Nat, ok : BOOLEAN]
ReviewAnswers == [first : Callers \cup {"none"}, outcome : ReviewOutcomes]

ReviewTypes ==
  /\ row \in [status : {"ABSENT", "RUNNING", "COMPLETED", "FAILED"}, outcome : ReviewOutcomes,
              snapshot : Requests \cup {"none"}, attempts : Nat]
  /\ call \in [Callers -> ReviewCalls]
  /\ heard \subseteq [by : Callers, why : ReviewWhys, body : Bodies]
  /\ answered \subseteq ReviewAnswers

(* Before the row has ended nothing is told but that it runs, and nobody has  *)
(* the natural callback to send; after that the row says the same for ever.   *)
Unended ==
  /\ row.status = "ABSENT" => answered = {} /\ \A c \in Callers : ~call[c].created
  /\ ~Review!Terminal =>
       /\ row.outcome = "none" /\ heard = {}
       /\ \A a \in answered : a = [first |-> "none", outcome |-> "none"]
       /\ \A c \in Callers : call[c].why # "natural"

(* What is posted and heard is the body of the row; the natural callback has  *)
(* one sender.                                                                *)
Bodied ==
  /\ \A c \in Callers : call[c].at = "posting"
                         => Review!Terminal /\ call[c].body = Review!build_callback_payload
  /\ \A h \in heard : Review!Terminal /\ h.body = Review!build_callback_payload
  /\ \A c, d \in Callers : call[c].why = "natural" /\ call[d].why = "natural" => c = d
  /\ \A h \in heard, c \in Callers : h.why = "natural" /\ call[c].why = "natural" => h.by = c
  /\ \A g, h \in heard : g.why = "natural" /\ h.why = "natural" => g.by = h.by

(* One request has created the row, and nobody else is told so.               *)
First ==
  /\ \A a \in answered : a.outcome = row.outcome \/ a = [first |-> "none", outcome |-> "none"]
  /\ \A c, d \in Callers : call[c].created /\ call[d].created => c = d
  /\ \A a \in answered, c \in Callers : a.first # "none" /\ call[c].created => a.first = c
  /\ \A a, b \in answered : a.first # "none" /\ b.first # "none" => a.first = b.first

ReviewInv == ReviewTypes /\ Unended /\ Bodied /\ First

LEMMA AtMostOne ==
  ASSUME NEW S, \A x, y \in S : x = y
  PROVE  Cardinality(S) <= 1
<1>1. CASE S = {}
    BY <1>1, FS_EmptySet
<1>2. CASE S # {}
    <2>1. PICK x \in S : S = {x}
        BY <1>2
    <2> QED
        BY <2>1, FS_Singleton
<1> QED
    BY <1>1, <1>2

LEMMA Told == ReviewInv => Review!OneOutcomeTold
<1> SUFFICES ASSUME ReviewInv PROVE Review!OneOutcomeTold
    OBVIOUS
<1> USE DEF ReviewInv, ReviewTypes, Bodied, First
<1>1. \A g, h \in {h \in heard : h.why = "natural"} : g = h
    OBVIOUS
<1>2. \A a, b \in {a \in answered : a.first # "none"} : a = b
    BY DEF ReviewAnswers
<1> QED
    BY <1>1, <1>2, AtMostOne, Counted DEF Review!OneOutcomeTold

(* What an action that is the caller c's and leaves the row as it is, or ends *)
(* it, has to keep.                                                           *)
LEMMA Kept ==
  ASSUME ReviewInv, ReviewTypes', NEW c \in Callers,
         \A d \in Callers : d # c => call'[d] = call[d],
         row' = row \/ (~Review!Terminal /\ row.status # "ABSENT" /\ Review!Terminal'),
         heard' = heard,
         \A a \in answered' : a \in answered \/
           /\ Review!Terminal' /\ a.outcome = row'.outcome
           /\ a.first = IF call[c].created THEN c ELSE "none",
         call'[c].created => call[c].created,
         call'[c].why = "natural" => call[c].why = "natural" \/ (~Review!Terminal /\ Review!Terminal'),
         call'[c].at = "posting"
           => Review!Terminal' /\ row' = row /\ call'[c].body = Review!build_callback_payload
  PROVE  ReviewInv'
<1> USE DEF ReviewInv
<1>1. row.status = "ABSENT" => answered' = {} /\ \A d \in Callers : ~call'[d].created
    BY DEF Unended, Review!Terminal
<1>2. Unended'
    BY <1>1 DEF Unended, Review!Terminal
<1>3. Bodied'
    <2>1. Review!Terminal
            => /\ row' = row
               /\ Review!build_callback_payload' = Review!build_callback_payload
               /\ Review!Terminal'
        BY DEF Review!build_callback_payload, Review!Terminal
    <2>2. ~Review!Terminal => heard' = {} /\ \A d \in Callers : d # c => call'[d].why # "natural"
        BY DEF Unended
    <2>3. \A d \in Callers : call'[d].at = "posting" =>
             Review!Terminal' /\ call'[d].body = Review!build_callback_payload'
        <3> TAKE d \in Callers
        <3>1. CASE d = c
            BY <3>1 DEF Review!build_callback_payload
        <3>2. CASE d # c
            BY <3>2, <2>1 DEF Bodied
        <3> QED
            BY <3>1, <3>2
    <2>4. \A h \in heard' : Review!Terminal' /\ h.body = Review!build_callback_payload'
        BY <2>1, <2>2 DEF Bodied
    <2>5. \A d, e \in Callers : call'[d].why = "natural" /\ call'[e].why = "natural" => d = e
        BY <2>2 DEF Bodied
    <2>6. \A h \in heard', d \in Callers : h.why = "natural" /\ call'[d].why = "natural" => h.by = d
        BY <2>2 DEF Bodied
    <2>7. \A g, h \in heard' : g.why = "natural" /\ h.why = "natural" => g.by = h.by
        BY DEF Bodied
    <2> QED
        BY <2>3, <2>4, <2>5, <2>6, <2>7 DEF Bodied
<1>4. First'
    BY DEF Unended, First
<1> QED
    BY <1>2, <1>3, <1>4

(* What the updates of a caller leave and what they set.                      *)
LEMMA Moved ==
  ASSUME ReviewTypes, NEW c \in Callers, NEW v \in ReviewCalls, call' = [call EXCEPT ![c] = v]
  PROVE  /\ call' \in [Callers -> ReviewCalls]
         /\ call'[c] = v
         /\ \A d \in Callers : d # c => call'[d] = call[d]
BY DEF ReviewTypes

LEMMA GoesTyped ==
  ASSUME ReviewTypes, NEW c \in Callers,
         Review!Goes(c, "loading") \/ Review!Goes(c, "checking") \/ Review!Goes(c, "done")
  PROVE  /\ call' \in [Callers -> ReviewCalls]
         /\ call'[c].at \in {"loading", "checking", "done"}
         /\ call'[c].why = call[c].why /\ call'[c].created = call[c].created
         /\ \A d \in Callers : d # c => call'[d] = call[d]
<1>1. PICK at \in {"loading", "checking", "done"} : Review!Goes(c, at)
    OBVIOUS
<1> DEFINE v == [call[c] EXCEPT !.at = at]
<1>2. call[c] \in ReviewCalls
    BY DEF ReviewTypes
<1>3. v \in ReviewCalls /\ v.at = at /\ v.why = call[c].why /\ v.created = call[c].created
    BY <1>2 DEF ReviewCalls
<1>4. call' = [call EXCEPT ![c] = v]
    BY <1>1 DEF Review!Goes
<1> QED
    BY <1>3, <1>4, Moved

LEMMA DispatchedTyped ==
  ASSUME ReviewTypes, NEW c \in Callers, NEW w \in ReviewWhys, Review!Dispatched(c, w)
  PROVE  /\ call' \in [Callers -> ReviewCalls]
         /\ call'[c].at = "delivering" /\ call'[c].why = w /\ call'[c].created = call[c].created
         /\ \A d \in Callers : d # c => call'[d] = call[d]
<1> DEFINE v == [call[c] EXCEPT !.at = "delivering", !.why = w]
<1>2. call[c] \in ReviewCalls
    BY DEF ReviewTypes
<1>3. v \in ReviewCalls /\ v.at = "delivering" /\ v.why = w /\ v.created = call[c].created
    BY <1>2 DEF ReviewCalls
<1>4. call' = [call EXCEPT ![c] = v]
    BY <1>2 DEF Review!Dispatched, ReviewTypes
<1> QED
    BY <1>3, <1>4, Moved

LEMMA ReviewStep == ReviewInv /\ [Review!Next]_Review!vars => ReviewInv'
<1> SUFFICES ASSUME ReviewInv, [Review!Next]_Review!vars PROVE ReviewInv'
    OBVIOUS
<1>t. ReviewTypes
    BY DEF ReviewInv
<1>b. Review!build_callback_payload \in Bodies
    BY <1>t DEF ReviewTypes, Review!build_callback_payload, Bodies
<1>1. ASSUME NEW c \in Callers, NEW r \in Requests, Review!Submit(c, r) PROVE ReviewInv'
    <2>a. CASE /\ row.status = "ABSENT"
               /\ row' = [Review!NoRow EXCEPT !.status = "RUNNING", !.snapshot = Review!snapshot(r)]
               /\ call' = [call EXCEPT ![c].at = "loading", ![c].created = TRUE]
               /\ UNCHANGED answered
        <3>1. /\ row' = [status |-> "RUNNING", outcome |-> "none", snapshot |-> r, attempts |-> 0]
              /\ heard' = heard /\ answered' = answered
            BY <1>1, <2>a DEF Review!Submit, Review!NoRow, Review!snapshot
        <3> DEFINE v == [call[c] EXCEPT !.at = "loading", !.created = TRUE]
        <3>0. call[c] \in ReviewCalls
            BY <1>t DEF ReviewTypes
        <3>v. v \in ReviewCalls /\ v.at = "loading" /\ v.why = call[c].why
            BY <3>0 DEF ReviewCalls
        <3>m. call' = [call EXCEPT ![c] = v]
            BY <2>a, <3>0, <1>t DEF ReviewTypes
        <3> HIDE DEF v
        <3>2. /\ \A d \in Callers : d # c => call'[d] = call[d]
              /\ call'[c].at = "loading" /\ call'[c].why = call[c].why
            BY <3>v, <3>m, <1>t, Moved
        <3>3. call' \in [Callers -> ReviewCalls]
            BY <3>v, <3>m, <1>t, Moved
        <3>4. ReviewTypes'
            BY <1>t, <3>1, <3>3 DEF ReviewTypes, ReviewOutcomes
        <3>5. Unended'
            <4>1. /\ answered' = {} /\ heard' = {}
                  /\ \A d \in Callers : call[d].why # "natural"
                BY <2>a, <3>1 DEF ReviewInv, Unended, Review!Terminal
            <4>2. \A d \in Callers : call'[d].why # "natural"
                BY <4>1, <3>2
            <4>3. row'.status = "RUNNING" /\ row'.outcome = "none"
                BY <3>1
            <4> QED
                BY <4>1, <4>2, <4>3 DEF Unended
        <3>6. Bodied'
            <4>1. heard = {} /\ \A d \in Callers : call[d].why # "natural"
                BY <2>a DEF ReviewInv, Unended, Review!Terminal
            <4>2. \A d \in Callers : call[d].at # "posting"
                BY <2>a DEF ReviewInv, Bodied, Review!Terminal
            <4>3. \A d \in Callers : call'[d].at # "posting" /\ call'[d].why # "natural"
                BY <4>1, <4>2, <3>2
            <4> QED
                BY <4>1, <4>3, <3>1 DEF Bodied
        <3>7. First'
            <4>1. answered' = {} /\ \A d \in Callers : ~call[d].created
                BY <2>a, <3>1 DEF ReviewInv, Unended
            <4>2. \A d \in Callers : call'[d].created => d = c
                BY <4>1, <3>2
            <4> QED
                BY <4>1, <4>2 DEF First
        <3> QED
            BY <3>4, <3>5, <3>6, <3>7 DEF ReviewInv
    <2>b. CASE Review!Goes(c, "loading") /\ UNCHANGED <<row, answered>>
        <3>1. /\ \A d \in Callers : d # c => call'[d] = call[d]
              /\ call'[c].at # "posting" /\ call'[c].why = call[c].why
              /\ call'[c].created = call[c].created
              /\ call' \in [Callers -> ReviewCalls]
            BY <2>b, <1>t, GoesTyped
        <3>2. ReviewTypes' /\ heard' = heard
            BY <1>1, <2>b, <3>1, <1>t DEF Review!Submit, ReviewTypes
        <3>3. \A a \in answered' : a \in answered \/
                (/\ Review!Terminal' /\ a.outcome = row'.outcome
                 /\ a.first = IF call[c].created THEN c ELSE "none")
            BY <2>b
        <3> QED
            BY <2>b, <3>1, <3>2, <3>3, Kept
    <2>c. CASE /\ Review!Terminal
               /\ Review!Dispatched(c, "replay")
               /\ UNCHANGED row
               /\ answered' = answered \cup {Review!submit_response(c)}
        <3>1. /\ \A d \in Callers : d # c => call'[d] = call[d]
              /\ call'[c].at = "delivering" /\ call'[c].why = "replay"
              /\ call'[c].created = call[c].created
              /\ call' \in [Callers -> ReviewCalls]
            BY <2>c, <1>t, DispatchedTyped DEF ReviewWhys
        <3>h. heard' = heard
            BY <1>1 DEF Review!Submit
        <3>2. Review!Terminal'
            BY <2>c DEF Review!Terminal
        <3>3. /\ Review!submit_response(c) \in ReviewAnswers
              /\ Review!submit_response(c).outcome = row'.outcome
              /\ Review!submit_response(c).first = IF call[c].created THEN c ELSE "none"
            BY <2>c, <1>t DEF Review!submit_response, ReviewAnswers, ReviewTypes
        <3>5. ReviewTypes'
            BY <1>t, <2>c, <3>1, <3>h, <3>3 DEF ReviewTypes
        <3> QED
            BY <2>c, <3>1, <3>2, <3>3, <3>5, <3>h, Kept
    <2> QED
        BY <1>1, <2>a, <2>b, <2>c DEF Review!Submit
<1>2. ASSUME NEW c \in Callers, Review!Load(c) PROVE ReviewInv'
    <2>1. /\ \A d \in Callers : d # c => call'[d] = call[d]
          /\ call'[c].at # "posting" /\ call'[c].why = call[c].why
          /\ call'[c].created = call[c].created
          /\ call' \in [Callers -> ReviewCalls]
        BY <1>2, <1>t, GoesTyped DEF Review!Load
    <2>2. /\ heard' = heard /\ row' = row
          /\ \/ answered' = answered
             \/ Review!Terminal' /\ answered' = answered \cup {Review!submit_response(c)}
        BY <1>2 DEF Review!Load, Review!Terminal
    <2>3. /\ Review!submit_response(c) \in ReviewAnswers
          /\ Review!submit_response(c).outcome = row'.outcome
          /\ Review!submit_response(c).first = IF call[c].created THEN c ELSE "none"
        BY <2>2, <1>t DEF Review!submit_response, ReviewAnswers, ReviewTypes
    <2>4. ReviewTypes'
        BY <1>t, <2>1, <2>2, <2>3 DEF ReviewTypes
    <2>5. \A a \in answered' : a \in answered \/
            (/\ Review!Terminal' /\ a.outcome = row'.outcome
             /\ a.first = IF call[c].created THEN c ELSE "none")
        BY <2>2, <2>3
    <2> QED
        BY <2>1, <2>2, <2>4, <2>5, Kept
<1>3. ASSUME NEW c \in Callers, Review!Execute(c) PROVE ReviewInv'
    <2>1. \/ /\ \E end \in {"COMPLETED", "FAILED"}, outcome \in ReviewOutcomes :
                   Review!mark_terminal(end, outcome)
             /\ Review!Dispatched(c, "natural")
          \/ Review!Terminal /\ Review!Goes(c, "done") /\ row' = row
        BY <1>3 DEF Review!Execute, ReviewOutcomes
    <2>2. heard' = heard /\ answered' = answered \cup {Review!submit_response(c)}
        BY <1>3 DEF Review!Execute
    <2>3. /\ Review!Terminal'
          /\ row' \in [status : {"ABSENT", "RUNNING", "COMPLETED", "FAILED"}, outcome : ReviewOutcomes,
                       snapshot : Requests \cup {"none"}, attempts : Nat]
          /\ row' = row \/ (~Review!Terminal /\ row.status # "ABSENT")
        BY <2>1, <1>t DEF Review!mark_terminal, ReviewTypes, Review!Terminal
    <2>4. /\ \A d \in Callers : d # c => call'[d] = call[d]
          /\ call'[c].at # "posting" /\ call'[c].created = call[c].created
          /\ call' \in [Callers -> ReviewCalls]
        BY <2>1, <1>t, GoesTyped, DispatchedTyped DEF ReviewWhys
    <2>5. call'[c].why = "natural" => call[c].why = "natural" \/ ~Review!Terminal
        <3>1. CASE Review!Goes(c, "done")
            BY <3>1, <1>t, GoesTyped
        <3>2. CASE ~Review!Terminal
            BY <3>2
        <3> QED
            BY <2>1, <3>1, <3>2 DEF Review!mark_terminal, Review!Terminal
    <2>6. /\ Review!submit_response(c) \in ReviewAnswers
          /\ Review!submit_response(c).outcome = row'.outcome
          /\ Review!submit_response(c).first = IF call[c].created THEN c ELSE "none"
        BY <2>3, <1>t DEF Review!submit_response, ReviewAnswers, ReviewTypes
    <2>7. ReviewTypes'
        BY <1>t, <2>2, <2>3, <2>4, <2>6 DEF ReviewTypes
    <2> QED
        BY <2>2, <2>3, <2>4, <2>5, <2>6, <2>7, Kept
<1>4. ASSUME NEW c \in Callers, Review!ReadBody(c) PROVE ReviewInv'
    <2> DEFINE v == [call[c] EXCEPT !.at = "posting", !.body = Review!build_callback_payload]
    <2>1. call[c] \in ReviewCalls
        BY <1>t DEF ReviewTypes
    <2>2. v \in ReviewCalls /\ v.body = Review!build_callback_payload /\ v.why = call[c].why
          /\ v.created = call[c].created
        BY <2>1, <1>b DEF ReviewCalls
    <2>3. call' = [call EXCEPT ![c] = v]
        BY <1>4, <2>1, <1>t DEF Review!ReadBody, ReviewTypes
    <2>4. UNCHANGED <<row, heard, answered>> /\ Review!Terminal /\ Review!Terminal'
        BY <1>4 DEF Review!ReadBody, Review!Terminal
    <2> HIDE DEF v
    <2>5. /\ \A d \in Callers : d # c => call'[d] = call[d]
          /\ call'[c] = v /\ call' \in [Callers -> ReviewCalls]
        BY <2>2, <2>3, <1>t, Moved
    <2>6. ReviewTypes'
        BY <1>t, <2>4, <2>5 DEF ReviewTypes
    <2> QED
        BY <2>2, <2>4, <2>5, <2>6, Kept
<1>5. ASSUME NEW c \in Callers, Review!Repush(c) PROVE ReviewInv'
    <2> DEFINE v == [Review!Idle EXCEPT !.at = "posting", !.why = "manual",
                               !.body = Review!build_callback_payload,
                                        !.base = row.attempts]
    <2>0. row.attempts \in Nat /\ Review!Idle \in ReviewCalls /\ ~Review!Idle.created
        BY <1>t
           DEF ReviewTypes, Review!Idle, Review!NoBody, ReviewCalls, Bodies,
               ReviewOutcomes, ReviewWhys
    <2>1. /\ v \in ReviewCalls /\ v.body = Review!build_callback_payload
          /\ v.why = "manual" /\ v.created = Review!Idle.created
        BY <2>0, <1>b DEF ReviewCalls, ReviewWhys
    <2>2. call' = [call EXCEPT ![c] = v]
        BY <1>5 DEF Review!Repush
    <2>3. UNCHANGED <<row, heard, answered>> /\ Review!Terminal /\ Review!Terminal'
        BY <1>5 DEF Review!Repush, Review!Terminal
    <2> HIDE DEF v
    <2>5. /\ \A d \in Callers : d # c => call'[d] = call[d]
          /\ call'[c] = v /\ call' \in [Callers -> ReviewCalls]
        BY <2>1, <2>2, <1>t, Moved
    <2>6. ReviewTypes'
        BY <1>t, <2>3, <2>5 DEF ReviewTypes
    <2> QED
        BY <2>0, <2>1, <2>3, <2>5, <2>6, Kept
<1>6. ASSUME NEW c \in Callers, Review!Post(c) PROVE ReviewInv'
    <2>1. PICK ok \in BOOLEAN, at \in {"recording", "posting"} :
            call' = [call EXCEPT ![c].tries = call[c].tries + 1, ![c].ok = ok, ![c].at = at]
        BY <1>6 DEF Review!Post
    <2> DEFINE v == [call[c] EXCEPT !.tries = call[c].tries + 1, !.ok = ok, !.at = at]
               said == [by |-> c, why |-> call[c].why, body |-> call[c].body]
    <2>2. call[c] \in ReviewCalls
        BY <1>t DEF ReviewTypes
    <2>t. call[c].tries + 1 \in Nat
        BY <2>2 DEF ReviewCalls
    <2>3. /\ v \in ReviewCalls /\ v.body = call[c].body
          /\ v.why = call[c].why /\ v.created = call[c].created
        BY <2>2, <2>t DEF ReviewCalls
    <2>4. call' = [call EXCEPT ![c] = v]
        BY <2>1, <2>2, <1>t DEF ReviewTypes
    <2>5. UNCHANGED <<row, answered>> /\ heard' \in {heard, heard \cup {said}}
        BY <1>6 DEF Review!Post
    <2>6. Review!Terminal /\ Review!Terminal' /\ call[c].body = Review!build_callback_payload
          /\ Review!build_callback_payload' = Review!build_callback_payload
        BY <1>6, <2>5
           DEF Review!Post, ReviewInv, Bodied, Review!Terminal,
               Review!build_callback_payload
    <2>7. said \in [by : Callers, why : ReviewWhys, body : Bodies] /\ said.by = c
          /\ said.why = call[c].why /\ said.body = call[c].body
        BY <2>2 DEF ReviewCalls
    <2> HIDE DEF v, said
    <2>8. /\ \A d \in Callers : d # c => call'[d] = call[d]
          /\ call'[c] = v /\ call' \in [Callers -> ReviewCalls]
        BY <2>3, <2>4, <1>t, Moved
    <2>9. ReviewTypes'
        BY <1>t, <2>5, <2>7, <2>8 DEF ReviewTypes
    <2>10. /\ \A d \in Callers : call'[d].why = call[d].why /\ call'[d].created = call[d].created
           /\ \A d \in Callers : call'[d].body = call[d].body
           /\ \A d \in Callers : call'[d].at = "posting" => call[d].at = "posting"
        BY <2>3, <2>8, <1>6 DEF Review!Post
    <2>11. Unended'
        BY <2>5, <2>6, <2>10 DEF ReviewInv, Unended, Review!Terminal
    <2>12. Bodied'
        BY <2>5, <2>6, <2>7, <2>10 DEF ReviewInv, Bodied
    <2>13. First'
        BY <2>5, <2>10 DEF ReviewInv, First
    <2> QED
        BY <2>9, <2>11, <2>12, <2>13 DEF ReviewInv
<1>7. ASSUME NEW c \in Callers, Review!Record(c) PROVE ReviewInv'
    <2>1. call[c] \in ReviewCalls /\ call[c].base + call[c].tries \in Nat
        BY <1>t DEF ReviewTypes, ReviewCalls
    <2>2. /\ row' = [row EXCEPT !.attempts = call[c].base + call[c].tries]
          /\ heard' = heard /\ answered' = answered
        BY <1>7 DEF Review!Record
    <2>3. /\ row' \in [status : {"ABSENT", "RUNNING", "COMPLETED", "FAILED"}, outcome : ReviewOutcomes,
                       snapshot : Requests \cup {"none"}, attempts : Nat]
          /\ row'.status = row.status /\ row'.outcome = row.outcome /\ row'.snapshot = row.snapshot
        BY <2>1, <2>2, <1>t DEF ReviewTypes
    <2>4. /\ \A d \in Callers : d # c => call'[d] = call[d]
          /\ call'[c].at # "posting" /\ call'[c].why = call[c].why
          /\ call'[c].created = call[c].created
          /\ call' \in [Callers -> ReviewCalls]
        BY <1>7, <1>t, GoesTyped DEF Review!Record
    <2>5. ReviewTypes'
        BY <1>t, <2>2, <2>3, <2>4 DEF ReviewTypes
    <2>6. Unended'
        BY <2>2, <2>3, <2>4 DEF ReviewInv, Unended, Review!Terminal
    <2>7. Bodied'
        BY <2>2, <2>3, <2>4
           DEF ReviewInv, Bodied, Review!Terminal, Review!build_callback_payload
    <2>8. First'
        BY <2>2, <2>3, <2>4 DEF ReviewInv, First
    <2> QED
        BY <2>5, <2>6, <2>7, <2>8 DEF ReviewInv
<1>8. CASE Review!sweep_expired
    BY <1>8
       DEF Review!sweep_expired, Review!mark_terminal, ReviewInv, ReviewTypes, Unended,
           Bodied, First, ReviewOutcomes, Review!Terminal, Review!build_callback_payload
<1>9. CASE Review!status
    BY <1>9
       DEF Review!status, Review!status_response, ReviewInv, ReviewTypes, Unended, Bodied,
           First, ReviewAnswers, Review!Terminal, Review!build_callback_payload
<1>10. CASE Review!Crash
    <2>1. call' \in [Callers -> ReviewCalls] /\ UNCHANGED <<row, heard, answered>>
        BY <1>10, <1>t
           DEF Review!Crash, Review!Idle, Review!NoBody, ReviewTypes, ReviewCalls, Bodies,
               ReviewOutcomes, ReviewWhys
    <2>2. \A c \in Callers : call'[c] = call[c] \/ call'[c] = Review!Idle
        BY <1>10 DEF Review!Crash
    <2> QED
        BY <2>1, <2>2
           DEF ReviewInv, ReviewTypes, Unended, Bodied, First, Review!Terminal,
               Review!build_callback_payload, Review!Idle
<1>11. CASE Review!DeadlinePasses \/ UNCHANGED Review!vars
    BY <1>11
       DEF Review!DeadlinePasses, Review!vars, ReviewInv, ReviewTypes, Unended, Bodied,
           First, Review!Terminal, Review!build_callback_payload
<1> QED
    BY <1>1, <1>2, <1>3, <1>4, <1>5, <1>6, <1>7, <1>8, <1>9, <1>10, <1>11 DEF Review!Next

(* Everything that is told of an initial review, by callbacks or answers, is  *)
(* the one outcome its row ends with.                                         *)
THEOREM InitialReviewCorrect == Review!Spec => []Review!OneOutcomeTold
<1>1. Review!Init => ReviewInv
    BY DEF Review!Init, ReviewInv, ReviewTypes, Unended, Bodied, First, Review!NoRow,
           Review!NoBody, Review!Idle, ReviewOutcomes, Bodies, ReviewCalls, ReviewWhys,
           Review!Terminal
<1> QED
    BY <1>1, ReviewStep, Told, PTL DEF Review!Spec
-----------------------------------------------------------------------------
(* The callbacks of room checks (RoomCallbacks).                              *)

(* A verdict is open from its dispatch on until its task has ended and        *)
(* nothing of it is under way.  So whatever is still open when a later one    *)
(* has been dispatched was open then too, and only what is open can arrive.   *)
VerdictInv ==
  /\ judged \in 0 .. MaxVerdicts
  /\ task \in [Callbacks!Verdicts -> [at : {"absent", "posting", "ok", "failed"}, tries : Nat]]
  /\ transit \subseteq 1 .. judged
  /\ java \in 0 .. judged
  /\ \A n \in Callbacks!Verdicts : n > judged => task[n] = Callbacks!Absent
  /\ \A n, m \in 1 .. judged : n < m /\ Callbacks!Open(n) => <<n, m>> \in overlapped
  /\ Callbacks!OlderOnlyIfOverlapped

LEMMA TaskUpdated ==
  ASSUME NEW D, NEW Places, NEW f \in [D -> [at : Places, tries : Nat]], NEW n \in D, NEW v
  PROVE  [f EXCEPT ![n].tries = @ + 1, ![n].at = v]
           = [f EXCEPT ![n] = [at |-> v, tries |-> f[n].tries + 1]]
  <1> DEFINE r == f[n]
             t == f[n].tries + 1
  <1>1. PICK a \in Places, k \in Nat : r = [at |-> a, tries |-> k]
    OBVIOUS
  <1>2. [[r EXCEPT !.tries = t] EXCEPT !.at = v] = [at |-> v, tries |-> t]
    <2> DEFINE tried == [r EXCEPT !.tries = t]
    <2> HIDE DEF r, t
    <2>1. tried = [at |-> a, tries |-> t]
      BY <1>1
    <2> HIDE DEF tried
    <2>2. [tried EXCEPT !.at = v] = [at |-> v, tries |-> t]
      BY <2>1
    <2> QED
      BY <2>2 DEF tried
  <1>3. [f EXCEPT ![n].tries = @ + 1, ![n].at = v]
          = [f EXCEPT ![n] = [[r EXCEPT !.tries = t] EXCEPT !.at = v]]
    OBVIOUS
  <1> QED
    BY <1>2, <1>3

LEMMA VerdictStep ==
  ASSUME MaxVerdicts \in Nat, VerdictInv, [Callbacks!Next]_Callbacks!vars
  PROVE  VerdictInv'
  <1> USE DEF VerdictInv, Callbacks!Verdicts, Callbacks!Open, Callbacks!Absent,
     Callbacks!OlderOnlyIfOverlapped
  <1>1. CASE Callbacks!Dispatch
    BY <1>1, SMTT(30) DEF Callbacks!Dispatch
  <1>2. CASE Callbacks!Crash
    <2> DEFINE Tasks == [at : {"absent", "posting", "ok", "failed"}, tries : Nat]
    <2>1. task \in [Callbacks!Verdicts -> Tasks]
      OBVIOUS
    <2>2. task' = [n \in Callbacks!Verdicts |->
                     IF task[n].at = "posting" THEN [task[n] EXCEPT !.at = "failed"] ELSE task[n]]
      BY <1>2 DEF Callbacks!Crash
    <2>3. ASSUME NEW t \in Tasks
          PROVE  [t EXCEPT !.at = "failed"] \in Tasks /\ [t EXCEPT !.at = "failed"].at = "failed"
      OBVIOUS
    <2>4. Callbacks!Absent.at = "absent"
      BY DEF Callbacks!Absent
    <2> HIDE DEF Tasks
    <2>5. task' \in [Callbacks!Verdicts -> Tasks]
      BY <2>1, <2>2, <2>3
    <2>6. ASSUME NEW n \in Callbacks!Verdicts
          PROVE  /\ task'[n].at = "posting" => task[n].at = "posting"
                 /\ task'[n].at = "ok" => task[n].at = "ok"
                 /\ task[n] = Callbacks!Absent => task'[n] = Callbacks!Absent
      BY <2>1, <2>2, <2>3, <2>4
    <2>7. /\ task' \in [Callbacks!Verdicts -> [at : {"absent", "posting", "ok", "failed"}, tries : Nat]]
          /\ \A n \in Callbacks!Verdicts :
               /\ task'[n].at = "posting" => task[n].at = "posting"
               /\ task'[n].at = "ok" => task[n].at = "ok"
               /\ task[n] = Callbacks!Absent => task'[n] = Callbacks!Absent
      BY <2>5, <2>6 DEF Tasks
    <2>8. UNCHANGED <<judged, transit, java, overlapped>>
      BY <1>2 DEF Callbacks!Crash
    <2> QED
      BY <2>7, <2>8
  <1>3. ASSUME NEW n \in Callbacks!Verdicts, Callbacks!Post(n)
        PROVE  VerdictInv'
    <2>1. PICK ok, arrives, lingers \in BOOLEAN :
            /\ ok => arrives
            /\ java' = IF arrives THEN n ELSE java
            /\ transit' = IF lingers THEN transit \cup {n} ELSE transit
            /\ task' = [task EXCEPT ![n].tries = @ + 1,
                          ![n].at = CASE ok -> "ok"
                                      [] ~ok /\ task[n].tries + 1 < MaxAttempts -> "posting"
                                      [] OTHER -> "failed"]
      BY <1>3 DEF Callbacks!Post
    <2>2. /\ task' \in [Callbacks!Verdicts -> [at : {"absent", "posting", "ok", "failed"}, tries : Nat]]
          /\ \A x \in Callbacks!Verdicts : x # n => task'[x] = task[x]
          /\ task'[n].at = "ok" => ok
      <3> DEFINE v == CASE ok -> "ok"
                        [] ~ok /\ task[n].tries + 1 < MaxAttempts -> "posting"
                        [] OTHER -> "failed"
      <3>1. v \in {"ok", "posting", "failed"} /\ (v = "ok" => ok)
        OBVIOUS
      <3>2. task' = [task EXCEPT ![n].tries = @ + 1, ![n].at = v]
        BY <2>1
      <3> HIDE DEF v
      <3>3. task' = [task EXCEPT ![n] = [at |-> v, tries |-> task[n].tries + 1]]
        BY <3>2, TaskUpdated
      <3> QED
        BY <3>1, <3>3
    <2>3. task[n].at = "posting" /\ UNCHANGED <<judged, overlapped>>
      BY <1>3 DEF Callbacks!Post
    <2>4. n \in 1 .. judged
      BY <2>3
    <2>5. \A x, m \in 1 .. judged : x < m /\ Callbacks!Open(x)' => <<x, m>> \in overlapped
      BY <2>1, <2>2, <2>3
    <2>6. ASSUME NEW m \in Callbacks!Verdicts, task'[m].at = "ok"
          PROVE  /\ java' < m => <<java', m>> \in overlapped
                 /\ java' # 0
      <3>1. m \in 1 .. judged
        BY <2>2, <2>4, <2>6
      <3>2. CASE m = n
        BY <2>1, <2>2, <2>4, <2>6, <3>2
      <3>3. CASE m # n
        BY <2>1, <2>2, <2>3, <2>4, <2>6, <3>1, <3>3
      <3> QED
        BY <3>2, <3>3
    <2>7. transit' \subseteq 1 .. judged /\ java' \in 0 .. judged
      BY <2>1, <2>4
    <2>8. \A x \in Callbacks!Verdicts : x > judged => task'[x] = Callbacks!Absent
      BY <2>2, <2>4
    <2>9. Callbacks!OlderOnlyIfOverlapped'
      BY <2>3, <2>6
    <2> HIDE DEF Callbacks!OlderOnlyIfOverlapped
    <2> QED
      BY <2>2, <2>3, <2>5, <2>7, <2>8, <2>9
  <1>4. ASSUME NEW n \in Callbacks!Verdicts, Callbacks!Arrive(n)
        PROVE  VerdictInv'
    BY <1>4 DEF Callbacks!Arrive
  <1>5. CASE UNCHANGED Callbacks!vars
    BY <1>5 DEF Callbacks!vars
  <1> QED
    BY <1>1, <1>2, <1>3, <1>4, <1>5 DEF Callbacks!Next

(* A verdict that was acknowledged is superseded only by a later one, or by   *)
(* an earlier one whose callback had not ended when it was dispatched; and    *)
(* what is reported as delivered has arrived: for any number of judgments of  *)
(* a photo and of attempts.                                                   *)
THEOREM CallbacksCorrect ==
  ASSUME MaxVerdicts \in Nat
  PROVE  Callbacks!Spec => []Callbacks!OlderOnlyIfOverlapped
  <1>1. Callbacks!Init => VerdictInv
    BY DEF Callbacks!Init, VerdictInv, Callbacks!Verdicts, Callbacks!Absent,
           Callbacks!OlderOnlyIfOverlapped
  <1>2. VerdictInv /\ [Callbacks!Next]_Callbacks!vars => VerdictInv'
    BY VerdictStep
  <1>3. VerdictInv => Callbacks!OlderOnlyIfOverlapped
    BY DEF VerdictInv
  <1> QED
    BY <1>1, <1>2, <1>3, PTL DEF Callbacks!Spec
-----------------------------------------------------------------------------
(* The weekly report (WeeklyReport).                                          *)

(* What PushedOnce says of the pushes and of the downloads, for any number of *)
(* executions and any hours they are started at.                              *)

RowStatuses == {"PENDING", "RUNNING", "ARCHIVING", "COMPLETED", "FAILED"}
Working == {"pending", "rendering", "uploading", "uploaded", "pushing", "recording"}
Rows == [status : RowStatuses, push : Results \cup {"PENDING"}]
Executions == [at : Working \cup {"idle", "inserting"}, now : Int,
               window : Weekly!Windows \cup {"none"},
               runNo : Nat, result : Results \cup {"none"}]
Pushes == [window : Weekly!Windows, runNo : {1}, by : Callers, now : Int, result : Results]

PushTypes == /\ rows \in [Weekly!Windows -> Seq(Rows)]
             /\ call \in [Callers -> Executions]
             /\ pushes \in SUBSET Pushes

(* A window has at most one row, the first.                                   *)
OneRow == \A w \in Weekly!Windows : Len(rows[w]) <= 1
Exists(w) == rows[w] # <<>>

Works(c) == call[c].at \in Working

(* The status that an execution at work finds.                                *)
StatusAt == [pending |-> "PENDING", rendering |-> "RUNNING", uploading |-> "ARCHIVING",
             uploaded |-> "ARCHIVING", pushing |-> "COMPLETED", recording |-> "COMPLETED"]

(* An execution knows a window that has ended; a number other than the first  *)
(* it holds only of a window that has a row, and the constraint turns it away.*)
Placed(c) ==
  /\ call[c].at # "idle" => call[c].window \in Weekly!Windows /\ call[c].window.end <= call[c].now
  /\ call[c].at = "inserting" => call[c].runNo = 1 \/ Exists(call[c].window)
  /\ Works(c) => /\ call[c].runNo = 1
                 /\ Exists(call[c].window)
                 /\ rows[call[c].window][1].status = StatusAt[call[c].at]
  /\ call[c].at = "uploaded" => <<call[c].window, 1>> \in archive
  /\ call[c].at = "recording"
       => \E p \in pushes : p.window = call[c].window /\ p.result = call[c].result

(* One execution at a time works on a window, and nothing is pushed before.   *)
Alone == \A c, d \in Callers : Works(c) /\ Works(d) /\ call[c].window = call[d].window => c = d
Unsent == \A c \in Callers : Works(c) /\ call[c].at # "recording"
                               => \A p \in pushes : p.window # call[c].window

Stored == \A w \in Weekly!Windows : Exists(w) /\ rows[w][1].status = "COMPLETED" => <<w, 1>> \in archive
Sent == \A p \in pushes : /\ Exists(p.window)
                          /\ rows[p.window][1].status = "COMPLETED"
                          /\ p.window.end <= p.now
Single == \A p, q \in pushes : p.window = q.window => p = q
Recorded == \A w \in Weekly!Windows : Exists(w) /\ rows[w][1].push # "PENDING"
              => \E p \in pushes : p.window = w /\ p.result = rows[w][1].push

PushInv == /\ PushTypes /\ OneRow /\ (\A c \in Callers : Placed(c)) /\ Alone /\ Unsent
           /\ Stored /\ Sent /\ Single /\ Recorded

(* A window that is computed at an hour has ended by then.                    *)
LEMMA Ended ==
  ASSUME NEW now \in Int
  PROVE  Weekly!compute_window(now).end <= now
  <1> DEFINE past == (now + 8) % 168
  <1>1. past \in 0 .. 167
    OBVIOUS
  <1>2. Weekly!compute_window(now).end = now + 8 - past - 8
    BY DEF Weekly!compute_window, Weekly!Shanghai, Weekly!Week
  <1> QED
    BY <1>1, <1>2

(* What a change of the row of a window leaves.                               *)
LEMMA RowChanged ==
  ASSUME PushTypes, OneRow, NEW w \in Weekly!Windows, Exists(w), NEW r \in Rows,
         rows' = [rows EXCEPT ![w][1] = r]
  PROVE  /\ rows' \in [Weekly!Windows -> Seq(Rows)] /\ OneRow'
         /\ \A v \in Weekly!Windows : Exists(v)' <=> Exists(v)
         /\ \A v \in Weekly!Windows : v # w => rows'[v] = rows[v]
         /\ rows'[w][1] = r
  <1>1. rows[w] \in Seq(Rows) /\ Len(rows[w]) = 1
    <2>1. rows[w] \in Seq(Rows) /\ Len(rows[w]) <= 1
      BY DEF PushTypes, OneRow
    <2> HIDE DEF Rows
    <2> DEFINE n == Len(rows[w])
    <2>2. n # 0 /\ n \in Nat
      BY <2>1, EmptySeq, LenProperties DEF Exists
    <2>3. n <= 1
      BY <2>1
    <2> HIDE DEF n
    <2>4. n = 1
      BY <2>2, <2>3
    <2> QED
      BY <2>1, <2>4 DEF n
  <1>2. /\ [rows[w] EXCEPT ![1] = r] \in Seq(Rows)
        /\ Len([rows[w] EXCEPT ![1] = r]) = 1
        /\ [rows[w] EXCEPT ![1] = r][1] = r
    BY <1>1, ExceptSeq
  <1>3. rows' = [rows EXCEPT ![w] = [rows[w] EXCEPT ![1] = r]]
    OBVIOUS
  <1> HIDE DEF Rows
  <1>4. rows'[w] = [rows[w] EXCEPT ![1] = r] /\ \A v \in Weekly!Windows : v # w => rows'[v] = rows[v]
    BY <1>3 DEF PushTypes
  <1>5. rows' \in [Weekly!Windows -> Seq(Rows)]
    BY <1>2, <1>3 DEF PushTypes
  <1>6. rows'[w] # <<>>
    BY <1>2, <1>4
  <1> QED
    BY <1>2, <1>4, <1>5, <1>6 DEF OneRow, Exists

(* The row of a window that an execution works on.                            *)
LEMMA RowOf ==
  ASSUME PushTypes, OneRow, NEW w \in Weekly!Windows, Exists(w)
  PROVE  rows[w][1] \in Rows /\ Len(rows[w]) = 1 /\ DOMAIN rows[w] = {1}
  <1>1. rows[w] \in Seq(Rows) /\ Len(rows[w]) <= 1
    BY DEF PushTypes, OneRow
  <1> HIDE DEF Rows
  <1>3. Len(rows[w]) = 1
    <2> DEFINE n == Len(rows[w])
    <2>1. n # 0 /\ n \in Nat
      BY <1>1, EmptySeq, LenProperties DEF Exists
    <2>2. n <= 1
      BY <1>1
    <2> HIDE DEF n
    <2>3. n = 1
      BY <2>1, <2>2
    <2> QED
      BY <2>3 DEF n
  <1>4. 1 \in 1 .. Len(rows[w])
    BY <1>3
  <1>5. rows[w][1] \in Rows
    BY <1>1, <1>4, ElementOfSeq
  <1>6. DOMAIN rows[w] = 1 .. Len(rows[w])
    BY <1>1, LenProperties
  <1> QED
    BY <1>3, <1>5, <1>6

LEMMA Marked ==
  ASSUME PushInv, NEW c \in Callers, Works(c), NEW from, NEW to \in RowStatuses,
         StatusAt[call[c].at] \in from, Weekly!Mark(c, from, to)
  PROVE  /\ rows' \in [Weekly!Windows -> Seq(Rows)] /\ OneRow'
         /\ \A v \in Weekly!Windows : Exists(v)' <=> Exists(v)
         /\ \A v \in Weekly!Windows : v # call[c].window => rows'[v] = rows[v]
         /\ rows'[call[c].window][1] = [rows[call[c].window][1] EXCEPT !.status = to]
  <1> DEFINE w == call[c].window
             r == [rows[w][1] EXCEPT !.status = to]
  <1>1. w \in Weekly!Windows /\ Exists(w) /\ call[c].runNo = 1 /\ rows[w][1].status \in from
    BY DEF PushInv, Placed, Works, Working
  <1>2. rows' = [rows EXCEPT ![w][1] = r]
    BY <1>1 DEF Weekly!Mark, Weekly!Row
  <1>3. r \in Rows
    BY <1>1, RowOf DEF PushInv, Rows
  <1> HIDE DEF r, w
  <1>4. PushTypes /\ OneRow
    BY DEF PushInv
  <1>5. /\ rows' \in [Weekly!Windows -> Seq(Rows)] /\ OneRow'
        /\ \A v \in Weekly!Windows : Exists(v)' <=> Exists(v)
        /\ \A v \in Weekly!Windows : v # w => rows'[v] = rows[v]
        /\ rows'[w][1] = r
    BY <1>1, <1>2, <1>3, <1>4, RowChanged
  <1> QED
    BY <1>5 DEF r, w

(* An execution at work goes on, or gives up: it marked its row, which keeps  *)
(* the push; it may have stored the archive, and completed only what it had.  *)
LEMMA GoesOn ==
  ASSUME PushInv, NEW c \in Callers, Works(c),
         NEW k \in Executions, call' = [call EXCEPT ![c] = k],
         k.at = "idle" \/ (k.at \in Working \ {"recording"} /\ call[c].at # "recording"
                            /\ k.window = call[c].window /\ k.runNo = 1 /\ k.now = call[c].now),
         NEW r \in Rows,
         rows' \in [Weekly!Windows -> Seq(Rows)], OneRow',
         \A v \in Weekly!Windows : Exists(v)' <=> Exists(v),
         \A v \in Weekly!Windows : v # call[c].window => rows'[v] = rows[v],
         rows'[call[c].window][1] = r, r.push = rows[call[c].window][1].push,
         k.at # "idle" => r.status = StatusAt[k.at],
         rows[call[c].window][1].status = "COMPLETED" => r.status = "COMPLETED",
         k.at = "uploaded" \/ r.status = "COMPLETED" => <<call[c].window, 1>> \in archive',
         archive \subseteq archive', UNCHANGED pushes
  PROVE  PushInv'
  <1> DEFINE w == call[c].window
  <1>0. w \in Weekly!Windows /\ Exists(w) /\ call[c].runNo = 1 /\ w.end <= call[c].now
    BY DEF PushInv, Placed, Works, Working
  <1>1. \A d \in Callers : d # c => call'[d] = call[d]
    BY DEF PushInv, PushTypes
  <1>2. call'[c] = k
    BY DEF PushInv, PushTypes
  <1>3. PushTypes'
    BY DEF PushInv, PushTypes
  <1>4. \A d \in Callers : Works(d)' => Works(d)
    BY <1>1, <1>2 DEF Works, Working
  <1>5. \A d \in Callers : Works(d)' => call'[d].window = call[d].window
    BY <1>1, <1>2 DEF Works, Working
  <1>6. Alone'
    BY <1>4, <1>5 DEF PushInv, Alone
  <1>7. \A d \in Callers : d # c /\ Works(d) => call[d].window # w
    BY DEF PushInv, Alone
  <1>8. ASSUME NEW d \in Callers PROVE Placed(d)'
    <2>1. CASE d = c
      BY <1>0, <1>2, <2>1 DEF Placed, Works, Working
    <2>2. CASE d # c
      <3>1. Placed(d) /\ call'[d] = call[d]
        BY <1>1, <2>2 DEF PushInv
      <3>2. Works(d) => rows'[call[d].window] = rows[call[d].window]
        BY <1>7, <2>2, <3>1 DEF Placed, Works, Working
      <3> QED
        BY <3>1, <3>2 DEF Placed, Works, Working
    <2> QED
      BY <2>1, <2>2
  <1>9. Unsent'
    BY <1>1, <1>2, <1>4, <1>5 DEF PushInv, Unsent, Works, Working
  <1>10. Stored'
    BY <1>0 DEF PushInv, Stored
  <1>11. Sent'
    BY <1>0 DEF PushInv, PushTypes, Pushes, Sent
  <1>12. Single'
    BY DEF PushInv, Single
  <1>13. Recorded'
    BY <1>0 DEF PushInv, Recorded
  <1> QED
    BY <1>3, <1>6, <1>8, <1>9, <1>10, <1>11, <1>12, <1>13 DEF PushInv

LEMMA GoesOnMarked ==
  ASSUME PushInv, NEW c \in Callers, Works(c), NEW from, NEW to \in RowStatuses,
         StatusAt[call[c].at] \in from, Weekly!Mark(c, from, to),
         NEW k \in Executions, call' = [call EXCEPT ![c] = k],
         k.at = "idle" \/ (k.at \in Working \ {"recording"} /\ call[c].at # "recording"
                            /\ k.window = call[c].window /\ k.runNo = 1 /\ k.now = call[c].now),
         k.at # "idle" => to = StatusAt[k.at],
         StatusAt[call[c].at] # "COMPLETED",
         k.at = "uploaded" \/ to = "COMPLETED" => <<call[c].window, 1>> \in archive',
         archive \subseteq archive', UNCHANGED pushes
  PROVE  PushInv'
  <1> DEFINE w == call[c].window
             r == [rows[w][1] EXCEPT !.status = to]
  <1>1. w \in Weekly!Windows /\ Exists(w) /\ rows[w][1].status = StatusAt[call[c].at]
    BY DEF PushInv, Placed, Works, Working
  <1>2. rows[w][1] \in Rows
    BY <1>1, RowOf DEF PushInv
  <1>3. r \in Rows /\ r.push = rows[w][1].push /\ r.status = to
    BY <1>2 DEF Rows
  <1>4. /\ rows' \in [Weekly!Windows -> Seq(Rows)] /\ OneRow'
        /\ \A v \in Weekly!Windows : Exists(v)' <=> Exists(v)
        /\ \A v \in Weekly!Windows : v # w => rows'[v] = rows[v]
        /\ rows'[w][1] = r
    BY Marked
  <1> HIDE DEF r
  <1> QED
    BY <1>1, <1>3, <1>4, GoesOn

(* An execution at work goes on without a change of the rows.                 *)
LEMMA GoesOnUnmarked ==
  ASSUME PushInv, NEW c \in Callers, Works(c), UNCHANGED rows,
         NEW k \in Executions, call' = [call EXCEPT ![c] = k],
         k.at = "idle" \/ (k.at \in Working \ {"recording"} /\ call[c].at # "recording"
                            /\ k.window = call[c].window /\ k.runNo = 1 /\ k.now = call[c].now),
         k.at # "idle" => StatusAt[call[c].at] = StatusAt[k.at],
         k.at = "uploaded" => <<call[c].window, 1>> \in archive',
         archive \subseteq archive', UNCHANGED pushes
  PROVE  PushInv'
  <1> DEFINE w == call[c].window
             r == rows[w][1]
  <1>1. w \in Weekly!Windows /\ Exists(w) /\ rows[w][1].status = StatusAt[call[c].at]
    BY DEF PushInv, Placed, Works, Working
  <1>2. r \in Rows
    BY <1>1, RowOf DEF PushInv
  <1>3. r.status = "COMPLETED" => <<w, 1>> \in archive'
    BY <1>1 DEF PushInv, Stored
  <1>4. k.at # "idle" => r.status = StatusAt[k.at]
    BY <1>1
  <1>5. /\ rows' \in [Weekly!Windows -> Seq(Rows)] /\ OneRow'
        /\ \A v \in Weekly!Windows : Exists(v)' <=> Exists(v)
        /\ \A v \in Weekly!Windows : v # w => rows'[v] = rows[v]
        /\ rows'[w][1] = r
    BY DEF PushInv, PushTypes, OneRow, Exists
  <1>6. /\ r.push = rows[w][1].push
        /\ rows[w][1].status = "COMPLETED" => r.status = "COMPLETED"
        /\ k.at = "uploaded" \/ r.status = "COMPLETED" => <<w, 1>> \in archive'
    BY <1>3
  <1> HIDE DEF r
  <1> QED
    BY <1>2, <1>4, <1>5, <1>6, GoesOn

(* The record of an execution whose step it is.                               *)
LEMMA StepOne ==
  ASSUME PushTypes, NEW c \in Callers, NEW at \in Working
  PROVE  /\ [call[c] EXCEPT !.at = at] \in Executions
         /\ [call[c] EXCEPT !.at = at].at = at
         /\ [call[c] EXCEPT !.at = at].window = call[c].window
         /\ [call[c] EXCEPT !.at = at].runNo = call[c].runNo
         /\ [call[c] EXCEPT !.at = at].now = call[c].now
         /\ [call[c] EXCEPT !.at = at].result = call[c].result
         /\ (Weekly!Goes(c, at) => call' = [call EXCEPT ![c] = [call[c] EXCEPT !.at = at]])
  BY DEF PushTypes, Executions, Weekly!Goes

LEMMA IdleCall == Weekly!Idle \in Executions /\ Weekly!Idle.at = "idle"
  BY DEF Weekly!Idle, Executions

(* An execution at work holds the first row of its window.                    *)
LEMMA AtWork ==
  ASSUME PushInv, NEW c \in Callers, Works(c)
  PROVE  /\ PushTypes /\ call[c].runNo = 1 /\ call[c].window \in Weekly!Windows
         /\ call[c].window.end <= call[c].now /\ Exists(call[c].window)
         /\ rows[call[c].window][1].status = StatusAt[call[c].at]
  BY DEF PushInv, Placed, Works, Working

LEMMA StatusFacts ==
  /\ StatusAt["pending"] = "PENDING" /\ StatusAt["rendering"] = "RUNNING"
  /\ StatusAt["uploading"] = "ARCHIVING" /\ StatusAt["uploaded"] = "ARCHIVING"
  /\ StatusAt["pushing"] = "COMPLETED" /\ StatusAt["recording"] = "COMPLETED"
  BY DEF StatusAt

LEMMA Running ==
  ASSUME PushInv, NEW c \in Callers, Weekly!mark_running(c)
  PROVE  PushInv'
  <1> DEFINE k == [call[c] EXCEPT !.at = "rendering"]
  <1>1. /\ call[c].at = "pending" /\ Weekly!Goes(c, "rendering") /\ UNCHANGED <<archive, pushes>>
        /\ Weekly!Mark(c, {"PENDING"}, "RUNNING")
    BY DEF Weekly!mark_running
  <1>2. Works(c) /\ "rendering" \in Working
    BY <1>1 DEF Works, Working
  <1>3. PushTypes /\ call[c].runNo = 1
    BY <1>2, AtWork
  <1>4. /\ k \in Executions /\ k.at = "rendering" /\ k.window = call[c].window
        /\ k.runNo = 1 /\ k.now = call[c].now /\ call' = [call EXCEPT ![c] = k]
    BY <1>1, <1>2, <1>3, StepOne
  <1> HIDE DEF k
  <1>5. StatusAt[call[c].at] = StatusAt["pending"] /\ StatusAt[k.at] = StatusAt["rendering"]
    BY <1>1, <1>4
  <1> QED
    BY <1>1, <1>2, <1>4, <1>5, StatusFacts, GoesOnMarked DEF RowStatuses, Working

LEMMA Archiving ==
  ASSUME PushInv, NEW c \in Callers, Weekly!mark_archiving(c)
  PROVE  PushInv'
  <1> DEFINE k == [call[c] EXCEPT !.at = "uploading"]
  <1>1. /\ call[c].at = "rendering" /\ Weekly!Goes(c, "uploading") /\ UNCHANGED <<archive, pushes>>
        /\ Weekly!Mark(c, {"RUNNING"}, "ARCHIVING")
    BY DEF Weekly!mark_archiving
  <1>2. Works(c) /\ "uploading" \in Working
    BY <1>1 DEF Works, Working
  <1>3. PushTypes /\ call[c].runNo = 1
    BY <1>2, AtWork
  <1>4. /\ k \in Executions /\ k.at = "uploading" /\ k.window = call[c].window
        /\ k.runNo = 1 /\ k.now = call[c].now /\ call' = [call EXCEPT ![c] = k]
    BY <1>1, <1>2, <1>3, StepOne
  <1> HIDE DEF k
  <1>5. StatusAt[call[c].at] = StatusAt["rendering"] /\ StatusAt[k.at] = StatusAt["uploading"]
    BY <1>1, <1>4
  <1> QED
    BY <1>1, <1>2, <1>4, <1>5, StatusFacts, GoesOnMarked DEF RowStatuses, Working

LEMMA Uploaded ==
  ASSUME PushInv, NEW c \in Callers, Weekly!put_bytes(c)
  PROVE  PushInv'
  <1> DEFINE k == [call[c] EXCEPT !.at = "uploaded"]
  <1>1. /\ call[c].at = "uploading" /\ Weekly!Goes(c, "uploaded") /\ UNCHANGED <<rows, pushes>>
        /\ archive' = archive \cup {<<call[c].window, call[c].runNo>>}
    BY DEF Weekly!put_bytes
  <1>2. Works(c) /\ "uploaded" \in Working
    BY <1>1 DEF Works, Working
  <1>3. PushTypes /\ call[c].runNo = 1
    BY <1>2, AtWork
  <1>4. /\ k \in Executions /\ k.at = "uploaded" /\ k.window = call[c].window
        /\ k.runNo = 1 /\ k.now = call[c].now /\ call' = [call EXCEPT ![c] = k]
    BY <1>1, <1>2, <1>3, StepOne
  <1> HIDE DEF k
  <1>5. StatusAt[call[c].at] = StatusAt["uploading"] /\ StatusAt[k.at] = StatusAt["uploaded"]
    BY <1>1, <1>4
  <1> QED
    BY <1>1, <1>2, <1>3, <1>4, <1>5, StatusFacts, GoesOnUnmarked DEF Working

LEMMA Failed ==
  ASSUME PushInv, NEW c \in Callers, Weekly!mark_failed(c)
  PROVE  PushInv'
  <1>1. /\ call[c].at = "uploading"
        /\ Weekly!Mark(c, {"PENDING", "RUNNING", "ARCHIVING"}, "FAILED")
        /\ archive \subseteq archive' /\ UNCHANGED pushes
        /\ call' = [call EXCEPT ![c] = Weekly!Idle]
    BY DEF Weekly!mark_failed
  <1>2. Works(c)
    BY <1>1 DEF Works, Working
  <1>3. StatusAt[call[c].at] = "ARCHIVING"
    BY <1>1, StatusFacts
  <1>4. Weekly!Idle.at # "uploaded"
    BY IdleCall
  <1> QED
    BY <1>1, <1>2, <1>3, <1>4, IdleCall, GoesOnMarked DEF RowStatuses

LEMMA Completed ==
  ASSUME PushInv, NEW c \in Callers, Weekly!mark_completed(c)
  PROVE  PushInv'
  <1> DEFINE k == [call[c] EXCEPT !.at = "pushing"]
  <1>1. /\ call[c].at = "uploaded" /\ Weekly!Goes(c, "pushing") /\ UNCHANGED <<archive, pushes>>
        /\ Weekly!Mark(c, {"ARCHIVING"}, "COMPLETED")
    BY DEF Weekly!mark_completed
  <1>2. Works(c) /\ "pushing" \in Working
    BY <1>1 DEF Works, Working
  <1>3. PushTypes /\ call[c].runNo = 1
    BY <1>2, AtWork
  <1>4. /\ k \in Executions /\ k.at = "pushing" /\ k.window = call[c].window
        /\ k.runNo = 1 /\ k.now = call[c].now /\ call' = [call EXCEPT ![c] = k]
    BY <1>1, <1>2, <1>3, StepOne
  <1> HIDE DEF k
  <1>5. StatusAt[call[c].at] = StatusAt["uploaded"] /\ StatusAt[k.at] = StatusAt["pushing"]
    BY <1>1, <1>4
  <1>6. <<call[c].window, 1>> \in archive
    BY <1>1 DEF PushInv, Placed
  <1> QED
    BY <1>1, <1>2, <1>4, <1>5, <1>6, StatusFacts, GoesOnMarked DEF RowStatuses, Working

(* The push: of a row that is completed, and of a window that had none.       *)
LEMMA Pushed ==
  ASSUME PushInv, NEW c \in Callers, Weekly!send(c)
  PROVE  PushInv'
  <1> DEFINE w == call[c].window
  <1>1. PICK result \in Results :
          /\ pushes' = pushes \cup {[window |-> call[c].window, runNo |-> call[c].runNo,
                                      by |-> c, now |-> call[c].now, result |-> result]}
          /\ call' = [call EXCEPT ![c] = [call[c] EXCEPT !.at = "recording", !.result = result]]
    BY DEF Weekly!send, PushInv, PushTypes
  <1> DEFINE p == [window |-> w, runNo |-> 1, by |-> c, now |-> call[c].now, result |-> result]
             k == [call[c] EXCEPT !.at = "recording", !.result = result]
  <1>2. /\ Works(c) /\ call[c].at = "pushing" /\ UNCHANGED <<rows, archive>>
        /\ w \in Weekly!Windows /\ w.end <= call[c].now /\ call[c].runNo = 1 /\ Exists(w)
        /\ rows[w][1].status = "COMPLETED"
    <2>1. call[c].at = "pushing" /\ UNCHANGED <<rows, archive>>
      BY DEF Weekly!send
    <2>2. Works(c)
      BY <2>1 DEF Works, Working
    <2> QED
      BY <2>1, <2>2, AtWork, StatusFacts
  <1>3. /\ p \in Pushes /\ pushes' = pushes \cup {p} /\ p.window = w /\ p.runNo = 1
        /\ p.now = call[c].now /\ p.result = result
    BY <1>1, <1>2 DEF PushInv, PushTypes, Executions, Pushes
  <1>4. /\ k \in Executions /\ k.at = "recording" /\ k.window = w /\ k.runNo = 1
        /\ k.now = call[c].now /\ k.result = result
    BY <1>2 DEF PushInv, PushTypes, Executions, Working
  <1>5. call' = [call EXCEPT ![c] = k]
    BY <1>1
  <1> HIDE DEF p, k
  <1>6. call'[c] = k /\ \A d \in Callers : d # c => call'[d] = call[d]
    BY <1>5 DEF PushInv, PushTypes
  <1>7. \A q \in pushes : q.window # w
    BY <1>2 DEF PushInv, Unsent
  <1>8. PushTypes'
    BY <1>2, <1>3, <1>4, <1>5 DEF PushInv, PushTypes
  <1>9. \A d \in Callers : (Works(d)' <=> Works(d)) /\ call'[d].window = call[d].window
    BY <1>2, <1>4, <1>6 DEF Works, Working
  <1>10. Alone'
    BY <1>9 DEF PushInv, Alone
  <1>11. ASSUME NEW d \in Callers PROVE Placed(d)'
    <2>1. CASE d = c
      BY <1>2, <1>3, <1>4, <1>6, <2>1 DEF Placed, Works, Working, StatusAt, Exists
    <2>2. CASE d # c
      BY <1>2, <1>3, <1>6, <2>2 DEF PushInv, Placed, Works, Exists
    <2> QED
      BY <2>1, <2>2
  <1>12. Unsent'
    <2> SUFFICES ASSUME NEW d \in Callers, Works(d)', call'[d].at # "recording",
                        NEW q \in pushes'
                 PROVE  q.window # call'[d].window
      BY DEF Unsent
    <2>1. d # c /\ Works(d) /\ call[d].at # "recording" /\ call'[d].window = call[d].window
      BY <1>4, <1>6, <1>9
    <2>2. call[d].window # w
      BY <1>2, <2>1 DEF PushInv, Alone
    <2> QED
      BY <1>3, <2>1, <2>2 DEF PushInv, Unsent
  <1>13. Stored' /\ Recorded'
    BY <1>2, <1>3 DEF PushInv, Stored, Recorded, Exists
  <1>14. Sent'
    BY <1>2, <1>3 DEF PushInv, Sent, Exists
  <1>15. Single'
    BY <1>3, <1>7 DEF PushInv, Single
  <1>16. OneRow'
    BY <1>2 DEF PushInv, OneRow
  <1> QED
    BY <1>8, <1>10, <1>11, <1>12, <1>13, <1>14, <1>15, <1>16 DEF PushInv

(* What the pusher reported is recorded in the row.                           *)
LEMMA PushRecorded ==
  ASSUME PushInv, NEW c \in Callers, Weekly!record_push(c)
  PROVE  PushInv'
  <1> DEFINE w == call[c].window
             r == [rows[w][1] EXCEPT !.push = call[c].result]
  <1>1. /\ call[c].at = "recording" /\ call' = [call EXCEPT ![c] = Weekly!Idle]
        /\ rows' = [rows EXCEPT ![w][call[c].runNo].push = call[c].result]
        /\ UNCHANGED <<archive, pushes>>
    BY DEF Weekly!record_push
  <1>2. Works(c)
    BY <1>1 DEF Works, Working
  <1>3. PushTypes /\ call[c].runNo = 1 /\ w \in Weekly!Windows /\ Exists(w) /\ OneRow
    BY <1>2, AtWork DEF PushInv
  <1>4. PICK p \in pushes : p.window = w /\ p.result = call[c].result
    BY <1>1 DEF PushInv, Placed
  <1>5. call[c].result \in Results
    BY <1>3, <1>4 DEF PushTypes, Pushes
  <1>6. rows[w][1] \in Rows
    BY <1>3, RowOf
  <1>7. r \in Rows /\ r.push = call[c].result /\ r.status = rows[w][1].status
    BY <1>5, <1>6 DEF Rows
  <1>8. rows' = [rows EXCEPT ![w][1] = r]
    BY <1>1, <1>3
  <1> HIDE DEF r
  <1>9. /\ rows' \in [Weekly!Windows -> Seq(Rows)] /\ OneRow'
        /\ \A v \in Weekly!Windows : Exists(v)' <=> Exists(v)
        /\ \A v \in Weekly!Windows : v # w => rows'[v] = rows[v]
        /\ rows'[w][1] = r
    BY <1>3, <1>7, <1>8, RowChanged
  <1>10. /\ call'[c] = Weekly!Idle /\ ~Works(c)'
         /\ \A d \in Callers : d # c => call'[d] = call[d]
    BY <1>1, <1>3, IdleCall DEF PushTypes, Works, Working
  <1>11. PushTypes'
    BY <1>1, <1>3, <1>9, IdleCall DEF PushTypes
  <1>12. Alone' /\ Unsent'
    BY <1>1, <1>10 DEF PushInv, Alone, Unsent, Works
  <1>13. \A v \in Weekly!Windows : rows'[v][1].status = rows[v][1].status
    BY <1>7, <1>9
  <1>14. ASSUME NEW d \in Callers PROVE Placed(d)'
    <2>1. CASE d = c
      BY <1>10, <2>1, IdleCall DEF Placed
    <2>2. CASE d # c
      <3>1. Placed(d) /\ call'[d] = call[d] /\ (Works(d)' <=> Works(d))
        BY <1>10, <2>2 DEF PushInv, Works
      <3>2. Works(d) => call[d].window \in Weekly!Windows
        BY AtWork
      <3>3. call[d].at = "inserting" => call[d].window \in Weekly!Windows
        BY <3>1 DEF Placed
      <3>4. Works(d)' => /\ call'[d].runNo = 1
                         /\ Exists(call[d].window)'
                         /\ rows'[call[d].window][1].status = StatusAt[call[d].at]
        BY <1>9, <1>13, <3>1, <3>2 DEF Placed
      <3>5. call'[d].at = "inserting" => call'[d].runNo = 1 \/ Exists(call[d].window)'
        BY <1>9, <3>1, <3>3 DEF Placed
      <3>6. /\ call[d].at # "idle" => /\ call[d].window \in Weekly!Windows
                                     /\ call[d].window.end <= call[d].now
            /\ call[d].at = "uploaded" => <<call[d].window, 1>> \in archive
            /\ call[d].at = "recording"
                 => \E q \in pushes : q.window = call[d].window /\ q.result = call[d].result
        BY <3>1 DEF Placed
      <3> HIDE DEF w
      <3> QED
        BY <1>1, <3>1, <3>4, <3>5, <3>6 DEF Placed
    <2> QED
      BY <2>1, <2>2
  <1>15. Stored'
    BY <1>1, <1>9, <1>13 DEF PushInv, Stored
  <1>16. \A q \in pushes : q.window \in Weekly!Windows
    BY <1>3 DEF PushTypes, Pushes
  <1>17. Sent'
    BY <1>1, <1>9, <1>13, <1>16 DEF PushInv, Sent
  <1>18. Single'
    BY <1>1 DEF PushInv, Single
  <1>19. Recorded'
    BY <1>1, <1>4, <1>7, <1>9 DEF PushInv, Recorded
  <1> QED
    BY <1>9, <1>11, <1>12, <1>14, <1>15, <1>17, <1>18, <1>19 DEF PushInv

(* An execution that ends or dies leaves everything but itself.               *)
LEMMA Dropped ==
  ASSUME PushInv, NEW c \in Callers, call' = [call EXCEPT ![c] = Weekly!Idle],
         UNCHANGED <<rows, archive, pushes>>
  PROVE  PushInv'
  <1>1. /\ call'[c] = Weekly!Idle /\ ~Works(c)'
        /\ \A d \in Callers : d # c => call'[d] = call[d]
    BY IdleCall DEF PushInv, PushTypes, Works, Working
  <1>2. PushTypes'
    BY IdleCall DEF PushInv, PushTypes
  <1>3. Alone' /\ Unsent'
    BY <1>1 DEF PushInv, Alone, Unsent, Works
  <1>4. ASSUME NEW d \in Callers PROVE Placed(d)'
    BY <1>1, IdleCall DEF PushInv, Placed, Works, Exists
  <1>5. OneRow' /\ Stored' /\ Sent' /\ Single' /\ Recorded'
    BY DEF PushInv, OneRow, Stored, Sent, Single, Recorded, Exists
  <1> QED
    BY <1>2, <1>3, <1>4, <1>5 DEF PushInv

(* The first transaction: a window with a row is given a second number, which *)
(* the constraint will turn away.                                             *)
LEMMA Looked ==
  ASSUME PushInv, NEW c \in Callers, NEW now \in Hours, Hours \subseteq Int, Weekly!Look(c, now)
  PROVE  PushInv'
  <1> DEFINE w == Weekly!compute_window(now)
             n == Weekly!Latest(w) + 1
             k == [Weekly!Idle EXCEPT !.at = "inserting", !.now = now, !.window = w, !.runNo = n]
  <1>1. call' = [call EXCEPT ![c] = k] /\ UNCHANGED <<rows, archive, pushes>>
    BY DEF Weekly!Look
  <1>2. w \in Weekly!Windows /\ w.end <= now
    BY Ended DEF Weekly!Windows
  <1>3. n \in Nat /\ (n = 1 \/ Exists(w))
    <2>1. rows[w] \in Seq(Rows)
      BY <1>2 DEF PushInv, PushTypes
    <2> HIDE DEF Rows, w
    <2> DEFINE m == Len(rows[w])
    <2>2. m \in Nat /\ (rows[w] = <<>> => m = 0)
      BY <2>1, LenProperties, EmptySeq
    <2> HIDE DEF m
    <2>3. m + 1 \in Nat /\ (m = 0 => m + 1 = 1)
      BY <2>2
    <2> QED
      BY <2>2, <2>3 DEF m, Exists, Weekly!Latest
  <1> HIDE DEF w, n
  <1>4. k \in Executions /\ k.at = "inserting" /\ k.window = w /\ k.runNo = n /\ k.now = now
    BY <1>2, <1>3, IdleCall DEF Executions
  <1> HIDE DEF k
  <1>5. call'[c] = k /\ ~Works(c)' /\ \A d \in Callers : d # c => call'[d] = call[d]
    BY <1>1, <1>4 DEF PushInv, PushTypes, Works, Working
  <1>6. PushTypes'
    BY <1>1, <1>4 DEF PushInv, PushTypes
  <1>7. Alone' /\ Unsent'
    BY <1>1, <1>5 DEF PushInv, Alone, Unsent, Works
  <1>8. ASSUME NEW d \in Callers PROVE Placed(d)'
    <2>1. CASE d = c
      BY <1>1, <1>2, <1>3, <1>4, <1>5, <2>1 DEF Placed, Exists
    <2>2. CASE d # c
      BY <1>1, <1>5, <2>2 DEF PushInv, Placed, Works, Exists
    <2> QED
      BY <2>1, <2>2
  <1>9. OneRow' /\ Stored' /\ Sent' /\ Single' /\ Recorded'
    BY <1>1 DEF PushInv, OneRow, Stored, Sent, Single, Recorded, Exists
  <1> QED
    BY <1>6, <1>7, <1>8, <1>9 DEF PushInv

(* The row of a window is inserted where it has none, and so no push.         *)
LEMMA Inserted ==
  ASSUME PushInv, NEW c \in Callers, Weekly!Insert(c)
  PROVE  PushInv'
  <1> DEFINE w == call[c].window
             k == [call[c] EXCEPT !.at = "pending"]
  <1>1. /\ call[c].at = "inserting" /\ Weekly!Goes(c, "pending") /\ UNCHANGED <<archive, pushes>>
        /\ rows' = [rows EXCEPT ![w] = Append(rows[w], Weekly!NewRow)]
        /\ ~Weekly!Taken(w, call[c].runNo)
    BY DEF Weekly!Insert
  <1>2. PushTypes /\ w \in Weekly!Windows /\ w.end <= call[c].now /\ (call[c].runNo = 1 \/ Exists(w))
    BY <1>1 DEF PushInv, Placed
  <1>3. rows[w] = <<>>
    <2>1. rows[w] \in Seq(Rows) /\ DOMAIN rows[w] = {}
      BY <1>1, <1>2 DEF PushTypes, Weekly!Taken, Weekly!RunNos
    <2> HIDE DEF Rows, w
    <2> DEFINE m == Len(rows[w])
    <2>2. m \in Nat /\ 1 .. m = {}
      BY <2>1, LenProperties
    <2> HIDE DEF m
    <2>3. m = 0
      <3>1. 1 \notin 1 .. m
        BY <2>2
      <3> QED
        BY <2>2, <3>1
    <2> QED
      BY <2>1, <2>3, EmptySeq DEF m
  <1>4. call[c].runNo = 1 /\ ~Exists(w)
    BY <1>2, <1>3 DEF Exists
  <1>5. /\ k \in Executions /\ k.at = "pending" /\ k.window = w /\ k.runNo = 1
        /\ k.now = call[c].now /\ call' = [call EXCEPT ![c] = k]
    BY <1>1, <1>2, <1>4, StepOne DEF Working
  <1> HIDE DEF k
  <1>6. Weekly!NewRow \in Rows /\ Weekly!NewRow.status = "PENDING" /\ Weekly!NewRow.push = "PENDING"
    BY DEF Weekly!NewRow, Rows, RowStatuses
  <1>7. /\ rows'[w] = <<Weekly!NewRow>>
        /\ \A v \in Weekly!Windows : v # w => rows'[v] = rows[v]
        /\ rows' \in [Weekly!Windows -> Seq(Rows)]
    <2> HIDE DEF Rows, Weekly!NewRow
    <2>1. Append(rows[w], Weekly!NewRow) = <<Weekly!NewRow>> /\ <<Weekly!NewRow>> \in Seq(Rows)
      BY <1>3, <1>6
    <2> QED
      BY <1>1, <1>2, <2>1 DEF PushTypes
  <1>8. rows'[w] # <<>> /\ Len(rows'[w]) = 1 /\ rows'[w][1] = Weekly!NewRow
    BY <1>7
  <1>9. \A v \in Weekly!Windows : v # w => (Exists(v)' <=> Exists(v))
    BY <1>7 DEF Exists
  <1>10. call'[c] = k /\ \A d \in Callers : d # c => call'[d] = call[d]
    BY <1>2, <1>5 DEF PushTypes
  <1>11. PushTypes'
    BY <1>1, <1>2, <1>5, <1>7 DEF PushTypes
  <1>12. OneRow'
    <2>1. \A v \in Weekly!Windows : Len(rows'[v]) <= 1
      <3> SUFFICES ASSUME NEW v \in Weekly!Windows PROVE Len(rows'[v]) <= 1
        OBVIOUS
      <3>1. CASE v = w
        <4>1. rows'[v] = rows'[w]
          BY <3>1
        <4> HIDE DEF w
        <4>2. Len(rows'[v]) = 1
          BY <1>8, <4>1
        <4> QED
          BY <4>2
      <3>2. CASE v # w
        BY <1>7, <3>2 DEF PushInv, OneRow
      <3> QED
        BY <3>1, <3>2
    <2> QED
      BY <2>1 DEF OneRow
  <1>13. \A d \in Callers : Works(d) => call[d].window # w
    BY <1>4, AtWork
  <1>14. \A p \in pushes : p.window # w /\ p.window \in Weekly!Windows
    BY <1>2, <1>4 DEF PushInv, Sent, PushTypes, Pushes
  <1>15. Alone'
    BY <1>5, <1>10, <1>13 DEF PushInv, Alone, Works
  <1>16. Unsent'
    BY <1>1, <1>5, <1>10, <1>14 DEF PushInv, Unsent, Works
  <1>17. ASSUME NEW d \in Callers PROVE Placed(d)'
    <2>1. CASE d = c
      <3>1. StatusAt[k.at] = "PENDING"
        BY <1>5, StatusFacts
      <3>2. call'[c].at = "pending" /\ call'[c].window = w /\ call'[c].runNo = 1
            /\ call'[c].now = call[c].now /\ StatusAt[call'[c].at] = "PENDING"
        BY <1>5, <1>10, <3>1
      <3>3. rows'[w][1].status = "PENDING" /\ rows'[w] # <<>>
        BY <1>6, <1>8
      <3> HIDE DEF w
      <3>4. Placed(c)'
        BY <1>2, <3>2, <3>3 DEF Placed, Exists
      <3> QED
        BY <2>1, <3>4
    <2>2. CASE d # c
      <3>1. Placed(d) /\ call'[d] = call[d] /\ (Works(d)' <=> Works(d))
        BY <1>10, <2>2 DEF PushInv, Works
      <3>2. Works(d) => call[d].window \in Weekly!Windows /\ call[d].window # w
        BY <1>13, AtWork
      <3>3. call[d].at = "inserting" => call[d].window \in Weekly!Windows
        BY <3>1 DEF Placed
      <3>4. call[d].at = "inserting" /\ rows[call[d].window] # <<>>
              => rows'[call[d].window] # <<>>
        BY <1>7, <1>8, <3>1, <3>3
      <3> QED
        BY <1>1, <1>7, <1>9, <3>1, <3>2, <3>3, <3>4 DEF Placed, Exists
    <2> QED
      BY <2>1, <2>2
  <1>18. Stored' /\ Recorded'
    BY <1>1, <1>6, <1>7, <1>8, <1>9 DEF PushInv, Stored, Recorded, Exists
  <1>19. Sent' /\ Single'
    BY <1>1, <1>7, <1>9, <1>14 DEF PushInv, Sent, Single
  <1> QED
    BY <1>11, <1>12, <1>15, <1>16, <1>17, <1>18, <1>19 DEF PushInv

LEMMA PushStep ==
  ASSUME PushInv, [Weekly!Next]_Weekly!vars, Hours \subseteq Int
  PROVE  PushInv'
  <1>1. CASE UNCHANGED Weekly!vars
    BY <1>1
       DEF Weekly!vars, PushInv, PushTypes, OneRow, Placed, Alone, Unsent, Stored, Sent,
           Single, Recorded, Works, Exists
  <1>2. ASSUME NEW c \in Callers, Weekly!TurnedAway(c) \/ Weekly!Abandon(c)
        PROVE  PushInv'
    BY <1>2, Dropped DEF Weekly!TurnedAway, Weekly!Abandon
  <1> QED
    BY <1>1, <1>2, Looked, Inserted, Running, Archiving, Uploaded, Failed, Completed,
       Pushed, PushRecorded
       DEF Weekly!Next

LEMMA PushStart ==
  ASSUME Weekly!Init
  PROVE  PushInv
  <1>1. PushTypes
    <2>1. rows \in [Weekly!Windows -> Seq(Rows)]
      BY DEF Weekly!Init
    <2> QED
      BY <2>1, IdleCall DEF Weekly!Init, PushTypes
  <1>2. \A c \in Callers : call[c].at = "idle"
    BY IdleCall DEF Weekly!Init
  <1>3. \A w \in Weekly!Windows : rows[w] = <<>> /\ Len(rows[w]) = 0
    BY DEF Weekly!Init
  <1> QED
    BY <1>1, <1>2, <1>3
       DEF Weekly!Init, PushInv, OneRow, Placed, Works, Working, Exists, Alone, Unsent,
           Stored, Sent, Single, Recorded

(* What the invariant says is what the reader of the list sees.               *)
LEMMA PushSeen ==
  ASSUME PushInv
  PROVE  Weekly!OnePush
  <1>1. ASSUME NEW w \in Weekly!Windows
        PROVE  Cardinality({p \in pushes : p.window = w}) <= 1
    <2> DEFINE P == {p \in pushes : p.window = w}
    <2>1. CASE P = {}
      BY <2>1, FS_EmptySet
    <2>2. CASE P # {}
      <3>1. PICK q : q \in P
        BY <2>2
      <3>2. P = {q}
        BY <3>1 DEF PushInv, Single
      <3> HIDE DEF P
      <3>3. Cardinality(P) = 1
        BY <3>2, FS_Singleton
      <3> QED
        BY <3>3 DEF P
    <2> QED
      BY <2>1, <2>2
  <1>2. ASSUME NEW p \in pushes
        PROVE  p.window.end <= p.now /\ Weekly!get_run_for_download(p.window, p.runNo) = "bytes"
    <2>1. p.window \in Weekly!Windows /\ p.runNo = 1
      BY DEF PushInv, PushTypes, Pushes
    <2> QED
      BY <2>1 DEF PushInv, Sent, Stored, Weekly!get_run_for_download, Weekly!stream_get
  <1>3. ASSUME NEW x \in Weekly!AllRows
        PROVE  /\ rows[x.window][x.runNo].push # "PENDING"
                    => \E p \in pushes :
                         p.window = x.window /\ p.result = rows[x.window][x.runNo].push
               /\ Weekly!get_run_for_download(x.window, x.runNo) # "error"
    <2>0. PICK w \in Weekly!Windows : \E n \in Weekly!RunNos(w) : x = [window |-> w, runNo |-> n]
      BY DEF Weekly!AllRows
    <2>1. PICK n \in Weekly!RunNos(w) : x = [window |-> w, runNo |-> n]
      BY <2>0
    <2>2. Exists(w)
      BY <2>1 DEF Weekly!RunNos, Exists
    <2>3. n = 1
      BY <2>1, <2>2, RowOf DEF PushInv, Weekly!RunNos
    <2>4. x.window = w /\ x.runNo = 1
      BY <2>1, <2>3
    <2>5. rows[w][1].push # "PENDING"
            => \E p \in pushes : p.window = w /\ p.result = rows[w][1].push
      BY <2>2 DEF PushInv, Recorded
    <2>6. Weekly!get_run_for_download(w, 1) # "error"
      BY <2>2 DEF PushInv, Stored, Weekly!get_run_for_download, Weekly!stream_get
    <2> QED
      BY <2>4, <2>5, <2>6
  <1> QED
    BY <1>1, <1>2, <1>3, Counted DEF Weekly!OnePush

(* OnePush: however many executions of run_once run side by side, whenever    *)
(* they are started and wherever they die, a window is pushed at most once,   *)
(* after it has ended and only when its report can be downloaded; a row says  *)
(* of its push what the pusher reported; and a download does not fail for a   *)
(* missing archive.                                                           *)
THEOREM PushesCorrect ==
  ASSUME Hours \subseteq Int
  PROVE  Weekly!Spec => []Weekly!OnePush
  <1>1. Weekly!Init => PushInv
    BY PushStart
  <1>2. PushInv /\ [Weekly!Next]_Weekly!vars => PushInv'
    BY PushStep
  <1>3. PushInv => Weekly!OnePush
    BY PushSeen
  <1> QED
    BY <1>1, <1>2, <1>3, PTL DEF Weekly!Spec
-----------------------------------------------------------------------------
(* The episode memory (SkillMemory).                                          *)

EntryFields == {"group", "tags", "active", "embedded", "exists"}

(* There is one entry per source, with the fields of the table.               *)
EntriesFormed == /\ entry = [s \in Episodes!Sources |-> entry[s]]
                 /\ \A s \in Episodes!Sources : DOMAIN entry[s] = EntryFields

(* A step leaves every entry that is retired retired.                         *)
StaysRetired ==
  \A s \in Episodes!Sources : entry[s].exists /\ ~entry[s].active
                       => entry'[s].exists /\ ~entry'[s].active

LEMMA RetiredNotHinted ==
  ASSUME StaysRetired
  PROVE  Episodes!HintsNoRetired
  <1> SUFFICES ASSUME NEW s \in Episodes!Sources, entry[s].exists, ~entry[s].active, NEW g, NEW kinds,
                      NEW hints \in Episodes!retrieve_context_for_issue(g, kinds)', s \in hints
               PROVE  FALSE
    BY DEF Episodes!HintsNoRetired
  <1>1. entry'[s].active
    BY DEF Episodes!retrieve_context_for_issue, Episodes!search_by_embedding,
           Episodes!Nearest, Episodes!Comparable, Episodes!list_by_issue
  <1> QED
    BY <1>1 DEF StaysRetired

LEMMA EntriesStep ==
  ASSUME EntriesFormed, Episodes!Next
  PROVE  EntriesFormed' /\ StaysRetired
  <1> USE DEF EntriesFormed, StaysRetired, EntryFields
  <1> DEFINE Same == UNCHANGED entry
  <1>1. ASSUME Same PROVE EntriesFormed' /\ StaysRetired
    BY <1>1
  <1>2. ASSUME NEW c \in Callers, Episodes!Upsert(c)
        PROVE  EntriesFormed' /\ StaysRetired
    <2>1. CASE Same
      BY <1>1, <2>1
    <2>2. ASSUME NEW embedded \in BOOLEAN,
                 entry' = [entry EXCEPT ![call[c].source] =
                             Episodes!Upserted(@, call[c].dto, embedded)]
          PROVE  EntriesFormed' /\ StaysRetired
      <3>1. ASSUME NEW s \in Episodes!Sources
            PROVE  \/ entry'[s] = entry[s]
                   \/ entry'[s] = Episodes!Upserted(entry[s], call[c].dto, embedded)
        BY <2>2
      <3>2. entry' = [s \in Episodes!Sources |-> entry'[s]]
        BY <2>2
      <3>3. ASSUME NEW s \in Episodes!Sources
            PROVE  /\ DOMAIN entry'[s] = EntryFields
                   /\ entry[s].exists /\ ~entry[s].active
                        => entry'[s].exists /\ ~entry'[s].active
        <4>1. CASE entry'[s] = entry[s]
          BY <4>1
        <4>2. CASE entry'[s] = Episodes!Upserted(entry[s], call[c].dto, embedded)
          <5>1. DOMAIN entry'[s] = EntryFields
            BY <4>2 DEF Episodes!Upserted
          <5>2. entry'[s].exists /\ entry'[s].active = (~entry[s].exists \/ entry[s].active)
            BY <4>2 DEF Episodes!Upserted
          <5> QED
            BY <5>1, <5>2
        <4> QED
          BY <3>1, <4>1, <4>2
      <3> QED
        BY <3>2, <3>3
    <2> QED
      BY <1>2, <2>1, <2>2 DEF Episodes!Upsert
  <1>3. ASSUME NEW s \in Episodes!Sources, Episodes!supersede(s)
        PROVE  EntriesFormed' /\ StaysRetired
    BY <1>3 DEF Episodes!supersede
  <1>4. CASE Episodes!supersede_stale_patterns
    BY <1>4 DEF Episodes!supersede_stale_patterns
  <1>5. CASE Episodes!ClusterWrites
    BY <1>5 DEF Episodes!ClusterWrites
  <1> QED
    BY <1>1, <1>2, <1>3, <1>4, <1>5
       DEF Episodes!Next, Episodes!Edit, Episodes!Ingest, Episodes!Backfill,
           Episodes!FetchPage, Episodes!ClusterReads, Episodes!ClusterFails,
           Episodes!upsert_pattern

(* RetiredIsNotHinted: a memory that was superseded, or tagged as outdated    *)
(* and swept, is never hinted again, whatever is ingested, backfilled or      *)
(* clustered later: for any number of records, of requests in flight, of      *)
(* groups and of hints.                                                       *)
THEOREM RetiredCorrect == Episodes!Spec => Episodes!RetiredIsNotHinted
  <1>1. Episodes!Init => EntriesFormed
    BY DEF Episodes!Init, EntriesFormed, Episodes!NoEntry, EntryFields
  <1>2. EntriesFormed /\ [Episodes!Next]_Episodes!vars => EntriesFormed'
    BY EntriesStep DEF Episodes!vars, EntriesFormed
  <1>3. EntriesFormed /\ [Episodes!Next]_Episodes!vars => [Episodes!HintsNoRetired]_Episodes!vars
    BY EntriesStep, RetiredNotHinted
  <1> QED
    BY <1>1, <1>2, <1>3, PTL DEF Episodes!Spec, Episodes!RetiredIsNotHinted

-----------------------------------------------------------------------------
(* The review of a construction plan (PlanReview).                            *)

(* What a review of a plan is given: a picture has an answer for every try,   *)
(* and what an agent makes of the pictures has the values of its schema.      *)
TriesOf(in) == {Plans!Tries(in.providers)[i] : i \in DOMAIN Plans!Tries(in.providers)}
Asked(in, picture) == TriesOf(in) \subseteq DOMAIN picture.answers
PlanGiven(in) ==
  /\ \E Names : in.providers \in Seq(Names)
  /\ \A picture \in Plans!ToSet(Plans!prepare_assets(in.files)) : Asked(in, picture)
  /\ DOMAIN in.synthesis = 1 .. Retries + 1
  /\ \A i \in 1 .. Retries + 1 : \A f \in in.synthesis[i] :
       f.seal \in {"yes", "no", "unknown"} /\ \A p \in f.personnel : p.age \subseteq Int

LEMMA Least ==
  ASSUME NEW S \in SUBSET Nat, S # {}
  PROVE  Plans!Min(S) \in S
  <1>1. PICK n \in S : \A y \in S : <<y, n>> \notin OpToRel(<, Nat)
    BY WFMin, NatLessThanWellFounded
  <1>2. ASSUME NEW y \in S, y < n
        PROVE  FALSE
    BY <1>1, <1>2 DEF OpToRel
  <1>3. \A y \in S : n <= y
    BY <1>2
  <1> QED
    BY <1>3 DEF Plans!Min

(* What is extracted from a picture is what a try of it showed.               *)
LEMMA Extracted ==
  ASSUME Retries \in Nat, NEW in, NEW picture, PlanGiven(in), Asked(in, picture),
         NEW s \in Plans!extract(picture, in.registered, in.providers)
  PROVE  /\ s.ink = picture.ink
         /\ \E a \in Plans!Range(picture.answers) : Plans!Good(a) /\ s.elements = a.elements
  <1> DEFINE tries == Plans!Tries(in.providers)
             answers == {i \in DOMAIN tries : /\ tries[i][1] \in in.registered
                                              /\ Plans!Good(picture.answers[tries[i]])}
             first == Plans!Min(answers)
             shown == [elements |-> picture.answers[tries[first]].elements, ink |-> picture.ink]
  <1>1. DOMAIN tries \subseteq Nat
    <2>1. PICK Names : in.providers \in Seq(Names)
      BY DEF PlanGiven
    <2>2. Len(in.providers) \in Nat
      BY <2>1
    <2> QED
      BY <2>2 DEF Plans!Tries
  <1>2. s \in IF answers = {} THEN {} ELSE {shown}
    BY DEF Plans!extract
  <1>3. answers # {} /\ answers \in SUBSET Nat
    BY <1>1, <1>2
  <1>4. first \in answers
    BY <1>3, Least
  <1>5. s = shown
    BY <1>2, <1>3
  <1>6. s.elements = picture.answers[tries[first]].elements /\ s.ink = picture.ink
    BY <1>5
  <1>7. tries[first] \in TriesOf(in) /\ Plans!Good(picture.answers[tries[first]])
    BY <1>4 DEF TriesOf
  <1>8. picture.answers[tries[first]] \in Plans!Range(picture.answers)
    BY <1>7 DEF Asked, Plans!Range
  <1> QED
    BY <1>6, <1>7, <1>8

(* A review that does not reject and asks for nothing has failed on nothing   *)
(* it rejects, and could see every picture.                                   *)
LEMMA Passes ==
  ASSUME NEW in, NEW f, NEW isRed, NEW failed,
         Plans!status_of(Plans!mark_unavailable(Plans!evaluate(in, f, isRed), failed))
           \in {"PASS", "PASS_WITH_SUGGESTIONS"}
  PROVE  /\ failed = {}
         /\ \A x \in Plans!evaluate(in, f, isRed) :
              x.status # "REVIEW_REQUIRED" /\ (x.severity = "REJECT" => x.status # "FAIL")
  <1> DEFINE found == Plans!evaluate(in, f, isRed)
             told == Plans!mark_unavailable(found, failed)
             Latest(role, s) == \E i \in DOMAIN f.signatures :
               /\ s = f.signatures[i] /\ s.role = role
               /\ \A j \in DOMAIN f.signatures : f.signatures[j].role = role => j <= i
             Proper(role) == \E s \in Plans!ToSet(f.signatures) :
               Latest(role, s) /\ s.hand = "yes" /\ s.monthDay
             hand == Proper("engineer")
             sign == Proper("manager")
             f3 == Plans!Judged("CP-F3", FALSE, ~hand \/ ~sign)
  <1>1. \A x \in told : x.status # "REVIEW_REQUIRED" /\ (x.severity = "REJECT" => x.status # "FAIL")
    BY DEF Plans!status_of
  <1>2. f3 \in found
    BY DEF Plans!evaluate, Plans!Cover
  <1>3. DOMAIN f3 = {"rule", "status", "severity"} /\ f3.status \in {"PASS", "REVIEW_REQUIRED"}
    BY DEF Plans!Judged, Plans!Finding
  <1> HIDE DEF found, f3
  <1>4. failed = {}
    <2> SUFFICES ASSUME failed # {}
                 PROVE  FALSE
      OBVIOUS
    <2> DEFINE x == [f3 EXCEPT !.status = IF @ = "PASS" THEN "REVIEW_REQUIRED" ELSE @]
    <2>1. x \in told
      BY <1>2 DEF Plans!mark_unavailable
    <2>2. x.status = "REVIEW_REQUIRED"
      BY <1>3
    <2> QED
      BY <1>1, <2>1, <2>2
  <1>5. told = found
    BY <1>4 DEF Plans!mark_unavailable
  <1> QED
    BY <1>1, <1>4, <1>5 DEF found

(* PassedOnSight, of any plan, any number of tries and whatever the providers *)
(* and the agent answer: a review lets a plan through only if a picture shows *)
(* a seal whose pixels are red, every picture could be seen, and no fact of   *)
(* it breaks a rule that rejects.                                             *)
THEOREM PlanReviewCorrect ==
  ASSUME Retries \in Nat, NEW in, PlanGiven(in)
  PROVE  Plans!PassedOnSight(in)
  <1> SUFFICES ASSUME Plans!run(in) \in {"PASS", "PASS_WITH_SUGGESTIONS"}
               PROVE  LET pictures == Plans!ToSet(Plans!prepare_assets(in.files))
                          Sighted(p) == {a \in Plans!Range(p.answers) : Plans!Good(a)}
                      IN /\ \E p \in pictures :
                              /\ p.ink = "red"
                              /\ \E a \in Sighted(p) : "seal_candidate" \in Plans!ToSet(a.elements)
                         /\ \A p \in pictures : Sighted(p) # {}
                         /\ \E f \in UNION Plans!ToSet(in.synthesis) :
                              /\ f.seal = "yes" /\ f.sealText = in.vendor
                              /\ f.proofreader # f.approver
                              /\ \A p \in f.personnel : \A age \in p.age : age <= 60
    BY DEF Plans!PassedOnSight
  <1> DEFINE assets == Plans!prepare_assets(in.files)
             sights == [i \in DOMAIN assets |->
                          Plans!extract(assets[i], in.registered, in.providers)]
             seen == UNION Plans!Range(sights)
             failed == {i \in DOMAIN assets : sights[i] = {}}
             made == {i \in 1 .. Retries + 1 : in.synthesis[i] # {}}
             first == Plans!Min(made)
             facts == CHOOSE f \in in.synthesis[first] : TRUE
             isRed == Plans!enforce_color_verdict(facts.isRed, seen)
             found == Plans!evaluate(in, facts, isRed)
  <1>1. /\ seen # {} /\ made # {}
        /\ Plans!status_of(Plans!mark_unavailable(found, failed))
             \in {"PASS", "PASS_WITH_SUGGESTIONS"}
    BY DEF Plans!run
  <1>2. first \in 1 .. Retries + 1 /\ facts \in in.synthesis[first]
    <2>1. made \in SUBSET Nat
      OBVIOUS
    <2>2. first \in made
      BY <1>1, <2>1, Least
    <2> QED
      BY <2>2
  <1> HIDE DEF seen, failed, made, first, facts
  <1>3. /\ failed = {}
        /\ \A x \in found : x.status # "REVIEW_REQUIRED"
                            /\ (x.severity = "REJECT" => x.status # "FAIL")
    BY <1>1, Passes
  <1>4. isRed \in {"yes", "no", "unknown"} /\ facts.seal \in {"yes", "no", "unknown"}
    BY <1>2 DEF Plans!enforce_color_verdict, PlanGiven
  <1> HIDE DEF isRed
  <1>5. facts.seal = "yes" /\ isRed = "yes" /\ facts.sealText = in.vendor
    <2> DEFINE match == facts.sealText # {} /\ in.vendor # {} /\ facts.sealText = in.vendor
               fails == \/ facts.seal = "no"
                        \/ facts.seal = "yes" /\ (isRed = "no" \/ (isRed = "yes" /\ ~match))
               f2 == Plans!Judged("CP-F2", fails, "unknown" \in {facts.seal, isRed})
    <2>1. f2 \in found
      BY DEF Plans!evaluate, Plans!Cover
    <2>2. f2.severity = "REJECT"
      BY DEF Plans!Judged, Plans!Finding, Plans!Suggestions
    <2>3. ~fails /\ "unknown" \notin {facts.seal, isRed}
      BY <1>3, <2>1, <2>2 DEF Plans!Judged, Plans!Finding
    <2> QED
      BY <1>4, <2>3
  <1>6. facts.proofreader # facts.approver
    <2> DEFINE named == facts.proofreader # {} /\ facts.approver # {}
               f1 == Plans!Judged("CP-F1", named /\ facts.proofreader = facts.approver, ~named)
    <2>1. f1 \in found
      BY DEF Plans!evaluate, Plans!Cover
    <2>2. f1.severity = "REJECT"
      BY DEF Plans!Judged, Plans!Finding, Plans!Suggestions
    <2> QED
      BY <1>3, <2>1, <2>2 DEF Plans!Judged, Plans!Finding
  <1>7. \A p \in facts.personnel : \A age \in p.age : age <= 60
    <2> DEFINE Known(p) == p.age # {} /\ p.certified # "unknown"
               TooOld(p) == \E age \in p.age : age > IF p.certified = "yes" THEN 55 ELSE 60
               known == {p \in facts.personnel : Known(p)}
               p1 == Plans!Judged("CP-P1", \E p \in known : TooOld(p), known # facts.personnel)
    <2>1. p1 \in found
      BY DEF Plans!evaluate, Plans!Personnel
    <2>2. p1.severity = "REJECT"
      BY DEF Plans!Judged, Plans!Finding, Plans!Suggestions
    <2> HIDE DEF Known, TooOld
    <2>3. (\A p \in known : ~TooOld(p)) /\ known = facts.personnel
      BY <1>3, <2>1, <2>2 DEF Plans!Judged, Plans!Finding
    <2>4. \A p \in facts.personnel : p.age \subseteq Int
      BY <1>2 DEF PlanGiven
    <2> QED
      BY <2>3, <2>4 DEF TooOld
  <1>8. facts \in UNION Plans!ToSet(in.synthesis)
    BY <1>2 DEF PlanGiven, Plans!ToSet
  <1>9. PICK s \in seen : s.ink = "red" /\ "seal_candidate" \in Plans!ToSet(s.elements)
    BY <1>5 DEF isRed, Plans!enforce_color_verdict, Plans!SealCandidates, Plans!verify
  <1>10. PICK i \in DOMAIN assets : s \in sights[i]
    BY <1>9 DEF seen, Plans!Range
  <1>11. \A k \in DOMAIN assets : assets[k] \in Plans!ToSet(assets) /\ Asked(in, assets[k])
    BY DEF PlanGiven, Plans!ToSet
  <1> DEFINE Sighted(p) == {a \in Plans!Range(p.answers) : Plans!Good(a)}
  <1>12. \A k \in DOMAIN assets : \A x \in sights[k] :
           /\ x.ink = assets[k].ink
           /\ \E a \in Sighted(assets[k]) : x.elements = a.elements
    <2> TAKE k \in DOMAIN assets
    <2> TAKE x \in sights[k]
    <2>1. x \in Plans!extract(assets[k], in.registered, in.providers)
      OBVIOUS
    <2> QED
      BY <1>11, <2>1, Extracted
  <1>13. \A k \in DOMAIN assets : sights[k] # {}
    BY <1>3 DEF failed
  <1> HIDE DEF assets, sights
  <1>14. \A p \in Plans!ToSet(assets) : Sighted(p) # {}
    <2> TAKE p \in Plans!ToSet(assets)
    <2>1. PICK k \in DOMAIN assets : p = assets[k]
      BY DEF Plans!ToSet
    <2> QED
      BY <1>12, <1>13, <2>1
  <1>15. \E p \in Plans!ToSet(assets) :
           p.ink = "red" /\ \E a \in Sighted(p) : "seal_candidate" \in Plans!ToSet(a.elements)
    BY <1>9, <1>10, <1>11, <1>12
  <1> QED
    BY <1>5, <1>6, <1>7, <1>8, <1>14, <1>15 DEF assets
=============================================================================
