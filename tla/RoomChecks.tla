---------------------------- MODULE RoomChecks ----------------------------
(* The two services that judge photos of a room check (CPS), both synchronous *)
(* in a request and both with a result cache of their own in the process: the *)
(* two-stage chain of C-04 and the three-stage, scored chain of B6.  Requests *)
(* interleave at the model calls; nothing makes two requests with one key     *)
(* wait for each other.                                                       *)
EXTENDS OrderedDict

CONSTANTS Callers, Keys,
          CacheMax,   \* CACHE_MAX_ENTRIES
          TTL,        \* CACHE_TTL_SECONDS, in ticks
          MaxClock    \* bound: ticks of the clock

VARIABLES service,    \* which of the two it is: they share nothing
          cache,      \* the OrderedDict of its results: least recently used first
          call,       \* the key each request has judged, or "none"
          latest,     \* history: the verdict judged last for a key
          clock

vars == <<service, cache, call, latest, clock>>

(* C-04 judges where its switch is on: the first of four places, the two new  *)
(* ones before the two it shared with the initial review, in which it is set. *)
resolve_vision_enabled(places) ==
  LET given == SelectSeq(places, LAMBDA p : p # "unset") IN given # <<>> /\ Head(given) = "on"
Services == {IF resolve_vision_enabled(places) THEN "C04" ELSE "C04 off" :
               places \in [1..4 -> {"on", "off", "unset"}]} \cup {"B6"}

(* A request names its key, and in B6 a kind of room; what the endpoint or    *)
(* the service refuses is answered 422.                                       *)
Requests == [key : Keys \cup {"blank", "oversized"}, room : {"known", "unknown"}]
accepted(r) == r.key \in Keys /\ (service = "B6" => r.room = "known")

-----------------------------------------------------------------------------
(* What a URL leads to.                                                       *)
Answers == {"image", "unreachable", "refused", "empty", "oversized"}
fetch_photo_url(answer) == IF answer = "image" THEN "fetched" ELSE "failed"
(* C-04 is given photos, all of which it loads, or none; B6 is given one, or  *)
(* judges a placeholder image.                                                *)
load_photos(answers) ==
  IF answers = {} THEN "absent"
  ELSE IF \A x \in answers : fetch_photo_url(x) = "fetched" THEN "fetched" ELSE "failed"
resolve_photo(answer) == IF answer = "none" THEN "placeholder" ELSE fetch_photo_url(answer)
C04Photos == {load_photos({x, y}) : x, y \in Answers} \cup {load_photos({})}
B6Photos == {resolve_photo(answer) : answer \in Answers \cup {"none"}}

(* C-04: does the photo show such an item, then does the item comply.  A call *)
(* fails by a timeout, an exception or an output that was invalid twice.      *)
C04Judged(photo, matches, content) ==
  IF photo = "absent" THEN "SKIPPED"
  ELSE IF photo = "failed" \/ matches = "failed" THEN "technical"
  ELSE IF matches = "unavailable" THEN "SKIPPED"
  ELSE IF matches = "no" THEN "TYPE_MISMATCH"
  ELSE IF content = "failed" THEN "technical"
  ELSE IF content = "unavailable" THEN "SKIPPED"
  ELSE content
C04Outcomes == {C04Judged(photo, matches, content) :
                  photo \in C04Photos, matches \in {"yes", "no", "failed", "unavailable"},
                  content \in {"PASS", "FAIL", "UNJUDGEABLE", "failed", "unavailable"}}

(* B6: a call gives a JSON object with some of the fields that were asked     *)
(* for, or a text that is none; it fails where no provider is configured, by  *)
(* a timeout or an exception.                                                 *)
Replies == [matched : {"yes", "no", "absent"}, type_match : {"yes", "no", "absent"},
            content : {"match", "missing", "mismatch"},
            strength : {"STRONG", "MODERATE", "WEAK", "NONE", "other"}]
NotJson == [matched |-> "absent", type_match |-> "absent", content |-> "mismatch", strength |-> "NONE"]
complete_vision == Replies \cup {NotJson}
invoke(parsed) == parsed \cup {"failed"}
type_match_ok(reply) ==
  IF reply.matched # "absent" THEN reply.matched
  ELSE IF reply.type_match # "absent" THEN reply.type_match ELSE "no"
parse_content(reply) == reply.content
parse_evidence(reply) == IF reply.strength = "other" THEN "NONE" ELSE reply.strength

(* The score starts at 100 and two of the stages may take from it.            *)
Overall(score) == IF score >= 80 THEN "PASS" ELSE IF score >= 50 THEN "PARTIAL" ELSE "PROBLEM"
Deducted(content) == CASE content = "mismatch" -> 40 [] content = "missing" -> 20 [] OTHER -> 0
Vague(evidence) == CASE evidence \in {"WEAK", "NONE"} -> 30 [] evidence = "MODERATE" -> 10 [] OTHER -> 0
B6Judged(photo, matches, content, evidence) ==
  IF photo = "failed" \/ matches = "failed" THEN "fallback"
  ELSE IF matches = "no" THEN Overall(0)
  ELSE IF "failed" \in {content, evidence} THEN "fallback"
  ELSE Overall(100 - Deducted(content) - Vague(evidence))
B6Outcomes == {B6Judged(photo, matches, content, evidence) :
                 photo \in B6Photos,
                 matches \in invoke({type_match_ok(reply) : reply \in complete_vision}),
                 content \in invoke({parse_content(reply) : reply \in complete_vision}),
                 evidence \in invoke({parse_evidence(reply) : reply \in complete_vision})}

(* C-04 answers a technical failure with a 502 and does not cache it; B6      *)
(* answers it with the fixed PROBLEM verdict, which it caches.                *)
Outcomes == CASE service = "C04" -> C04Outcomes
              [] service = "C04 off" -> {"SKIPPED"}
              [] OTHER -> B6Outcomes

-----------------------------------------------------------------------------
Entry(key) == Lookup(cache, key)
Without(key) == Popped(cache, key)
Live(e) == clock < e.until
New(key, verdict) == [key |-> key, verdict |-> verdict, until |-> clock + TTL]
Bounded(data) == Trimmed(data, CacheMax)

(* Mutant: the position moves, the entry of an earlier judgment stays.        *)
put_keeps(key, verdict) ==
  cache' = Bounded(Append(Without(key), IF Entry(key) # {} THEN CHOOSE e \in Entry(key) : TRUE
                                        ELSE New(key, verdict)))

(* _ResultCache.put: the newest last, the least recently used one evicted.    *)
put(key, verdict) == cache' = Bounded(Stored(cache, New(key, verdict)))

Init == /\ service \in Services
        /\ cache = <<>>
        /\ call = [c \in Callers |-> "none"]
        /\ latest = [k \in Keys |-> "none"]
        /\ clock = 0

(* _ResultCache.get, at the start of judge: a live entry answers the request  *)
(* and becomes the most recently used, an expired one is dropped.             *)
Judge(c, r) ==
  LET key == r.key IN
  /\ call[c] = "none"
  /\ accepted(r)
  /\ \/ /\ \E e \in Entry(key) : Live(e) /\ cache' = Stored(cache, e)
        /\ UNCHANGED call
     \/ /\ \A e \in Entry(key) : ~Live(e)
        /\ cache' = Without(key)
        /\ call' = [call EXCEPT ![c] = key]
  /\ UNCHANGED <<service, latest, clock>>

(* rejudge: the entry is dropped, and nothing awaits before judge looks.      *)
Rejudge(c, r) ==
  /\ service = "B6"
  /\ call[c] = "none"
  /\ accepted(r)
  /\ cache' = Without(r.key)
  /\ call' = [call EXCEPT ![c] = r.key]
  /\ UNCHANGED <<service, latest, clock>>

(* The rejudge endpoint only drops the entry.                                 *)
Invalidate(key) ==
  /\ service = "B6"
  /\ cache' = Without(key)
  /\ UNCHANGED <<service, call, latest, clock>>

(* The chain of a request ends: the verdict is cached, a 502 is not.          *)
Finish(c) ==
  /\ call[c] # "none"
  /\ call' = [call EXCEPT ![c] = "none"]
  /\ \/ "technical" \in Outcomes /\ UNCHANGED <<cache, latest>>
     \/ \E verdict \in Outcomes \ {"technical"} :
          /\ put(call[c], verdict)
          /\ latest' = [latest EXCEPT ![call[c]] = verdict]
  /\ UNCHANGED <<service, clock>>

Tick == /\ clock < MaxClock
        /\ clock' = clock + 1
        /\ UNCHANGED <<service, cache, call, latest>>

Next ==
  \/ \E c \in Callers : \/ \E r \in Requests : Judge(c, r) \/ Rejudge(c, r)
                        \/ Finish(c)
  \/ \E k \in Keys : Invalidate(k)
  \/ Tick

Spec == Init /\ [][Next]_vars

-----------------------------------------------------------------------------
(* What a replay may answer: with requests for one key judged side by side,   *)
(* rejudged, expired and evicted, the service holds at most one verdict of a  *)
(* key and it is the one judged last; and the cache keeps its bound.          *)
ReplayIsLatest ==
  /\ Len(cache) <= CacheMax
  /\ Keyed(cache)
  /\ \A e \in ToSet(cache) : e.verdict = latest[e.key]

(* The verdicts of B6, as the comments of JudgeVerdict give them: a photo     *)
(* whose content does not match is a PROBLEM.                                 *)
MismatchIsProblem ==
  \A evidence \in {"STRONG", "MODERATE", "WEAK", "NONE"} :
    B6Judged("fetched", "yes", "mismatch", evidence) = "PROBLEM"
=============================================================================
