------------------------------ MODULE Speech ------------------------------
(* Speech to text (CPS, C-06): a request names a form field and an audio, by  *)
(* object key or inline, and is answered with the transcript, with SKIPPED    *)
(* when the deployment cannot transcribe, or with an error.  Answers are kept *)
(* in the process by idempotency key; requests interleave at the fetch of the *)
(* object and at the ASR call, and nothing makes two with one key wait.       *)
EXTENDS OrderedDict

CONSTANTS Callers, Requests,
          CacheMax,   \* _CACHE_MAX_ENTRIES
          TTL,        \* _CACHE_TTL_SECONDS, in ticks
          MaxClock    \* bound: ticks of the clock

VARIABLES configured,  \* the settings the service was built with: ASR, object storage
          cache,       \* the OrderedDict of its answers: least recently used first
          call,        \* the request each caller waits for, and where it is
          answered,    \* history: the answers given for a key since the process started
          replayed,    \* the last answer that came from the cache
          clock

vars == <<configured, cache, call, answered, replayed, clock>>

Idle == [at |-> "idle"]
NoReplay == [key |-> <<>>, answer |-> "none"]

(* The switch of the ASR: the first of its three places, the environment, the *)
(* new and the old setting, in which it is set at all.                        *)
Switches == [1..3 -> {"on", "off", "unset"}]
resolve_asr_enabled(places) ==
  LET given == SelectSeq(places, LAMBDA p : p # "unset") IN given # <<>> /\ Head(given) = "on"
(* Enabled, with an address and a credential from either of their places.     *)
available(places, credentials) == resolve_asr_enabled(places) /\ credentials
Settings == {[asr |-> available(places, credentials), storage |-> storage] :
               places \in Switches, credentials \in BOOLEAN, storage \in BOOLEAN}

(* The key the request carries under either of its names, else the one        *)
(* derived from the form field and the attempt.                               *)
KeyOf(r) == IF r.key # <<>> THEN r.key ELSE <<r.field, r.attempt>>
KeysOf == {KeyOf(r) : r \in Requests}

(* The three fields of a form, a positive attempt, exactly one audio: what    *)
(* the endpoint and the service refuse is answered 422.                       *)
valid(r) == /\ r.field \in {"reason", "short_term", "long_term"}
            /\ r.attempt >= 1
            /\ (r.object = "none") # (r.inline = "none")

Entry(key) == Lookup(cache, key)
Without(key) == Popped(cache, key)
Live(e) == clock <= e.at + TTL
Bounded(data) == Trimmed(data, CacheMax)

Init == /\ configured \in Settings
        /\ cache = <<>>
        /\ call = [c \in Callers |-> Idle]
        /\ answered = [k \in KeysOf |-> {}]
        /\ replayed = NoReplay
        /\ clock = 0

(* An answer that is kept: the newest last, the oldest use evicted.           *)
put(key, answer) ==
  cache' = Bounded(Stored(cache, [key |-> key, answer |-> answer, at |-> clock]))
Answer(c, key, answer) ==
  /\ put(key, answer)
  /\ answered' = [answered EXCEPT ![key] = @ \cup {answer}]
  /\ call' = [call EXCEPT ![c] = Idle]

(* A 422 or 502: the key stays free for a retry.                              *)
Refuse(c) ==
  /\ call' = [call EXCEPT ![c] = Idle]
  /\ UNCHANGED <<cache, answered>>

(* SpeechTechnicalError.                                                      *)
Fail(c) == Refuse(c)

Transcribing(c, r) == call' = [call EXCEPT ![c] = [at |-> "transcribing", req |-> r]]

(* transcribe, up to its first await: the validation, the cache, the settings *)
(* and an inline audio, which is decoded and measured at once.                *)
Transcribe(c, r) ==
  LET key == KeyOf(r)
      hits == {e \in Entry(key) : Live(e)}
  IN /\ call[c] = Idle
     /\ valid(r)
     /\ \/ \E e \in hits : /\ cache' = Stored(cache, e)
                           /\ replayed' = [key |-> key, answer |-> e.answer]
                           /\ UNCHANGED <<call, answered>>
        \/ /\ hits = {}
           /\ UNCHANGED replayed
           /\ \/ ~configured.asr /\ Answer(c, key, "SKIPPED")
              \/ /\ configured.asr /\ cache' = Without(key) /\ UNCHANGED answered
                 /\ \/ /\ r.object # "none"
                       /\ call' = [call EXCEPT ![c] = [at |-> "loading", req |-> r]]
                    \/ r.inline = "audio" /\ Transcribing(c, r)
                    \/ r.inline \in {"undecodable", "oversized"} /\ UNCHANGED call
     /\ UNCHANGED <<configured, clock>>

(* The object arrives, is missing or unreachable, or is larger than allowed;  *)
(* without a configured storage the request is skipped.                       *)
LoadAudio(c) ==
  /\ call[c].at = "loading"
  /\ LET r == call[c].req IN
     \/ ~configured.storage /\ Answer(c, KeyOf(r), "SKIPPED")
     \/ configured.storage /\ r.object = "audio" /\ Transcribing(c, r) /\ UNCHANGED <<cache, answered>>
     \/ configured.storage /\ r.object = "oversized" /\ Refuse(c)
     \/ configured.storage /\ Fail(c)
  /\ UNCHANGED <<configured, replayed, clock>>

(* The text of any content the response holds, the empty one of other content. *)
transcripts == {"words", "empty"}

(* The ASR call: a transcript of this audio; 401 and 403 count as a           *)
(* deployment that cannot transcribe; everything else fails.                  *)
AsrReturns(c) ==
  /\ call[c].at = "transcribing"
  /\ \/ \E text \in transcripts : Answer(c, KeyOf(call[c].req), text)
     \/ Answer(c, KeyOf(call[c].req), "SKIPPED")
     \/ Fail(c)
  /\ UNCHANGED <<configured, replayed, clock>>

(* The cache and the requests die with the process; settings are read anew.   *)
Restart ==
  /\ clock < MaxClock
  /\ configured' \in Settings
  /\ cache' = <<>>
  /\ call' = [c \in Callers |-> Idle]
  /\ answered' = [k \in KeysOf |-> {}]
  /\ replayed' = NoReplay
  /\ clock' = clock + 1

Tick == /\ clock < MaxClock
        /\ clock' = clock + 1
        /\ UNCHANGED <<configured, cache, call, answered, replayed>>

Next == \/ \E c \in Callers : \/ \E r \in Requests : Transcribe(c, r)
                              \/ LoadAudio(c) \/ AsrReturns(c)
        \/ Restart \/ Tick

Spec == Init /\ [][Next]_vars

-----------------------------------------------------------------------------
(* A replay repeats an answer that was given for its key: neither a technical *)
(* failure nor a refusal, of this request or of one at its side, leaves       *)
(* anything that a retry with the key would be answered with; and the cache   *)
(* holds one answer of a key and keeps its bound.                             *)
ReplayWasAnswered ==
  /\ replayed # NoReplay => replayed.answer \in answered[replayed.key]
  /\ Len(cache) <= CacheMax
  /\ Keyed(cache)
  /\ \A e \in ToSet(cache) : e.answer \in answered[e.key]

(* What the endpoint promises of a key: a transcript that was answered is not *)
(* replaced by a SKIPPED.  Two requests with the key side by side break it,   *)
(* the later one refused by the ASR service.                                  *)
TranscriptStands ==
  [][\A e \in ToSet(cache) : e.answer = "words" =>
       \A n \in ToSet(cache') : n.key = e.key => n.answer # "SKIPPED"]_vars
=============================================================================
