---------------------------- MODULE CacheProofs ----------------------------
(* The result caches of the CPS services: what OrderedDict does, and what its *)
(* three users, RoomChecks, InspectionPlans and Speech, answer from it.       *)
EXTENDS OrderedDict, SequenceTheorems, TLAPS

CONSTANTS Callers, Keys, Runs, PlanTypes, Requests, CacheMax, TTL, MaxClock
VARIABLES cache, call, clock, service, latest, made, answer, configured, answered, replayed

Rooms == INSTANCE RoomChecks
Drafts == INSTANCE InspectionPlans
Transcripts == INSTANCE Speech

(* A dict whose entries are of S.                                             *)
IsDict(dict, S) == dict \in Seq(S) /\ Keyed(dict)

(* A sequence without its element i.                                          *)
LEMMA Removed ==
  ASSUME NEW S, NEW s \in Seq(S), NEW i \in 1 .. Len(s)
  PROVE  /\ RemoveAt(s, i) \in Seq(S)
         /\ Len(RemoveAt(s, i)) = Len(s) - 1
         /\ \A j \in 1 .. Len(s) - 1 : RemoveAt(s, i)[j] = IF j < i THEN s[j] ELSE s[j + 1]
  <1> DEFINE n == Len(s)
             a == SubSeq(s, 1, i - 1)
             b == SubSeq(s, i + 1, n)
  <1>1. n \in Nat /\ i \in 1 .. n
    BY LenProperties
  <1>2. \A j \in 1 .. n : s[j] \in S
    BY ElementOfSeq
  <1> HIDE DEF n
  <1>3. /\ a \in Seq(S) /\ Len(a) = i - 1
        /\ \A j \in 1 .. i - 1 : a[j] = s[j]
    <2>1. /\ a \in Seq(S)
          /\ Len(a) = IF 1 <= i - 1 THEN (i - 1) - 1 + 1 ELSE 0
          /\ \A j \in 1 .. (i - 1) - 1 + 1 : a[j] = s[1 + j - 1]
      BY <1>1, <1>2, SubSeqProperties
    <2> QED
      BY <1>1, <2>1
  <1>4. /\ b \in Seq(S) /\ Len(b) = n - i
        /\ \A j \in 1 .. n - i : b[j] = s[i + j]
    <2>1. /\ b \in Seq(S)
          /\ Len(b) = IF i + 1 <= n THEN n - (i + 1) + 1 ELSE 0
          /\ \A j \in 1 .. n - (i + 1) + 1 : b[j] = s[(i + 1) + j - 1]
      BY <1>1, <1>2, SubSeqProperties, SMTT(30)
    <2>2. n \in Int /\ i \in Int /\ i <= n
      BY <1>1
    <2>3. /\ n - (i + 1) + 1 = n - i
          /\ (i + 1 <= n \/ n - i = 0)
          /\ \A j \in 1 .. n - i : (i + 1) + j - 1 = i + j
      BY <2>2
    <2> HIDE DEF b
    <2>4. Len(b) = n - i
      BY <2>1, <2>3
    <2>5. \A j \in 1 .. n - i : b[j] = s[i + j]
      BY <2>1, <2>3
    <2> QED
      BY <2>1, <2>4, <2>5
  <1>5. RemoveAt(s, i) = a \o b
    BY DEF RemoveAt, n
  <1> HIDE DEF a, b
  <1>6. /\ a \o b \in Seq(S)
        /\ Len(a \o b) = (i - 1) + (n - i)
        /\ \A j \in 1 .. (i - 1) + (n - i) :
             (a \o b)[j] = IF j <= i - 1 THEN a[j] ELSE b[j - (i - 1)]
    <2>1. /\ a \o b \in Seq(S)
          /\ Len(a \o b) = Len(a) + Len(b)
          /\ \A j \in 1 .. Len(a) + Len(b) :
               (a \o b)[j] = IF j <= Len(a) THEN a[j] ELSE b[j - Len(a)]
      BY <1>3, <1>4, ConcatProperties
    <2> QED
      BY <1>3, <1>4, <2>1
  <1>7. (i - 1) + (n - i) = n - 1
    BY <1>1
  <1>8. ASSUME NEW j \in 1 .. n - 1
        PROVE  (a \o b)[j] = IF j < i THEN s[j] ELSE s[j + 1]
    <2>1. CASE j < i
      BY <1>1, <1>3, <1>6, <1>7, <2>1
    <2>2. CASE ~(j < i)
      <3>1. (a \o b)[j] = b[j - (i - 1)]
        BY <1>1, <1>6, <1>7, <2>2
      <3>2. j - (i - 1) \in 1 .. n - i /\ i + (j - (i - 1)) = j + 1
        BY <1>1, <2>2
      <3> QED
        BY <1>4, <2>2, <3>1, <3>2
    <2> QED
      BY <2>1, <2>2
  <1> QED
    BY <1>5, <1>6, <1>7, <1>8 DEF n

(* pop removes the entry of the key and no other.                             *)
LEMMA PoppedDict ==
  ASSUME NEW S, NEW dict, IsDict(dict, S), NEW key
  PROVE  /\ IsDict(Popped(dict, key), S)
         /\ ToSet(Popped(dict, key)) = {e \in ToSet(dict) : e.key # key}
         /\ Len(Popped(dict, key)) <= Len(dict)
         /\ Lookup(dict, key) # {} => Len(Popped(dict, key)) + 1 <= Len(dict)
  <1> DEFINE n == Len(dict)
             out == Popped(dict, key)
  <1>1. n \in Nat /\ dict \in Seq(S) /\ DOMAIN dict = 1 .. n
    BY LenProperties DEF IsDict
  <1>2. CASE \A i \in 1 .. n : dict[i].key # key
    <2>1. out = dict
      BY <1>2 DEF Popped, RemoveFirstMatch
    <2>2. ToSet(dict) = {e \in ToSet(dict) : e.key # key} /\ Lookup(dict, key) = {}
      BY <1>1, <1>2 DEF ToSet, Lookup
    <2>3. n <= n
      BY <1>1
    <2> QED
      BY <2>1, <2>2, <2>3
  <1>3. ASSUME NEW i \in 1 .. n, dict[i].key = key
        PROVE  /\ IsDict(out, S)
               /\ ToSet(out) = {e \in ToSet(dict) : e.key # key}
               /\ Len(out) = n - 1
    <2> DEFINE I == {j \in 1 .. Len(dict) : dict[j].key = key}
    <2>1. I = {i}
      BY <1>1, <1>3 DEF IsDict, Keyed
    <2>2. Min(I) = i
      <3>1. i <= i
        BY <1>1
      <3> HIDE DEF I
      <3> QED
        BY <2>1, <3>1 DEF Min
    <2>3. SelectInSeq(dict, LAMBDA e : e.key = key) = IF I # {} THEN Min(I) ELSE 0
      BY DEF SelectInSeq
    <2>4. out = RemoveAt(dict, SelectInSeq(dict, LAMBDA e : e.key = key))
      BY <1>3 DEF Popped, RemoveFirstMatch
    <2>5. out = RemoveAt(dict, i)
      BY <2>1, <2>2, <2>3, <2>4
    <2>6. /\ out \in Seq(S)
          /\ Len(out) = n - 1
          /\ \A j \in 1 .. n - 1 : out[j] = IF j < i THEN dict[j] ELSE dict[j + 1]
      BY <1>1, <2>5, Removed
    <2> HIDE DEF n, out
    <2>7. DOMAIN out = 1 .. n - 1
      BY <2>6, LenProperties
    <2>8. Keyed(out)
      <3> SUFFICES ASSUME NEW j \in 1 .. n - 1, NEW k \in 1 .. n - 1, out[j].key = out[k].key
                   PROVE  j = k
        BY <2>7 DEF Keyed
      <3> DEFINE to(x) == IF x < i THEN x ELSE x + 1
      <3>1. to(j) \in 1 .. n /\ to(k) \in 1 .. n
        BY <1>1
      <3>2. out[j] = dict[to(j)] /\ out[k] = dict[to(k)]
        BY <2>6
      <3>3. to(j) = to(k)
        <4> HIDE DEF to
        <4> QED
          BY <1>1, <3>1, <3>2 DEF IsDict, Keyed
      <3> QED
        BY <1>1, <3>3
    <2>9. ASSUME NEW e
          PROVE  e \in ToSet(out) <=> e \in ToSet(dict) /\ e.key # key
      <3>1. ASSUME e \in ToSet(out)
            PROVE  e \in ToSet(dict) /\ e.key # key
        <4>1. PICK j \in 1 .. n - 1 : e = out[j]
          BY <2>7, <3>1 DEF ToSet
        <4>2. PICK k \in 1 .. n : e = dict[k] /\ k # i
          BY <1>1, <2>6, <4>1
        <4> QED
          BY <1>1, <1>3, <4>2 DEF ToSet, IsDict, Keyed
      <3>2. ASSUME e \in ToSet(dict), e.key # key
            PROVE  e \in ToSet(out)
        <4>1. PICK k \in 1 .. n : e = dict[k]
          BY <1>1, <3>2 DEF ToSet
        <4>2. k # i
          BY <1>3, <3>2, <4>1
        <4>3. \E j \in 1 .. n - 1 : out[j] = dict[k]
          <5>1. CASE k < i
            <6>1. k \in 1 .. n - 1 /\ out[k] = dict[k]
              BY <1>1, <2>6, <5>1
            <6> QED
              BY <6>1
          <5>2. CASE k > i
            <6>1. k - 1 \in 1 .. n - 1 /\ ~(k - 1 < i) /\ (k - 1) + 1 = k
              BY <1>1, <5>2
            <6>2. out[k - 1] = dict[k]
              BY <2>6, <6>1
            <6> QED
              BY <6>1, <6>2
          <5> QED
            BY <1>1, <4>2, <5>1, <5>2
        <4> QED
          BY <2>7, <4>1, <4>3 DEF ToSet
      <3> QED
        BY <3>1, <3>2
    <2>10. ToSet(out) = {e \in ToSet(dict) : e.key # key}
      BY <2>9
    <2> QED
      BY <2>6, <2>8, <2>10 DEF IsDict
  <1>4. CASE \E i \in 1 .. n : dict[i].key = key
    <2>1. /\ IsDict(out, S)
          /\ ToSet(out) = {e \in ToSet(dict) : e.key # key}
          /\ Len(out) = n - 1
      BY <1>3, <1>4
    <2> HIDE DEF n, out
    <2>2. Len(out) <= n /\ Len(out) + 1 <= n
      BY <1>1, <2>1
    <2> QED
      BY <2>1, <2>2 DEF n, out
  <1> QED
    BY <1>2, <1>4

(* Storing an entry drops the one its key had.                                *)
LEMMA StoredDict ==
  ASSUME NEW S, NEW dict, IsDict(dict, S), NEW e \in S
  PROVE  /\ IsDict(Stored(dict, e), S)
         /\ ToSet(Stored(dict, e)) = {x \in ToSet(dict) : x.key # e.key} \cup {e}
         /\ Len(Stored(dict, e)) <= Len(dict) + 1
         /\ Lookup(dict, e.key) # {} => Len(Stored(dict, e)) <= Len(dict)
  <1> DEFINE p == Popped(dict, e.key)
             out == Stored(dict, e)
             n == Len(p)
  <1>1. /\ p \in Seq(S) /\ Keyed(p)
        /\ ToSet(p) = {x \in ToSet(dict) : x.key # e.key}
        /\ Len(p) <= Len(dict)
        /\ Lookup(dict, e.key) # {} => Len(p) + 1 <= Len(dict)
    BY PoppedDict DEF IsDict
  <1>2. out = Append(p, e)
    BY DEF Stored
  <1> HIDE DEF p, out
  <1>3. /\ out \in Seq(S) /\ Len(out) = n + 1
        /\ \A i \in 1 .. n : out[i] = p[i]
        /\ out[n + 1] = e
    BY <1>1, <1>2, AppendProperties
  <1>4. n \in Nat /\ DOMAIN p = 1 .. n /\ Len(dict) \in Nat
    BY <1>1, LenProperties DEF IsDict
  <1>5. DOMAIN out = 1 .. n + 1
    BY <1>3, LenProperties
  <1>6. \A i \in 1 .. n : p[i].key # e.key
    BY <1>1, <1>4 DEF ToSet
  <1> HIDE DEF n
  <1>7. Keyed(out)
    <2> SUFFICES ASSUME NEW i \in 1 .. n + 1, NEW j \in 1 .. n + 1, out[i].key = out[j].key
                 PROVE  i = j
      BY <1>5 DEF Keyed
    <2>1. CASE i \in 1 .. n /\ j \in 1 .. n
      BY <1>1, <1>3, <1>4, <2>1 DEF Keyed
    <2>2. CASE i = n + 1 \/ j = n + 1
      BY <1>3, <1>4, <1>6, <2>2
    <2> QED
      BY <1>4, <2>1, <2>2
  <1>8. ToSet(out) = ToSet(p) \cup {e}
    <2>1. \A i \in 1 .. n + 1 : i \in 1 .. n \/ i = n + 1
      BY <1>4
    <2>2. n + 1 \in 1 .. n + 1 /\ \A i \in 1 .. n : i \in 1 .. n + 1
      BY <1>4
    <2> QED
      BY <1>3, <1>4, <1>5, <2>1, <2>2 DEF ToSet
  <1>9. Len(out) <= Len(dict) + 1 /\ (Lookup(dict, e.key) # {} => Len(out) <= Len(dict))
    <2> DEFINE m == Len(dict)
    <2>1. n <= m /\ (Lookup(dict, e.key) # {} => n + 1 <= m) /\ m \in Nat
      BY <1>1, <1>4 DEF n
    <2>2. Len(out) = n + 1
      BY <1>3
    <2> HIDE DEF m
    <2>3. Len(out) <= m + 1 /\ (Lookup(dict, e.key) # {} => Len(out) <= m)
      BY <1>4, <2>1, <2>2
    <2> QED
      BY <2>3 DEF m
  <1> QED
    BY <1>1, <1>3, <1>7, <1>8, <1>9 DEF IsDict, out

(* What is evicted is missing, nothing else changes, and the bound holds.     *)
LEMMA TrimmedDict ==
  ASSUME NEW S, NEW dict, IsDict(dict, S), NEW max \in Nat, Len(dict) <= max + 1
  PROVE  /\ IsDict(Trimmed(dict, max), S)
         /\ ToSet(Trimmed(dict, max)) \subseteq ToSet(dict)
         /\ Len(Trimmed(dict, max)) <= max
  <1>1. CASE ~(Len(dict) > max)
    <2> DEFINE n == Len(dict)
    <2>1. n \in Nat
      BY LenProperties DEF IsDict
    <2>2. ~(n > max)
      BY <1>1
    <2> HIDE DEF n
    <2>3. n <= max
      BY <2>1, <2>2
    <2> QED
      BY <1>1, <2>3 DEF Trimmed, n
  <1>2. CASE Len(dict) > max
    <2> DEFINE n == Len(dict)
               out == Tail(dict)
    <2>1. dict \in Seq(S) /\ n \in Nat /\ DOMAIN dict = 1 .. n
      BY LenProperties DEF IsDict
    <2>2. n = max + 1
      <3>1. n > max /\ n <= max + 1
        BY <1>2
      <3> HIDE DEF n
      <3> QED
        BY <2>1, <3>1
    <2>3. dict # <<>>
      <3>1. n # 0
        BY <2>2
      <3> QED
        BY <3>1, EmptySeq
    <2>4. /\ out \in Seq(S) /\ Len(out) = n - 1
          /\ \A i \in 1 .. Len(out) : out[i] = dict[i + 1]
      BY <2>1, <2>3, HeadTailProperties
    <2>5. DOMAIN out = 1 .. Len(out)
      BY <2>4, LenProperties
    <2>6. Trimmed(dict, max) = out
      BY <1>2 DEF Trimmed
    <2> HIDE DEF n, out
    <2>7. DOMAIN out = 1 .. n - 1 /\ \A i \in 1 .. n - 1 : out[i] = dict[i + 1] /\ i + 1 \in 1 .. n
      BY <2>1, <2>4, <2>5
    <2>8. Keyed(out)
      <3> SUFFICES ASSUME NEW i \in 1 .. n - 1, NEW j \in 1 .. n - 1, out[i].key = out[j].key
                   PROVE  i = j
        BY <2>7 DEF Keyed
      <3>1. i + 1 = j + 1
        BY <2>1, <2>7, SMTT(30) DEF IsDict, Keyed
      <3> QED
        BY <2>1, <3>1
    <2>9. ToSet(out) \subseteq ToSet(dict)
      BY <2>1, <2>7 DEF ToSet
    <2>10. Len(out) <= max
      BY <2>1, <2>2, <2>4
    <2> QED
      BY <2>4, <2>6, <2>8, <2>9, <2>10 DEF IsDict
  <1> QED
    BY <1>1, <1>2

-----------------------------------------------------------------------------
(* An entry of a dict is of its set.                                          *)
LEMMA EntryOf ==
  ASSUME NEW S, NEW dict, IsDict(dict, S), NEW e \in ToSet(dict)
  PROVE  e \in S
  <1>1. PICK i \in 1 .. Len(dict) : e = dict[i]
    BY LenProperties DEF ToSet, IsDict
  <1> QED
    BY <1>1, ElementOfSeq DEF IsDict

(* A cache of at most CacheMax entries.                                       *)
IsCache(dict, S) == IsDict(dict, S) /\ Len(dict) <= CacheMax

LEMMA EmptyCache ==
  ASSUME NEW S, CacheMax \in Nat
  PROVE  IsCache(<<>>, S) /\ ToSet(<<>>) = {}
  BY EmptySeq DEF IsCache, IsDict, Keyed, ToSet

(* What the three operations of the services do to a cache: an entry is       *)
(* dropped, one is used again, one is stored and the oldest evicted.          *)
LEMMA CacheDrop ==
  ASSUME NEW S, NEW dict, IsCache(dict, S), CacheMax \in Nat, NEW key
  PROVE  /\ IsCache(Popped(dict, key), S)
         /\ \A x \in ToSet(Popped(dict, key)) : x \in ToSet(dict) /\ x.key # key
  <1> DEFINE out == Popped(dict, key)
             n == Len(dict)
             m == Len(out)
  <1>1. /\ IsDict(out, S) /\ m <= n
        /\ ToSet(out) = {e \in ToSet(dict) : e.key # key}
    BY PoppedDict DEF IsCache
  <1>2. m \in Nat /\ n \in Nat /\ n <= CacheMax
    BY <1>1, LenProperties DEF IsCache, IsDict
  <1> HIDE DEF n, m
  <1>3. m <= CacheMax
    BY <1>1, <1>2
  <1> QED
    BY <1>1, <1>3 DEF IsCache, m

LEMMA CacheUse ==
  ASSUME NEW S, NEW dict, IsCache(dict, S), CacheMax \in Nat, NEW e \in ToSet(dict)
  PROVE  /\ IsCache(Stored(dict, e), S)
         /\ \A x \in ToSet(Stored(dict, e)) : x \in ToSet(dict)
  <1> DEFINE out == Stored(dict, e)
             n == Len(dict)
             m == Len(out)
  <1>1. e \in S /\ Lookup(dict, e.key) # {} /\ IsDict(dict, S)
    BY EntryOf DEF IsCache, Lookup
  <1>2. /\ IsDict(out, S) /\ m <= n
        /\ ToSet(out) = {x \in ToSet(dict) : x.key # e.key} \cup {e}
    BY <1>1, StoredDict, SMTT(30)
  <1>3. m \in Nat /\ n \in Nat /\ n <= CacheMax
    BY <1>2, LenProperties DEF IsCache, IsDict
  <1> HIDE DEF n, m
  <1>4. m <= CacheMax
    BY <1>2, <1>3
  <1> QED
    BY <1>2, <1>4 DEF IsCache, m

LEMMA CacheStore ==
  ASSUME NEW S, NEW dict, IsCache(dict, S), CacheMax \in Nat, NEW e \in S
  PROVE  /\ IsCache(Trimmed(Stored(dict, e), CacheMax), S)
         /\ \A x \in ToSet(Trimmed(Stored(dict, e), CacheMax)) :
              x = e \/ (x \in ToSet(dict) /\ x.key # e.key)
  <1> DEFINE out == Stored(dict, e)
             n == Len(dict)
             m == Len(out)
  <1>1. /\ IsDict(out, S) /\ m <= n + 1
        /\ ToSet(out) = {x \in ToSet(dict) : x.key # e.key} \cup {e}
    BY StoredDict DEF IsCache
  <1>2. m \in Nat /\ n \in Nat /\ n <= CacheMax
    BY <1>1, LenProperties DEF IsCache, IsDict
  <1> HIDE DEF n, m
  <1>3. m <= CacheMax + 1
    BY <1>1, <1>2
  <1>4. /\ IsDict(Trimmed(out, CacheMax), S)
        /\ ToSet(Trimmed(out, CacheMax)) \subseteq ToSet(out)
        /\ Len(Trimmed(out, CacheMax)) <= CacheMax
    BY <1>1, <1>3, TrimmedDict DEF m
  <1> HIDE DEF out
  <1> QED
    BY <1>1, <1>4 DEF IsCache, out

-----------------------------------------------------------------------------
(* RoomChecks.                                                                *)
LEMMA RoomsDict ==
  ASSUME NEW d, NEW k, NEW e, NEW max
  PROVE  /\ Rooms!Popped(d, k) = Popped(d, k)
         /\ Rooms!Lookup(d, k) = Lookup(d, k)
         /\ Rooms!Stored(d, e) = Stored(d, e)
         /\ Rooms!Trimmed(d, max) = Trimmed(d, max)
         /\ Rooms!Keyed(d) = Keyed(d)
         /\ Rooms!ToSet(d) = ToSet(d)
  <1>1. \A t : Rooms!Popped(d, t) = Popped(d, t)
    BY DEF Popped, Rooms!Popped, RemoveFirstMatch, Rooms!RemoveFirstMatch, RemoveAt, Rooms!RemoveAt,
           SelectInSeq, Rooms!SelectInSeq, Min, Rooms!Min
  <1>2. Rooms!ToSet(d) = ToSet(d)
    BY DEF ToSet, Rooms!ToSet
  <1> QED
    BY <1>1, <1>2 DEF Lookup, Stored, Trimmed, Keyed, Rooms!Lookup, Rooms!Stored, Rooms!Trimmed, Rooms!Keyed

Verdicts == Rooms!C04Outcomes \cup {"SKIPPED"} \cup Rooms!B6Outcomes
RoomEntries == [key : Keys, verdict : Verdicts, until : Int]

(* The cache of the service holds the verdicts that were judged last.         *)
RoomsInv ==
  /\ IsCache(cache, RoomEntries)
  /\ \A e \in ToSet(cache) : e.verdict = latest[e.key]
  /\ latest = [k \in Keys |-> latest[k]]
  /\ call \in [Callers -> Keys \cup {"none"}]
  /\ clock \in Int

LEMMA RoomsStep ==
  ASSUME RoomsInv, [Rooms!Next]_Rooms!vars, CacheMax \in Nat, TTL \in Int
  PROVE  RoomsInv'
  <1> USE DEF RoomsInv
  <1>1. CASE UNCHANGED Rooms!vars
    BY <1>1 DEF Rooms!vars
  <1>2. ASSUME NEW key, cache' = Popped(cache, key), UNCHANGED <<latest, clock>>,
               call' \in [Callers -> Keys \cup {"none"}]
        PROVE  RoomsInv'
    BY <1>2, CacheDrop
  <1>3. ASSUME NEW c \in Callers, NEW r \in Rooms!Requests, Rooms!Judge(c, r)
        PROVE  RoomsInv'
    <2>1. r.key \in Keys /\ UNCHANGED <<latest, clock>>
      BY <1>3 DEF Rooms!Judge, Rooms!accepted
    <2>2. ASSUME NEW e \in Rooms!Entry(r.key), cache' = Rooms!Stored(cache, e), UNCHANGED call
          PROVE  RoomsInv'
      <3>1. e \in ToSet(cache) /\ cache' = Stored(cache, e)
        BY <2>2, RoomsDict DEF Rooms!Entry, Lookup
      <3>2. /\ IsCache(Stored(cache, e), RoomEntries)
            /\ \A x \in ToSet(Stored(cache, e)) : x \in ToSet(cache)
        BY <3>1, CacheUse
      <3> QED
        BY <2>1, <2>2, <3>1, <3>2
    <2>3. CASE /\ cache' = Rooms!Without(r.key)
               /\ call' = [call EXCEPT ![c] = r.key]
      BY <1>2, <2>1, <2>3, RoomsDict DEF Rooms!Without
    <2> QED
      BY <1>3, <2>2, <2>3 DEF Rooms!Judge
  <1>4. ASSUME NEW c \in Callers, NEW r \in Rooms!Requests, Rooms!Rejudge(c, r)
        PROVE  RoomsInv'
    BY <1>2, <1>4, RoomsDict DEF Rooms!Rejudge, Rooms!accepted, Rooms!Without
  <1>5. ASSUME NEW key \in Keys, Rooms!Invalidate(key)
        PROVE  RoomsInv'
    BY <1>2, <1>5, RoomsDict DEF Rooms!Invalidate, Rooms!Without
  <1>6. ASSUME NEW c \in Callers, Rooms!Finish(c)
        PROVE  RoomsInv'
    <2>1. /\ call[c] \in Keys /\ clock' = clock
          /\ call' \in [Callers -> Keys \cup {"none"}]
      BY <1>6 DEF Rooms!Finish
    <2>2. CASE UNCHANGED <<cache, latest>>
      BY <2>1, <2>2
    <2>3. ASSUME NEW verdict \in Rooms!Outcomes, Rooms!put(call[c], verdict),
                 latest' = [latest EXCEPT ![call[c]] = verdict]
          PROVE  RoomsInv'
      <3> DEFINE e == [key |-> call[c], verdict |-> verdict, until |-> clock + TTL]
      <3>1. verdict \in Verdicts
        BY DEF Rooms!Outcomes, Verdicts
      <3>2. e \in RoomEntries /\ e.key = call[c] /\ e.verdict = verdict
        <4>1. clock + TTL \in Int
          OBVIOUS
        <4> QED
          BY <2>1, <3>1, <4>1 DEF RoomEntries
      <3>3. cache' = Trimmed(Stored(cache, e), CacheMax)
        BY <2>3, RoomsDict DEF Rooms!put, Rooms!Bounded, Rooms!New
      <3> HIDE DEF e
      <3>4. /\ IsCache(cache', RoomEntries)
            /\ \A x \in ToSet(cache') : x = e \/ (x \in ToSet(cache) /\ x.key # e.key)
        BY <3>2, <3>3, CacheStore
      <3>5. ASSUME NEW x \in ToSet(cache') PROVE x.verdict = latest'[x.key]
        <4>1. x \in RoomEntries
          BY <3>4, EntryOf DEF IsCache
        <4>2. x.key \in Keys
          BY <4>1 DEF RoomEntries
        <4> QED
          BY <2>1, <2>3, <3>2, <3>4, <4>2
      <3> QED
        BY <2>1, <2>3, <3>4, <3>5
    <2> QED
      BY <1>6, <2>2, <2>3 DEF Rooms!Finish
  <1>7. CASE Rooms!Tick
    BY <1>7 DEF Rooms!Tick
  <1> QED
    BY <1>1, <1>3, <1>4, <1>5, <1>6, <1>7 DEF Rooms!Next

(* ReplayIsLatest (RoomChecks): with any number of requests for any keys      *)
(* judged side by side, rejudged, expired and evicted, the cache holds at     *)
(* most one verdict of a key and it is the one judged last, and its bound.    *)
THEOREM RoomChecksCorrect ==
  ASSUME CacheMax \in Nat, TTL \in Int
  PROVE  Rooms!Spec => []Rooms!ReplayIsLatest
  <1>1. Rooms!Init => RoomsInv
    BY EmptyCache DEF Rooms!Init, RoomsInv
  <1>2. RoomsInv /\ [Rooms!Next]_Rooms!vars => RoomsInv'
    BY RoomsStep
  <1>3. RoomsInv => Rooms!ReplayIsLatest
    BY RoomsDict DEF RoomsInv, Rooms!ReplayIsLatest, IsCache, IsDict
  <1> QED
    BY <1>1, <1>2, <1>3, PTL DEF Rooms!Spec

-----------------------------------------------------------------------------
(* InspectionPlans.                                                           *)
LEMMA DraftsDict ==
  ASSUME NEW d, NEW k, NEW e, NEW max
  PROVE  /\ Drafts!Popped(d, k) = Popped(d, k)
         /\ Drafts!Lookup(d, k) = Lookup(d, k)
         /\ Drafts!Stored(d, e) = Stored(d, e)
         /\ Drafts!Trimmed(d, max) = Trimmed(d, max)
         /\ Drafts!Keyed(d) = Keyed(d)
         /\ Drafts!ToSet(d) = ToSet(d)
  <1>1. \A t : Drafts!Popped(d, t) = Popped(d, t)
    BY DEF Popped, Drafts!Popped, RemoveFirstMatch, Drafts!RemoveFirstMatch,
           RemoveAt, Drafts!RemoveAt, SelectInSeq, Drafts!SelectInSeq, Min, Drafts!Min
  <1>2. Drafts!ToSet(d) = ToSet(d)
    BY DEF ToSet, Drafts!ToSet
  <1> QED
    BY <1>1, <1>2
       DEF Lookup, Stored, Trimmed, Keyed,
           Drafts!Lookup, Drafts!Stored, Drafts!Trimmed, Drafts!Keyed

(* A draft bears its key and proposes each kind of task once.                 *)
Plans == [draft_id : Drafts!Keys, run : Runs, plan_type : PlanTypes \cup {"unknown"},
          content : {x \in {Drafts!build_draft_content(r) : r \in Drafts!Requests} :
                       ToSet(x.tasks) = Drafts!Tasks}]
DraftEntries == [key : Drafts!Keys, draft : Plans, until : Int]

DraftsInv ==
  /\ IsCache(cache, DraftEntries)
  /\ \A e \in ToSet(cache) : e.draft = made[e.key] /\ e.draft.draft_id = e.key
  /\ made = [k \in Drafts!Keys |-> made[k]]
  /\ clock \in Int
  /\ answer.status # "none" => answer.draft \in Plans /\ answer.draft = made[answer.draft.draft_id]

LEMMA AllTasks ==
  ASSUME NEW type
  PROVE  ToSet(Drafts!blueprint(type)) = Drafts!Tasks
  <1>1. /\ ToSet(<<"INSPECT_RECTIFY", "INSPECT_PATROL", "INSPECT_CHECK">>) = Drafts!Tasks
        /\ ToSet(<<"INSPECT_PATROL", "INSPECT_CHECK", "INSPECT_RECTIFY">>) = Drafts!Tasks
        /\ ToSet(<<"INSPECT_CHECK", "INSPECT_PATROL", "INSPECT_RECTIFY">>) = Drafts!Tasks
    BY DEF ToSet, Drafts!Tasks
  <1> QED
    BY <1>1 DEF Drafts!blueprint

LEMMA DraftOf ==
  ASSUME NEW r \in Drafts!Requests
  PROVE  /\ Drafts!idempotency_key(r) \in Drafts!Keys
         /\ Drafts!NewDraft(r) \in Plans
         /\ Drafts!NewDraft(r).draft_id = Drafts!idempotency_key(r)
  <1>1. Drafts!idempotency_key(r) \in Drafts!Keys
    BY DEF Drafts!Requests, Drafts!idempotency_key, Drafts!Keys
  <1>2. ToSet(Drafts!build_draft_content(r).tasks) = Drafts!Tasks
    BY AllTasks DEF Drafts!build_draft_content
  <1>3. r.run \in Runs /\ r.plan_type \in PlanTypes \cup {"unknown"}
    BY DEF Drafts!Requests
  <1> QED
    BY <1>1, <1>2, <1>3 DEF Drafts!NewDraft, Plans

LEMMA DraftsStep ==
  ASSUME DraftsInv, [Drafts!Next]_Drafts!vars, CacheMax \in Nat, TTL \in Int
  PROVE  DraftsInv'
  <1> USE DEF DraftsInv
  <1>1. CASE UNCHANGED Drafts!vars
    BY <1>1 DEF Drafts!vars
  <1>2. CASE Drafts!Tick
    BY <1>2 DEF Drafts!Tick
  <1>3. ASSUME NEW r \in Drafts!Requests, Drafts!Draft(r)
        PROVE  DraftsInv'
    <2> DEFINE key == Drafts!idempotency_key(r)
               draft == Drafts!NewDraft(r)
    <2>1. key \in Drafts!Keys /\ draft \in Plans /\ draft.draft_id = key
      BY DraftOf
    <2>2. clock' = clock
      BY <1>3 DEF Drafts!Draft
    <2>3. ASSUME NEW e \in Drafts!get(key), cache' = Drafts!Stored(cache, e), UNCHANGED made,
                 answer' = [status |-> "REPLAYED", draft |-> e.draft]
          PROVE  DraftsInv'
      <3>1. e \in ToSet(cache) /\ cache' = Stored(cache, e)
        BY <2>3, DraftsDict DEF Drafts!get, Lookup
      <3>2. /\ IsCache(Stored(cache, e), DraftEntries)
            /\ \A x \in ToSet(Stored(cache, e)) : x \in ToSet(cache)
        BY <3>1, CacheUse
      <3>3. e \in DraftEntries
        BY <3>1, EntryOf DEF IsCache
      <3>4. answer'.draft = e.draft /\ e.draft \in Plans /\ e.draft = made[e.draft.draft_id]
        BY <2>3, <3>1, <3>3 DEF DraftEntries
      <3> QED
        BY <2>2, <2>3, <3>1, <3>2, <3>4
    <2>4. CASE /\ Drafts!put(draft)
               /\ answer' = [status |-> "DRAFT", draft |-> draft]
               /\ made' = [made EXCEPT ![key] = draft]
      <3> DEFINE e == [key |-> draft.draft_id, draft |-> draft, until |-> clock + TTL]
      <3>1. e \in DraftEntries /\ e.key = key /\ e.draft = draft
        <4>1. clock + TTL \in Int
          OBVIOUS
        <4> HIDE DEF draft, key
        <4> QED
          BY <2>1, <4>1 DEF DraftEntries
      <3>2. cache' = Trimmed(Stored(cache, e), CacheMax)
        BY <2>4, DraftsDict DEF Drafts!put, Drafts!New
      <3> HIDE DEF e, key, draft
      <3>3. /\ IsCache(cache', DraftEntries)
            /\ \A x \in ToSet(cache') : x = e \/ (x \in ToSet(cache) /\ x.key # e.key)
        BY <3>1, <3>2, CacheStore
      <3>4. ASSUME NEW x \in ToSet(cache')
            PROVE  x.draft = made'[x.key] /\ x.draft.draft_id = x.key
        <4>1. x \in DraftEntries
          BY <3>3, EntryOf DEF IsCache
        <4>2. x.key \in Drafts!Keys
          BY <4>1 DEF DraftEntries
        <4> QED
          BY <2>1, <2>4, <3>1, <3>3, <4>2
      <3>5. answer'.draft = draft /\ made'[key] = draft
        BY <2>1, <2>4
      <3> QED
        BY <2>1, <2>2, <2>4, <3>3, <3>4, <3>5
    <2> QED
      BY <1>3, <2>3, <2>4 DEF Drafts!Draft
  <1> QED
    BY <1>1, <1>2, <1>3 DEF Drafts!Next

(* ReplayIsLastDraft (InspectionPlans): with requests replayed, expired and   *)
(* evicted, for any runs, types of plan and size of the cache, what is        *)
(* answered or kept for a key is the draft made last for it, an answer        *)
(* proposes each kind of task, and the cache keeps its bound.                 *)
THEOREM DraftsCorrect ==
  ASSUME CacheMax \in Nat, TTL \in Int
  PROVE  Drafts!Spec => []Drafts!ReplayIsLastDraft
  <1>1. Drafts!Init => DraftsInv
    BY EmptyCache DEF Drafts!Init, DraftsInv
  <1>2. DraftsInv /\ [Drafts!Next]_Drafts!vars => DraftsInv'
    BY DraftsStep
  <1>3. DraftsInv => Drafts!ReplayIsLastDraft
    <2>1. \A p \in Plans : ToSet(p.content.tasks) = Drafts!Tasks
      BY DEF Plans
    <2> QED
      BY <2>1, DraftsDict DEF DraftsInv, Drafts!ReplayIsLastDraft, IsCache, IsDict
  <1> QED
    BY <1>1, <1>2, <1>3, PTL DEF Drafts!Spec

-----------------------------------------------------------------------------
(* Speech.                                                                    *)
LEMMA TranscriptsDict ==
  ASSUME NEW d, NEW k, NEW e, NEW max
  PROVE  /\ Transcripts!Popped(d, k) = Popped(d, k)
         /\ Transcripts!Lookup(d, k) = Lookup(d, k)
         /\ Transcripts!Stored(d, e) = Stored(d, e)
         /\ Transcripts!Trimmed(d, max) = Trimmed(d, max)
         /\ Transcripts!Keyed(d) = Keyed(d)
         /\ Transcripts!ToSet(d) = ToSet(d)
  <1>1. \A t : Transcripts!Popped(d, t) = Popped(d, t)
    BY DEF Popped, Transcripts!Popped, RemoveFirstMatch, Transcripts!RemoveFirstMatch,
           RemoveAt, Transcripts!RemoveAt, SelectInSeq, Transcripts!SelectInSeq, Min, Transcripts!Min
  <1>2. Transcripts!ToSet(d) = ToSet(d)
    BY DEF ToSet, Transcripts!ToSet
  <1> QED
    BY <1>1, <1>2
       DEF Lookup, Stored, Trimmed, Keyed,
           Transcripts!Lookup, Transcripts!Stored, Transcripts!Trimmed, Transcripts!Keyed

Texts == Transcripts!transcripts \cup {"SKIPPED"}
TextEntries == [key : Transcripts!KeysOf, answer : Texts, at : Int]

(* A kept answer and the last replay were answered; a request in flight is    *)
(* one of the requests.                                                       *)
SpeechInv ==
  /\ IsCache(cache, TextEntries)
  /\ \A e \in ToSet(cache) : e.answer \in answered[e.key]
  /\ answered = [k \in Transcripts!KeysOf |-> answered[k]]
  /\ replayed # Transcripts!NoReplay => /\ replayed.key \in Transcripts!KeysOf
                                        /\ replayed.answer \in answered[replayed.key]
  /\ \A c \in Callers : call[c].at \in {"loading", "transcribing"} => call[c].req \in Requests
  /\ call = [c \in Callers |-> call[c]]
  /\ clock \in Int

(* Nothing that was answered is forgotten by a step that adds an answer.      *)
LEMMA Answered ==
  ASSUME SpeechInv, NEW c \in Callers, NEW r \in Requests, NEW text \in Texts,
         Transcripts!Answer(c, Transcripts!KeyOf(r), text), UNCHANGED <<replayed, clock>>,
         CacheMax \in Nat
  PROVE  SpeechInv'
  <1> USE DEF SpeechInv
  <1> DEFINE key == Transcripts!KeyOf(r)
             e == [key |-> key, answer |-> text, at |-> clock]
  <1>1. key \in Transcripts!KeysOf
    BY DEF Transcripts!KeysOf
  <1>2. e \in TextEntries /\ e.key = key /\ e.answer = text
    BY <1>1 DEF TextEntries
  <1>3. /\ cache' = Trimmed(Stored(cache, e), CacheMax)
        /\ answered' = [answered EXCEPT ![key] = @ \cup {text}]
        /\ call' = [call EXCEPT ![c] = Transcripts!Idle]
    BY TranscriptsDict DEF Transcripts!Answer, Transcripts!put, Transcripts!Bounded
  <1> HIDE DEF e, key
  <1>4. /\ IsCache(cache', TextEntries)
        /\ \A x \in ToSet(cache') : x = e \/ (x \in ToSet(cache) /\ x.key # e.key)
    BY <1>2, <1>3, CacheStore
  <1>5. /\ \A k \in Transcripts!KeysOf : answered[k] \subseteq answered'[k]
        /\ text \in answered'[key]
        /\ answered' = [k \in Transcripts!KeysOf |-> answered'[k]]
    BY <1>1, <1>3
  <1>6. ASSUME NEW x \in ToSet(cache') PROVE x.answer \in answered'[x.key]
    <2>1. x \in TextEntries
      BY <1>4, EntryOf DEF IsCache
    <2>2. x.key \in Transcripts!KeysOf
      BY <2>1 DEF TextEntries
    <2> QED
      BY <1>2, <1>4, <1>5, <2>2
  <1>7. \A d \in Callers : call'[d].at \in {"loading", "transcribing"} => call'[d].req \in Requests
    <2>1. Transcripts!Idle.at = "idle"
      BY DEF Transcripts!Idle
    <2> QED
      BY <1>3, <2>1
  <1> QED
    BY <1>3, <1>4, <1>5, <1>6, <1>7

(* A request that waits now, or no more.                                      *)
LEMMA Waits ==
  ASSUME SpeechInv, NEW c \in Callers, NEW k,
         k.at \in {"loading", "transcribing"} => k.req \in Requests,
         call' = [call EXCEPT ![c] = k]
  PROVE  /\ \A d \in Callers :
              call'[d].at \in {"loading", "transcribing"} => call'[d].req \in Requests
         /\ call' = [d \in Callers |-> call'[d]]
  BY DEF SpeechInv

LEMMA TranscribeStep ==
  ASSUME SpeechInv, NEW c \in Callers, NEW r \in Requests, Transcripts!Transcribe(c, r),
         CacheMax \in Nat
  PROVE  SpeechInv'
  <1> USE DEF SpeechInv
  <1> DEFINE key == Transcripts!KeyOf(r)
             hits == {e \in Transcripts!Entry(key) : Transcripts!Live(e)}
  <1>1. clock' = clock /\ key \in Transcripts!KeysOf
    BY DEF Transcripts!Transcribe, Transcripts!KeysOf
  <1>2. ASSUME NEW e \in hits, cache' = Transcripts!Stored(cache, e),
               replayed' = [key |-> key, answer |-> e.answer], UNCHANGED <<call, answered>>
        PROVE  SpeechInv'
    <2>1. e \in ToSet(cache) /\ e.key = key /\ cache' = Stored(cache, e)
      <3>1. e \in Transcripts!Lookup(cache, key)
        BY DEF Transcripts!Entry
      <3> HIDE DEF key
      <3>2. e \in Lookup(cache, key)
        BY <3>1, TranscriptsDict
      <3>3. e \in ToSet(cache) /\ e.key = key
        BY <3>2 DEF Lookup
      <3> QED
        BY <1>2, <3>3, TranscriptsDict
    <2>2. /\ IsCache(Stored(cache, e), TextEntries)
          /\ \A x \in ToSet(Stored(cache, e)) : x \in ToSet(cache)
      BY <2>1, CacheUse
    <2>3. replayed'.key = key /\ replayed'.answer \in answered[key]
      BY <1>2, <2>1
    <2> QED
      BY <1>1, <1>2, <2>1, <2>2, <2>3
  <1>3. CASE Transcripts!Answer(c, key, "SKIPPED") /\ UNCHANGED replayed
    BY <1>1, <1>3, Answered DEF Texts
  <1>4. ASSUME cache' = Transcripts!Without(key), UNCHANGED <<answered, replayed>>,
               \/ call' = [call EXCEPT ![c] = [at |-> "loading", req |-> r]]
               \/ Transcripts!Transcribing(c, r)
               \/ UNCHANGED call
        PROVE  SpeechInv'
    <2>1. cache' = Popped(cache, key)
      BY <1>4, TranscriptsDict DEF Transcripts!Without
    <2>2. /\ IsCache(cache', TextEntries)
          /\ \A x \in ToSet(cache') : x \in ToSet(cache)
      BY <2>1, CacheDrop
    <2>3. /\ \A d \in Callers :
               call'[d].at \in {"loading", "transcribing"} => call'[d].req \in Requests
          /\ call' = [d \in Callers |-> call'[d]]
      BY <1>4, Waits DEF Transcripts!Transcribing
    <2> QED
      BY <1>1, <1>4, <2>2, <2>3
  <1> QED
    BY <1>2, <1>3, <1>4 DEF Transcripts!Transcribe

(* A request that is refused or fails leaves the cache.                       *)
LEMMA Refused ==
  ASSUME SpeechInv, NEW c \in Callers, NEW k,
         k.at \in {"loading", "transcribing"} => k.req \in Requests,
         call' = [call EXCEPT ![c] = k], UNCHANGED <<cache, answered, replayed, clock>>
  PROVE  SpeechInv'
  BY Waits DEF SpeechInv

LEMMA SpeechStep ==
  ASSUME SpeechInv, [Transcripts!Next]_Transcripts!vars, CacheMax \in Nat
  PROVE  SpeechInv'
  <1>1. CASE UNCHANGED Transcripts!vars
    BY <1>1 DEF Transcripts!vars, SpeechInv
  <1>2. CASE Transcripts!Tick
    BY <1>2 DEF Transcripts!Tick, SpeechInv
  <1>3. CASE Transcripts!Restart
    <2>1. /\ cache' = <<>> /\ call' = [c \in Callers |-> Transcripts!Idle]
          /\ answered' = [k \in Transcripts!KeysOf |-> {}]
          /\ replayed' = Transcripts!NoReplay /\ clock' = clock + 1
      BY <1>3 DEF Transcripts!Restart
    <2>2. \A c \in Callers : call'[c].at = "idle"
      BY <2>1 DEF Transcripts!Idle
    <2>3. IsCache(cache', TextEntries) /\ ToSet(cache') = {}
      BY <2>1, EmptyCache
    <2>4. clock' \in Int
      BY <2>1 DEF SpeechInv
    <2> QED
      BY <2>1, <2>2, <2>3, <2>4 DEF SpeechInv
  <1>4. ASSUME NEW c \in Callers, Transcripts!Refuse(c), UNCHANGED <<replayed, clock>>
        PROVE  SpeechInv'
    <2>1. Transcripts!Idle.at = "idle"
      BY DEF Transcripts!Idle
    <2> QED
      BY <1>4, <2>1, Refused DEF Transcripts!Refuse
  <1>5. ASSUME NEW c \in Callers, Transcripts!LoadAudio(c)
        PROVE  SpeechInv'
    <2>1. call[c].req \in Requests /\ UNCHANGED <<replayed, clock>>
      BY <1>5 DEF Transcripts!LoadAudio, SpeechInv
    <2>2. CASE Transcripts!Answer(c, Transcripts!KeyOf(call[c].req), "SKIPPED")
      BY <2>1, <2>2, Answered DEF Texts
    <2>3. CASE Transcripts!Transcribing(c, call[c].req) /\ UNCHANGED <<cache, answered>>
      BY <2>1, <2>3, Refused DEF Transcripts!Transcribing
    <2>4. CASE Transcripts!Refuse(c)
      BY <1>4, <2>1, <2>4
    <2> QED
      BY <1>5, <2>2, <2>3, <2>4 DEF Transcripts!LoadAudio, Transcripts!Fail
  <1>6. ASSUME NEW c \in Callers, Transcripts!AsrReturns(c)
        PROVE  SpeechInv'
    <2>1. call[c].req \in Requests /\ UNCHANGED <<replayed, clock>>
      BY <1>6 DEF Transcripts!AsrReturns, SpeechInv
    <2>2. ASSUME NEW text \in Texts, Transcripts!Answer(c, Transcripts!KeyOf(call[c].req), text)
          PROVE  SpeechInv'
      BY <2>1, <2>2, Answered
    <2>3. CASE Transcripts!Refuse(c)
      BY <1>4, <2>1, <2>3
    <2> QED
      BY <1>6, <2>2, <2>3 DEF Transcripts!AsrReturns, Transcripts!Fail, Texts
  <1> QED
    BY <1>1, <1>2, <1>3, <1>5, <1>6, TranscribeStep DEF Transcripts!Next

(* ReplayWasAnswered (Speech): for any requests in flight, any cache size and *)
(* any restarts, a replay repeats an answer that was given for its key since  *)
(* the process started, never a refusal or a technical failure, and the cache *)
(* holds one answer of a key and keeps its bound.                             *)
THEOREM SpeechCorrect ==
  ASSUME CacheMax \in Nat
  PROVE  Transcripts!Spec => []Transcripts!ReplayWasAnswered
  <1>1. Transcripts!Init => SpeechInv
    BY EmptyCache DEF Transcripts!Init, Transcripts!Idle, SpeechInv
  <1>2. SpeechInv /\ [Transcripts!Next]_Transcripts!vars => SpeechInv'
    BY SpeechStep
  <1>3. SpeechInv => Transcripts!ReplayWasAnswered
    BY TranscriptsDict DEF SpeechInv, Transcripts!ReplayWasAnswered, IsCache, IsDict
  <1> QED
    BY <1>1, <1>2, <1>3, PTL DEF Transcripts!Spec
============================================================================
