--------------------------- MODULE CapacityProofs ---------------------------
(* Theorems about what the program counts: the permits of Capacity, and the   *)
(* cases in the dispatch patterns of SkillMetrics.  Both compare a number     *)
(* with a sum over contexts or rows, so the first part is about such sums.    *)
EXTENDS Capacity, FiniteSetTheorems, SequenceTheorems, TLAPS

CONSTANTS Kinds, Pages, Filters, Periods, Effects, Asked, Metrics, Keys, Queries, Counts,
          Reasons, TopK, Threshold, Injected, ReasonsMax, ListLimit, MaxRetries, MaxClock
VARIABLES dialect, analysis, stored, metrics, patterns, answer, clock

Statistics == INSTANCE SkillMetrics

-----------------------------------------------------------------------------
(* Induction over the naturals, with the set of the numbers that satisfy what *)
(* is claimed in place of a predicate.                                        *)
LEMMA Induction ==
  ASSUME NEW T \in SUBSET Nat, 0 \in T, \A n \in T : n + 1 \in T
  PROVE  T = Nat
  <1> SUFFICES ASSUME T # Nat
               PROVE  FALSE
    OBVIOUS
  <1> DEFINE Outside == Nat \ T
  <1>1. Outside \in SUBSET Nat /\ Outside # {}
    OBVIOUS
  <1>2. PICK n \in Outside : \A y \in Outside : <<y, n>> \notin OpToRel(<, Nat)
    BY <1>1, WFMin, NatLessThanWellFounded
  <1>3. n \in Nat /\ n # 0 /\ n - 1 \in Nat /\ n - 1 < n
    OBVIOUS
  <1>4. n - 1 \notin Outside
    BY <1>2, <1>3 DEF OpToRel
  <1>5. n - 1 \in T /\ (n - 1) + 1 = n
    BY <1>3, <1>4
  <1> QED
    BY <1>5

-----------------------------------------------------------------------------
(* What the lists of the contexts C hold of a semaphore.                      *)
Held(m, s, C) == MapThenSumSet(LAMBDA c : m[c][s], C)

One(T) == CHOOSE x \in T : TRUE
Lists(m, s, C) == \A c \in C : m[c][s] \in Nat
Adds(h, m, s, C) ==
  \A T \in C : h[T] = IF T = {} THEN 0 ELSE m[One(T)][s] + h[T \ {One(T)}]
Below(C, n) == {T \in SUBSET C : Cardinality(T) <= n}

(* The induction goes over the number of contexts.                            *)
LEMMA NoneBelow ==
  ASSUME NEW C, IsFiniteSet(C)
  PROVE  \A t \in Below(C, 0) : t = {}
  <1> SUFFICES ASSUME NEW t \in Below(C, 0)
               PROVE  t = {}
    OBVIOUS
  <1>1. IsFiniteSet(t) /\ Cardinality(t) <= 0 /\ Cardinality(t) \in Nat
    BY FS_Subset, FS_CardinalityType DEF Below
  <1> QED
    BY <1>1, FS_EmptySet

LEMMA FewerBelow ==
  ASSUME NEW C, IsFiniteSet(C), NEW k \in Nat, NEW t \in Below(C, k + 1), NEW x \in t
  PROVE  t \ {x} \in Below(C, k) /\ t \ {x} \in Below(C, k + 1)
  <1>1. IsFiniteSet(t) /\ Cardinality(t) \in Nat /\ Cardinality(t) <= k + 1
    BY FS_Subset, FS_CardinalityType DEF Below
  <1>2. Cardinality(t \ {x}) = Cardinality(t) - 1
    BY <1>1, FS_RemoveElement
  <1> QED
    BY <1>1, <1>2 DEF Below

(* The sum over the sets of at most n contexts is well defined.               *)
LEMMA SumsBelow ==
  ASSUME NEW C, IsFiniteSet(C), NEW m, NEW s, Lists(m, s, C), NEW n \in Nat
  PROVE  \E h \in [Below(C, n) -> Nat] : Adds(h, m, s, Below(C, n))
  <1> DEFINE Defined(k) == \E h \in [Below(C, k) -> Nat] : Adds(h, m, s, Below(C, k))
             T == {k \in Nat : Defined(k)}
  <1>1. 0 \in T
    <2> DEFINE h == [t \in Below(C, 0) |-> 0]
    <2>1. \A t \in Below(C, 0) : t = {}
      BY NoneBelow
    <2>2. h \in [Below(C, 0) -> Nat] /\ Adds(h, m, s, Below(C, 0))
      BY <2>1 DEF Adds
    <2> QED
      BY <2>2
  <1>2. ASSUME NEW k \in T
        PROVE  k + 1 \in T
    <2>1. PICK h \in [Below(C, k) -> Nat] : Adds(h, m, s, Below(C, k))
      BY <1>2
    <2> DEFINE Sum(t) == IF t = {} THEN 0 ELSE m[One(t)][s] + h[t \ {One(t)}]
               g == [t \in Below(C, k + 1) |-> Sum(t)]
    <2>2. ASSUME NEW t \in Below(C, k + 1), t # {}
          PROVE  /\ One(t) \in t
                 /\ t \ {One(t)} \in Below(C, k)
                 /\ t \ {One(t)} \in Below(C, k + 1)
      <3>1. One(t) \in t
        BY <2>2 DEF One
      <3> QED
        BY <3>1, FewerBelow
    <2>3. g \in [Below(C, k + 1) -> Nat]
      <3> SUFFICES ASSUME NEW t \in Below(C, k + 1), t # {}
                   PROVE  m[One(t)][s] + h[t \ {One(t)}] \in Nat
        OBVIOUS
      <3>1. m[One(t)][s] \in Nat
        BY <2>2 DEF Lists, Below
      <3>2. h[t \ {One(t)}] \in Nat
        BY <2>1, <2>2
      <3> QED
        BY <3>1, <3>2
    <2>4. ASSUME NEW t \in Below(C, k)
          PROVE  g[t] = h[t]
      <3>1. t \in Below(C, k + 1)
        <4>1. Cardinality(t) \in Nat
          BY FS_Subset, FS_CardinalityType DEF Below
        <4> QED
          BY <4>1 DEF Below
      <3> QED
        BY <2>1, <3>1 DEF Adds
    <2>5. Adds(g, m, s, Below(C, k + 1))
      <3> SUFFICES ASSUME NEW t \in Below(C, k + 1)
                   PROVE  g[t] = IF t = {} THEN 0 ELSE m[One(t)][s] + g[t \ {One(t)}]
        BY DEF Adds
      <3>1. CASE t = {}
        BY <3>1
      <3>2. CASE t # {}
        <4>1. g[t \ {One(t)}] = h[t \ {One(t)}]
          BY <2>2, <2>4, <3>2
        <4> HIDE DEF One
        <4> QED
          BY <3>2, <4>1
      <3> QED
        BY <3>1, <3>2
    <2>6. Defined(k + 1)
      <3> HIDE DEF g
      <3> QED
        BY <2>3, <2>5
    <2> QED
      BY <2>6
  <1>3. T = Nat
    <2> HIDE DEF Defined
    <2> QED
      BY <1>1, <1>2, Induction
  <1> QED
    BY <1>3

(* A sum that satisfies the equation is the only one.                         *)
LEMMA SumsAgree ==
  ASSUME NEW C, IsFiniteSet(C), NEW m, NEW s, Lists(m, s, C),
         NEW h, Adds(h, m, s, SUBSET C), NEW g, Adds(g, m, s, SUBSET C)
  PROVE  h[C] = g[C]
  <1> DEFINE T == {k \in Nat : \A t \in Below(C, k) : h[t] = g[t]}
  <1>1. 0 \in T
    <2>1. \A t \in Below(C, 0) : t = {}
      BY NoneBelow
    <2> QED
      BY <2>1 DEF Adds
  <1>2. ASSUME NEW k \in T
        PROVE  k + 1 \in T
    <2> SUFFICES ASSUME NEW t \in Below(C, k + 1), t # {}
                 PROVE  h[t] = g[t]
      <3>1. h[{}] = g[{}]
        BY DEF Adds
      <3> QED
        BY <3>1
    <2>1. One(t) \in t
      BY DEF One
    <2>2. t \ {One(t)} \in Below(C, k)
      BY <2>1, FewerBelow
    <2>3. h[t \ {One(t)}] = g[t \ {One(t)}]
      BY <2>2
    <2> HIDE DEF T
    <2> QED
      BY <2>3 DEF Adds, Below
  <1>3. T = Nat
    <2>1. T \in SUBSET Nat
      OBVIOUS
    <2> HIDE DEF T
    <2> QED
      BY <1>1, <1>2, <2>1, Induction
  <1>4. Cardinality(C) \in Nat /\ C \in Below(C, Cardinality(C))
    BY FS_CardinalityType DEF Below
  <1> QED
    BY <1>3, <1>4

(* What is held satisfies the equation of the fold that defines it.           *)
LEMMA HeldAdds ==
  ASSUME NEW C, IsFiniteSet(C), NEW m, NEW s, Lists(m, s, C),
         NEW h, Adds(h, m, s, SUBSET C)
  PROVE  Held(m, s, C) = h[C]
  <1> DEFINE Equation(k) ==
               k = [T \in SUBSET C |-> IF T = {} THEN 0
                                       ELSE m[One(T)][s] + k[T \ {One(T)}]]
             g == [T \in SUBSET C |-> h[T]]
             k == CHOOSE f : Equation(f)
  <1>1. Equation(g)
    <2>1. ASSUME NEW T \in SUBSET C
          PROVE  g[T] = IF T = {} THEN 0 ELSE m[One(T)][s] + g[T \ {One(T)}]
      BY DEF Adds
    <2> HIDE DEF One
    <2> QED
      BY <2>1
  <1>2. Held(m, s, C) = k[C]
    BY DEF Held, MapThenSumSet, MapThenFoldSet, One
  <1>3. Equation(k)
    <2> HIDE DEF Equation, g
    <2> QED
      BY <1>1
  <1>4. Adds(k, m, s, SUBSET C)
    <2> HIDE DEF k
    <2> QED
      BY <1>3 DEF Adds
  <1>5. k[C] = h[C]
    <2> HIDE DEF k
    <2> QED
      BY <1>4, SumsAgree
  <1> QED
    BY <1>2, <1>5

(* One list is set apart from the others, the one the fold takes first.       *)
LEMMA HeldFirst ==
  ASSUME NEW C, IsFiniteSet(C), NEW m, NEW s, Lists(m, s, C), NEW D \in SUBSET C
  PROVE  /\ Held(m, s, D) \in Nat
         /\ Held(m, s, {}) = 0
         /\ D # {} => Held(m, s, D) = m[One(D)][s] + Held(m, s, D \ {One(D)})
  <1>1. PICK h \in [SUBSET C -> Nat] : Adds(h, m, s, SUBSET C)
    <2>1. Below(C, Cardinality(C)) = SUBSET C /\ Cardinality(C) \in Nat
      BY FS_Subset, FS_CardinalityType DEF Below
    <2>2. \E h \in [Below(C, Cardinality(C)) -> Nat] :
            Adds(h, m, s, Below(C, Cardinality(C)))
      BY <2>1, SumsBelow
    <2> QED
      BY <2>1, <2>2
  <1>2. ASSUME NEW E \in SUBSET C
        PROVE  Held(m, s, E) = h[E]
    <2>1. IsFiniteSet(E) /\ Lists(m, s, E)
      BY FS_Subset DEF Lists
    <2>2. Adds(h, m, s, SUBSET E)
      BY <1>1 DEF Adds
    <2> QED
      BY <2>1, <2>2, HeldAdds
  <1>3. Held(m, s, D) = h[D] /\ Held(m, s, {}) = h[{}]
        /\ Held(m, s, D \ {One(D)}) = h[D \ {One(D)}]
    BY <1>2
  <1> QED
    BY <1>1, <1>3 DEF Adds

(* Two lists that agree on what they hold of the semaphore hold as much.      *)
LEMMA HeldSame ==
  ASSUME NEW C, IsFiniteSet(C), NEW s,
         NEW m, Lists(m, s, C), NEW w, \A c \in C : w[c][s] = m[c][s]
  PROVE  Held(w, s, C) = Held(m, s, C)
  <1>0. Lists(w, s, C)
    BY DEF Lists
  <1> DEFINE T == {k \in Nat : \A t \in Below(C, k) : Held(w, s, t) = Held(m, s, t)}
  <1>1. 0 \in T
    <2>1. \A t \in Below(C, 0) : t = {}
      BY NoneBelow
    <2>2. Held(w, s, {}) = 0 /\ Held(m, s, {}) = 0
      BY <1>0, HeldFirst
    <2> QED
      BY <2>1, <2>2
  <1>2. ASSUME NEW k \in T
        PROVE  k + 1 \in T
    <2> SUFFICES ASSUME NEW t \in Below(C, k + 1), t # {}
                 PROVE  Held(w, s, t) = Held(m, s, t)
      <3>1. Held(w, s, {}) = 0 /\ Held(m, s, {}) = 0
        BY <1>0, HeldFirst
      <3>2. \A t \in Below(C, k + 1) : Held(w, s, t) = Held(m, s, t)
        BY <3>1
      <3> QED
        BY <3>2
    <2> DEFINE x == One(t)
    <2>1. x \in t /\ t \in SUBSET C
      BY DEF One, Below
    <2>2. t \ {x} \in Below(C, k)
      BY <2>1, FewerBelow
    <2>3. Held(w, s, t \ {x}) = Held(m, s, t \ {x}) /\ w[x][s] = m[x][s]
      BY <2>1, <2>2
    <2>4. /\ Held(w, s, t) = w[x][s] + Held(w, s, t \ {x})
          /\ Held(m, s, t) = m[x][s] + Held(m, s, t \ {x})
      BY <1>0, <2>1, HeldFirst
    <2> QED
      BY <2>3, <2>4
  <1>3. T = Nat
    <2>1. T \in SUBSET Nat
      OBVIOUS
    <2> HIDE DEF T
    <2> QED
      BY <1>1, <1>2, <2>1, Induction
  <1>4. Cardinality(C) \in Nat /\ C \in Below(C, Cardinality(C))
    BY FS_CardinalityType DEF Below
  <1> QED
    BY <1>3, <1>4

(* The list set apart may be that of any context.                             *)
LEMMA HeldApart ==
  ASSUME NEW C, IsFiniteSet(C), NEW m, NEW s, Lists(m, s, C), NEW c \in C
  PROVE  Held(m, s, C) = m[c][s] + Held(m, s, C \ {c})
  <1> DEFINE Apart(t) == \A x \in t : Held(m, s, t) = m[x][s] + Held(m, s, t \ {x})
             T == {k \in Nat : \A t \in Below(C, k) : Apart(t)}
  <1>1. 0 \in T
    <2>1. \A t \in Below(C, 0) : t = {}
      BY NoneBelow
    <2> QED
      BY <2>1
  <1>2. ASSUME NEW k \in T
        PROVE  k + 1 \in T
    <2> SUFFICES ASSUME NEW t \in Below(C, k + 1), NEW x \in t
                 PROVE  Held(m, s, t) = m[x][s] + Held(m, s, t \ {x})
      OBVIOUS
    <2> DEFINE y == One(t)
    <2>1. y \in t /\ t \in SUBSET C
      BY DEF One, Below
    <2>2. t \ {x} \in Below(C, k) /\ t \ {y} \in Below(C, k)
      BY <2>1, FewerBelow
    <2>3. Held(m, s, t) = m[y][s] + Held(m, s, t \ {y})
      BY <2>1, HeldFirst
    <2> HIDE DEF y
    <2>4. CASE x = y
      BY <2>3, <2>4
    <2>5. CASE x # y
      <3>1. x \in t \ {y} /\ y \in t \ {x}
        BY <2>1, <2>5
      <3>2. /\ Held(m, s, t \ {y}) = m[x][s] + Held(m, s, (t \ {y}) \ {x})
            /\ Held(m, s, t \ {x}) = m[y][s] + Held(m, s, (t \ {x}) \ {y})
        BY <2>2, <3>1
      <3>3. (t \ {y}) \ {x} = (t \ {x}) \ {y}
        OBVIOUS
      <3>4. Held(m, s, (t \ {x}) \ {y}) \in Nat
        BY <2>1, HeldFirst
      <3>5. m[x][s] \in Nat /\ m[y][s] \in Nat
        BY <2>1 DEF Lists
      <3> HIDE DEF Apart, T
      <3> QED
        BY <2>3, <3>2, <3>3, <3>4, <3>5
    <2> QED
      BY <2>4, <2>5
  <1>3. T = Nat
    <2>1. T \in SUBSET Nat
      OBVIOUS
    <2> HIDE DEF T
    <2> QED
      BY <1>1, <1>2, <2>1, Induction
  <1>4. Cardinality(C) \in Nat /\ C \in Below(C, Cardinality(C))
    BY FS_CardinalityType DEF Below
  <1> QED
    BY <1>3, <1>4

(* What is held is what a part of the contexts and the others hold.           *)
LEMMA HeldParts ==
  ASSUME NEW C, IsFiniteSet(C), NEW m, NEW s, Lists(m, s, C), NEW D \in SUBSET C
  PROVE  Held(m, s, C) = Held(m, s, D) + Held(m, s, C \ D)
  <1> DEFINE Parted(t) == Held(m, s, C) = Held(m, s, t) + Held(m, s, C \ t)
             T == {k \in Nat : \A t \in Below(C, k) : Parted(t)}
  <1>0. Parted({})
    <2>1. Held(m, s, {}) = 0 /\ Held(m, s, C) \in Nat /\ C \ {} = C
      BY HeldFirst
    <2> QED
      BY <2>1
  <1>1. 0 \in T
    <2>1. \A t \in Below(C, 0) : t = {}
      BY NoneBelow
    <2> QED
      BY <1>0, <2>1
  <1>2. ASSUME NEW k \in T
        PROVE  k + 1 \in T
    <2> SUFFICES ASSUME NEW t \in Below(C, k + 1), t # {}
                 PROVE  Parted(t)
      <3>1. \A t \in Below(C, k + 1) : Parted(t)
        BY <1>0
      <3> HIDE DEF Parted
      <3> QED
        BY <3>1
    <2>1. PICK x \in t : TRUE
      OBVIOUS
    <2>2. t \in SUBSET C /\ t \ {x} \in Below(C, k) /\ x \in C \ (t \ {x})
      BY <2>1, FewerBelow DEF Below
    <2>3. Parted(t \ {x})
      BY <2>2
    <2>4. Held(m, s, t) = m[x][s] + Held(m, s, t \ {x})
      <3>1. IsFiniteSet(t) /\ Lists(m, s, t)
        BY <2>2, FS_Subset DEF Lists
      <3> QED
        BY <2>1, <3>1, HeldApart
    <2>5. Held(m, s, C \ (t \ {x})) = m[x][s] + Held(m, s, C \ t)
      <3> DEFINE E == C \ (t \ {x})
      <3>1. IsFiniteSet(E) /\ Lists(m, s, E) /\ x \in E
        BY <2>2, FS_Subset DEF Lists
      <3>2. Held(m, s, E) = m[x][s] + Held(m, s, E \ {x})
        <4> HIDE DEF E
        <4> QED
          BY <3>1, HeldApart
      <3>3. E \ {x} = C \ t
        BY <2>1
      <3> QED
        BY <3>2, <3>3
    <2>6. /\ m[x][s] \in Nat
          /\ Held(m, s, t \ {x}) \in Nat
          /\ Held(m, s, C \ t) \in Nat
      <3>1. m[x][s] \in Nat
        BY <2>2 DEF Lists
      <3>2. t \ {x} \in SUBSET C /\ C \ t \in SUBSET C
        BY <2>2
      <3> QED
        BY <3>1, <3>2, HeldFirst
    <2> HIDE DEF T
    <2> QED
      BY <2>3, <2>4, <2>5, <2>6
  <1>3. T = Nat
    <2>1. T \in SUBSET Nat
      OBVIOUS
    <2> HIDE DEF T
    <2> QED
      BY <1>1, <1>2, <2>1, Induction
  <1>4. Cardinality(D) \in Nat /\ D \in Below(C, Cardinality(D))
    BY FS_Subset, FS_CardinalityType DEF Below
  <1> QED
    BY <1>3, <1>4

(* Empty lists hold nothing.                                                  *)
LEMMA HeldNothing ==
  ASSUME NEW C, IsFiniteSet(C), NEW m, NEW s, \A c \in C : m[c][s] = 0
  PROVE  Held(m, s, C) = 0
  <1> DEFINE T == {k \in Nat : \A t \in Below(C, k) : Held(m, s, t) = 0}
  <1>0. Lists(m, s, C)
    BY DEF Lists
  <1>1. 0 \in T
    <2>1. \A t \in Below(C, 0) : t = {}
      BY NoneBelow
    <2>2. Held(m, s, {}) = 0
      BY <1>0, HeldFirst
    <2> QED
      BY <2>1, <2>2
  <1>2. ASSUME NEW k \in T
        PROVE  k + 1 \in T
    <2> SUFFICES ASSUME NEW t \in Below(C, k + 1), t # {}
                 PROVE  Held(m, s, t) = 0
      <3>1. Held(m, s, {}) = 0
        BY <1>0, HeldFirst
      <3> QED
        BY <3>1
    <2> DEFINE x == One(t)
    <2>1. x \in t /\ t \in SUBSET C
      BY DEF One, Below
    <2>2. t \ {x} \in Below(C, k)
      BY <2>1, FewerBelow
    <2>3. Held(m, s, t \ {x}) = 0 /\ m[x][s] = 0
      BY <2>1, <2>2
    <2>4. Held(m, s, t) = m[x][s] + Held(m, s, t \ {x})
      BY <1>0, <2>1, HeldFirst
    <2> QED
      BY <2>3, <2>4
  <1>3. T = Nat
    <2>1. T \in SUBSET Nat
      OBVIOUS
    <2> HIDE DEF T
    <2> QED
      BY <1>1, <1>2, <2>1, Induction
  <1>4. Cardinality(C) \in Nat /\ C \in Below(C, Cardinality(C))
    BY FS_CardinalityType DEF Below
  <1> QED
    BY <1>3, <1>4

-----------------------------------------------------------------------------
(* What the wiring of the deployment guarantees: finitely many invocations,   *)
(* each request made by one of the callers, and limits for every run and for  *)
(* the tenant and the process.                                                *)
Deployed ==
  /\ IsFiniteSet(Callers) /\ IsFiniteSet(Requests)
  /\ Parent \in [Requests -> Callers]
  /\ RunOf \in [Contexts -> Semaphores]
  /\ {"tenant", "global"} \subseteq Semaphores
  /\ Limit \in [Semaphores -> Nat]

Phases == {"idle", "starting", "executing", "reacquiring", "done"}

(* Types, and that only a request takes back what is another context's.       *)
Permits ==
  /\ free \in [Semaphores -> Nat]
  /\ slots \in [Contexts -> [Semaphores -> Nat]]
Stages ==
  /\ phase \in [Contexts -> Phases]
  /\ want \in [Contexts -> 0 .. 4]
  /\ slot \in [Contexts -> {"none", "live", "lapsed"}]
  /\ turn \in Contexts \cup {"none"}
  /\ \A x \in Contexts : phase[x] = "reacquiring" => x \in Requests
TypeOK == Permits /\ Stages

Conserved == \A s \in Semaphores : free[s] + Held(slots, s, Contexts) = Limit[s]

IInv == TypeOK /\ Conserved

LEMMA ContextsFinite ==
  ASSUME Deployed
  PROVE  IsFiniteSet(Contexts)
  BY FS_Union DEF Deployed, Contexts

LEMMA ConservedIsProperty == Conserved <=> PermitsConserved
  BY DEF Conserved, PermitsConserved, Held

LEMMA InitInv ==
  ASSUME Deployed, Init
  PROVE  IInv
  <1>1. Permits
    BY DEF Deployed, Init, Permits, Semaphores, Nothing
  <1>2. Stages
    BY DEF Init, Stages, Phases
  <1>3. ASSUME NEW s \in Semaphores
        PROVE  free[s] + Held(slots, s, Contexts) = Limit[s]
    <2>1. \A c \in Contexts : slots[c][s] = 0
      BY DEF Init, Nothing
    <2>2. Held(slots, s, Contexts) = 0
      BY <2>1, ContextsFinite, HeldNothing
    <2>3. free[s] = Limit[s] /\ Limit[s] \in Nat
      BY DEF Init, Deployed
    <2> QED
      BY <2>2, <2>3
  <1> QED
    BY <1>1, <1>2, <1>3 DEF IInv, TypeOK, Conserved

-----------------------------------------------------------------------------
(* A permit that is taken leaves its semaphore and enters one list.           *)
LEMMA TakePermitConserves ==
  ASSUME Deployed, IInv, NEW x \in Contexts, TakePermit(x)
  PROVE  IInv'
  <1> DEFINE s == Awaits(x)
             y == For(x)
  <1>1. s \in Semaphores /\ y \in Contexts
    <2>1. want[x] \in 1 .. 3
      BY DEF TakePermit
    <2>2. <<RunOf[x], "tenant", "global">>[want[x]] \in Semaphores
      BY <2>1 DEF Deployed
    <2>3. y \in Contexts
      BY DEF For, IInv, TypeOK, Stages, Deployed, Contexts
    <2> QED
      BY <2>2, <2>3 DEF Awaits, Path
  <1>2. free[s] \in Nat /\ free[s] > 0
    BY <1>1 DEF TakePermit, Obtainable, IInv, TypeOK, Permits
  <1>3. /\ free' = [free EXCEPT ![s] = @ - 1]
        /\ slots' = [slots EXCEPT ![y][s] = @ + 1]
    BY DEF TakePermit
  <1> HIDE DEF s, y
  <1>4. Permits'
    BY <1>1, <1>2, <1>3 DEF IInv, TypeOK, Permits, Semaphores, Contexts
  <1>5. Stages'
    BY DEF TakePermit, IInv, TypeOK, Stages, Phases, Contexts
  <1>6. ASSUME NEW q \in Semaphores
        PROVE  free'[q] + Held(slots', q, Contexts) = Limit[q]
    <2>1. Lists(slots, q, Contexts) /\ Lists(slots', q, Contexts)
      BY <1>4 DEF IInv, TypeOK, Permits, Lists, Semaphores, Contexts
    <2>2. free[q] + Held(slots, q, Contexts) = Limit[q]
      BY DEF IInv, Conserved
    <2>3. CASE q # s
      <3>1. free'[q] = free[q] /\ \A c \in Contexts : slots'[c][q] = slots[c][q]
        BY <1>1, <1>3, <2>3 DEF IInv, TypeOK, Permits
      <3>2. Held(slots', q, Contexts) = Held(slots, q, Contexts)
        BY <2>1, <3>1, ContextsFinite, HeldSame
      <3> QED
        BY <2>2, <3>1, <3>2
    <2>4. CASE q = s
      <3> DEFINE Others == Contexts \ {y}
      <3>1. /\ free'[q] = free[q] - 1
            /\ slots'[y][q] = slots[y][q] + 1
            /\ \A c \in Others : slots'[c][q] = slots[c][q]
        BY <1>1, <1>3, <2>4 DEF IInv, TypeOK, Permits
      <3>2. IsFiniteSet(Others) /\ Lists(slots, q, Others)
        BY <2>1, ContextsFinite, FS_Subset DEF Lists
      <3>3. Held(slots', q, Others) = Held(slots, q, Others)
        BY <3>1, <3>2, HeldSame
      <3>4. /\ Held(slots, q, Contexts) = slots[y][q] + Held(slots, q, Others)
            /\ Held(slots', q, Contexts) = slots'[y][q] + Held(slots', q, Others)
        BY <1>1, <2>1, ContextsFinite, HeldApart
      <3>5. /\ free[q] \in Nat /\ slots[y][q] \in Nat
            /\ Held(slots, q, Others) \in Nat /\ Limit[q] \in Nat
        <4>1. Held(slots, q, Others) \in Nat
          BY <3>2, HeldFirst
        <4> QED
          BY <1>1, <4>1 DEF IInv, TypeOK, Permits, Deployed
      <3> HIDE DEF Others
      <3> QED
        BY <2>2, <3>1, <3>3, <3>4, <3>5
    <2> QED
      BY <2>3, <2>4
  <1> QED
    BY <1>4, <1>5, <1>6 DEF IInv, TypeOK, Conserved, Semaphores, Contexts

(* What a release puts back is what the lists it clears held.                 *)
LEMMA ReleaseConserves ==
  ASSUME Deployed, Permits, Conserved, NEW C \in SUBSET Contexts, Release(C)
  PROVE  Permits' /\ Conserved'
  <1>1. IsFiniteSet(C) /\ IsFiniteSet(Contexts) /\ IsFiniteSet(Contexts \ C)
    BY ContextsFinite, FS_Subset
  <1>2. ASSUME NEW s \in Semaphores
        PROVE  /\ Lists(slots, s, Contexts)
               /\ Lists(slots, s, C)
               /\ Lists(slots, s, Contexts \ C)
    BY DEF Permits, Lists
  <1>3. ASSUME NEW s \in Semaphores
        PROVE  /\ free'[s] = free[s] + Held(slots, s, C)
               /\ free[s] \in Nat
               /\ Held(slots, s, C) \in Nat
    <2>1. Held(slots, s, C) \in Nat
      BY <1>1, <1>2, HeldFirst
    <2>2. free'[s] = free[s] + Held(slots, s, C)
      BY DEF Release, Held
    <2> QED
      BY <2>1, <2>2 DEF Permits
  <1>4. Permits'
    <2>1. free' \in [Semaphores -> Nat]
      <3>1. free' = [s \in Semaphores |-> free'[s]]
        BY DEF Release
      <3>2. \A s \in Semaphores : free'[s] \in Nat
        BY <1>3
      <3> QED
        BY <3>1, <3>2
    <2>2. slots' \in [Contexts -> [Semaphores -> Nat]]
      BY DEF Release, Permits, Nothing
    <2> QED
      BY <2>1, <2>2 DEF Permits, Semaphores, Contexts
  <1>5. ASSUME NEW s \in Semaphores
        PROVE  free'[s] + Held(slots', s, Contexts) = Limit[s]
    <2>1. /\ \A c \in C : slots'[c][s] = 0
          /\ \A c \in Contexts \ C : slots'[c][s] = slots[c][s]
      BY DEF Release, Nothing
    <2>2. Lists(slots', s, Contexts)
      BY <1>2, <2>1 DEF Lists
    <2>3. /\ Held(slots, s, Contexts) = Held(slots, s, C) + Held(slots, s, Contexts \ C)
          /\ Held(slots', s, Contexts) = Held(slots', s, C) + Held(slots', s, Contexts \ C)
      BY <1>1, <1>2, <2>2, HeldParts
    <2>4. Held(slots', s, C) = 0
      BY <1>1, <2>1, HeldNothing
    <2>5. Held(slots', s, Contexts \ C) = Held(slots, s, Contexts \ C)
      BY <1>1, <1>2, <2>1, HeldSame
    <2>6. Held(slots, s, Contexts \ C) \in Nat /\ Limit[s] \in Nat
      BY <1>1, <1>2, HeldFirst DEF Deployed
    <2>7. free[s] + Held(slots, s, Contexts) = Limit[s]
      BY DEF Conserved
    <2> QED
      BY <1>3, <2>3, <2>4, <2>5, <2>6, <2>7
  <1> QED
    BY <1>4, <1>5 DEF Conserved, Semaphores, Contexts

LEMMA KeepsConserves ==
  ASSUME Permits, Conserved, UNCHANGED <<free, slots>>
  PROVE  Permits' /\ Conserved'
  BY DEF Permits, Conserved, Contexts, Semaphores

-----------------------------------------------------------------------------
(* The other actions either release contexts or leave every list alone.       *)
LEMMA StepPermits ==
  ASSUME Deployed, IInv, Next
  PROVE  Permits' /\ Conserved'
  <1>0. Permits /\ Conserved
    BY DEF IInv, TypeOK
  <1>1. ASSUME NEW c \in Callers, Start(c) \/ End(c) \/ Cancel(c)
        PROVE  Permits' /\ Conserved'
    <2>1. CASE Start(c)
      BY <1>0, <2>1, KeepsConserves DEF Start, Keeps
    <2>2. CASE End(c)
      <3>1. {c} \in SUBSET Contexts /\ Release({c})
        BY <2>2 DEF End, Contexts
      <3> QED
        BY <1>0, <3>1, ReleaseConserves
    <2>3. CASE Cancel(c)
      <3>1. \E C \in SUBSET Contexts : Release(C)
        BY <2>3 DEF Cancel, Contexts
      <3> QED
        BY <1>0, <3>1, ReleaseConserves
    <2> QED
      BY <1>1, <2>1, <2>2, <2>3
  <1>2. ASSUME NEW x \in Contexts, TakePermit(x) \/ Reserve(x) \/ Yield(x)
        PROVE  Permits' /\ Conserved'
    <2>1. CASE TakePermit(x)
      BY <2>1, TakePermitConserves DEF IInv, TypeOK
    <2>2. CASE Reserve(x) \/ Yield(x)
      BY <1>0, <2>2, KeepsConserves DEF Reserve, Yield
    <2> QED
      BY <1>2, <2>1, <2>2
  <1>3. ASSUME NEW r \in Requests, Request(r) \/ Answer(r)
        PROVE  Permits' /\ Conserved'
    <2>1. CASE Request(r)
      <3>1. Parent[r] \in Contexts
        BY DEF Deployed, Contexts
      <3>2. {Parent[r]} \in SUBSET Contexts
        BY <3>1
      <3>3. Release({Parent[r]}) \/ Keeps
        BY <2>1 DEF Request
      <3> QED
        BY <1>0, <3>2, <3>3, ReleaseConserves, KeepsConserves DEF Keeps
    <2>2. CASE Answer(r)
      <3>1. {r} \in SUBSET Contexts /\ Release({r})
        BY <2>2 DEF Answer, Contexts
      <3> QED
        BY <1>0, <3>1, ReleaseConserves
    <2> QED
      BY <1>3, <2>1, <2>2
  <1>4. ASSUME NEW c \in Contexts, LeasePasses(RunOf[c]) \/ Heartbeat(RunOf[c])
        PROVE  Permits' /\ Conserved'
    BY <1>0, <1>4, KeepsConserves DEF LeasePasses, Heartbeat, Becomes
  <1> QED
    BY <1>1, <1>2, <1>3, <1>4 DEF Next

LEMMA StepStages ==
  ASSUME Deployed, Stages, Next
  PROVE  Stages'
  <1> USE DEF Stages, Phases
  <1>0. Parent \in [Requests -> Callers] /\ Contexts = Callers \cup Requests
    BY DEF Deployed, Contexts
  <1>1. ASSUME NEW c \in Callers, Start(c)
        PROVE  Stages'
    BY <1>0, <1>1 DEF Start, Keeps
  <1>2. ASSUME NEW c \in Callers, End(c)
        PROVE  Stages'
    BY <1>0, <1>2 DEF End, Release
  <1>3. ASSUME NEW c \in Callers, Cancel(c)
        PROVE  Stages'
    BY <1>0, <1>3 DEF Cancel, Release
  <1>4. ASSUME NEW x \in Contexts, TakePermit(x)
        PROVE  Stages'
    BY <1>0, <1>4 DEF TakePermit
  <1>5. ASSUME NEW x \in Contexts, Reserve(x)
        PROVE  Stages'
    <2>1. slot' \in [Contexts -> {"none", "live", "lapsed"}]
      BY <1>5 DEF Reserve
    <2>2. phase' = [phase EXCEPT ![x] = phase'[x]] /\ phase'[x] \in {"executing", "done"}
      BY <1>5 DEF Reserve
    <2>3. want' \in [Contexts -> 0 .. 4] /\ turn' = "none"
      BY <1>5 DEF Reserve
    <2> QED
      BY <1>0, <2>1, <2>2, <2>3
  <1>6. ASSUME NEW x \in Contexts, Yield(x)
        PROVE  Stages'
    BY <1>0, <1>6 DEF Yield
  <1>7. ASSUME NEW r \in Requests, Request(r)
        PROVE  Stages'
    <2>1. slot' \in [Contexts -> {"none", "live", "lapsed"}]
      BY <1>7 DEF Request, Release, Keeps
    <2>2. /\ phase' = [phase EXCEPT ![r] = "starting"]
          /\ want' = [want EXCEPT ![r] = 1]
          /\ turn' = r
      BY <1>7 DEF Request
    <2> QED
      BY <1>0, <2>1, <2>2
  <1>8. ASSUME NEW r \in Requests, Answer(r)
        PROVE  Stages'
    BY <1>0, <1>8 DEF Answer, Release
  <1>9. ASSUME NEW c \in Contexts, LeasePasses(RunOf[c]) \/ Heartbeat(RunOf[c])
        PROVE  Stages'
    BY <1>0, <1>9 DEF LeasePasses, Heartbeat, Becomes
  <1> QED
    BY <1>1, <1>2, <1>3, <1>4, <1>5, <1>6, <1>7, <1>8, <1>9 DEF Next

LEMMA StepInv ==
  ASSUME Deployed, IInv, [Next]_vars
  PROVE  IInv'
  <1>1. CASE Next
    BY <1>1, StepPermits, StepStages DEF IInv, TypeOK
  <1>2. CASE UNCHANGED vars
    BY <1>2, KeepsConserves DEF vars, IInv, TypeOK, Stages, Contexts
  <1> QED
    BY <1>1, <1>2

(* No permit is ever lost or given back twice, for any number of callers and  *)
(* requests, any limits, and whatever overlaps, is cancelled or lapses: what  *)
(* a semaphore has left and what all lists hold is its limit.                 *)
THEOREM CapacityCorrect ==
  ASSUME Deployed
  PROVE  Spec => []PermitsConserved
  <1>1. Init => IInv
    BY InitInv
  <1>2. IInv /\ [Next]_vars => IInv'
    BY StepInv
  <1>3. IInv => PermitsConserved
    BY ConservedIsProperty DEF IInv
  <1> QED
    BY <1>1, <1>2, <1>3, PTL DEF Spec

(* So no more permits are out than a run, the tenant or the process has: the  *)
(* limits of the deployment hold at every moment.                             *)
LimitsHold == \A s \in Semaphores : Held(slots, s, Contexts) <= Limit[s]

THEOREM LimitsCorrect ==
  ASSUME Deployed
  PROVE  Spec => []LimitsHold
  <1>1. Init => IInv
    BY InitInv
  <1>2. IInv /\ [Next]_vars => IInv'
    BY StepInv
  <1>3. IInv => LimitsHold
    <2> SUFFICES ASSUME IInv, NEW s \in Semaphores
                 PROVE  Held(slots, s, Contexts) <= Limit[s]
      BY DEF LimitsHold
    <2>1. Lists(slots, s, Contexts)
      BY DEF IInv, TypeOK, Permits, Lists
    <2>2. Held(slots, s, Contexts) \in Nat
      BY <2>1, ContextsFinite, HeldFirst
    <2>3. free[s] \in Nat /\ free[s] + Held(slots, s, Contexts) = Limit[s]
      BY DEF IInv, TypeOK, Permits, Conserved
    <2> QED
      BY <2>2, <2>3
  <1> QED
    BY <1>1, <1>2, <1>3, PTL DEF Spec
-----------------------------------------------------------------------------
(* The counted dispatch patterns (SkillMetrics).  Requests of sqlite look for *)
(* a row and write later what they saw, so that of two that overlap one may   *)
(* undo the other; what is shown is that no case is ever counted twice.       *)

Total(list) == Statistics!SumOf(list, LAMBDA r : r.count)

(* The same sum as one of the sums above, and what the rows behind the first  *)
(* add to it.                                                                 *)
Cases(list) == [i \in DOMAIN list |-> [x \in {"cases"} |-> list[i].count]]
Rest(list) == Held(Cases(list), "cases", 2 .. Len(list))

Listed(list) == \E S : list \in Seq(S)
Counted(list) == Listed(list) /\ \A i \in DOMAIN list : list[i].count \in Nat

LEMMA TotalHeld ==
  ASSUME NEW list, Counted(list)
  PROVE  Total(list) = Held(Cases(list), "cases", DOMAIN list)
  <1> DEFINE D == DOMAIN list
             m == Cases(list)
             Equation(k) ==
               k = [T \in SUBSET D |-> IF T = {} THEN 0 ELSE k[T \ {One(T)}] + list[One(T)].count]
             k == CHOOSE f : Equation(f)
  <1>1. IsFiniteSet(D)
    <2>1. D = 1 .. Len(list) /\ Len(list) \in Nat
      BY DEF Counted, Listed
    <2> QED
      BY <2>1, FS_Interval
  <1>2. Lists(m, "cases", D) /\ \A i \in D : m[i]["cases"] = list[i].count
    BY DEF Counted, Cases, Lists
  <1> HIDE DEF m
  <1>3. PICK h \in [SUBSET D -> Nat] : Adds(h, m, "cases", SUBSET D)
    <2>1. Below(D, Cardinality(D)) = SUBSET D /\ Cardinality(D) \in Nat
      BY <1>1, FS_Subset, FS_CardinalityType DEF Below
    <2>2. \E h \in [Below(D, Cardinality(D)) -> Nat] :
            Adds(h, m, "cases", Below(D, Cardinality(D)))
      BY <1>1, <1>2, <2>1, SumsBelow
    <2> QED
      BY <2>1, <2>2
  <1>4. Equation(h)
    <2>1. ASSUME NEW T \in SUBSET D
          PROVE  h[T] = IF T = {} THEN 0 ELSE h[T \ {One(T)}] + list[One(T)].count
      <3>1. CASE T = {}
        BY <1>3, <3>1 DEF Adds
      <3>2. CASE T # {}
        <4>1. One(T) \in T
          BY <3>2 DEF One
        <4>2. h[T] = m[One(T)]["cases"] + h[T \ {One(T)}]
          BY <1>3, <3>2 DEF Adds
        <4>3. m[One(T)]["cases"] = list[One(T)].count /\ m[One(T)]["cases"] \in Nat
          BY <1>2, <4>1 DEF Lists
        <4>4. h[T \ {One(T)}] \in Nat
          BY <1>3
        <4> QED
          BY <3>2, <4>2, <4>3, <4>4
      <3> QED
        BY <3>1, <3>2
    <2> HIDE DEF One
    <2> QED
      BY <1>3, <2>1
  <1>5. Total(list) = k[D]
    BY DEF Total, Statistics!SumOf, Statistics!FoldSeq, Statistics!FoldFunction,
           Statistics!FoldFunctionOnSet, Statistics!MapThenFoldSet, One
  <1>6. Equation(k)
    <2> HIDE DEF Equation
    <2> QED
      BY <1>4
  <1>7. ASSUME NEW T \in SUBSET D
        PROVE  k[T] = IF T = {} THEN 0 ELSE k[T \ {One(T)}] + list[One(T)].count
    <2> HIDE DEF k, One
    <2> QED
      BY <1>6
  <1>8. k[D] = h[D]
    <2> SUFFICES \A T \in SUBSET D : k[T] = h[T]
      OBVIOUS
    <2> HIDE DEF k
    <2> DEFINE U == {n \in Nat : \A T \in Below(D, n) : k[T] = h[T]}
    <2>1. 0 \in U
      <3>1. \A T \in Below(D, 0) : T = {}
        BY <1>1, NoneBelow
      <3>2. k[{}] = 0 /\ h[{}] = 0
        BY <1>3, <1>7 DEF Adds
      <3> QED
        BY <3>1, <3>2
    <2>2. ASSUME NEW n \in U
          PROVE  n + 1 \in U
      <3> SUFFICES ASSUME NEW T \in Below(D, n + 1), T # {}
                   PROVE  k[T] = h[T]
        <4>1. k[{}] = h[{}]
          BY <1>3, <1>7 DEF Adds
        <4>2. \A T \in Below(D, n + 1) : k[T] = h[T]
          BY <4>1
        <4> QED
          BY <4>2
      <3>1. One(T) \in T /\ T \in SUBSET D
        BY DEF One, Below
      <3>2. T \ {One(T)} \in Below(D, n)
        BY <1>1, <3>1, FewerBelow
      <3>3. k[T \ {One(T)}] = h[T \ {One(T)}]
        BY <3>2
      <3>4. k[T] = k[T \ {One(T)}] + list[One(T)].count
        BY <1>7, <3>1
      <3>5. h[T] = m[One(T)]["cases"] + h[T \ {One(T)}]
        BY <1>3, <3>1 DEF Adds
      <3>6. m[One(T)]["cases"] = list[One(T)].count /\ m[One(T)]["cases"] \in Nat
        BY <1>2, <3>1 DEF Lists
      <3>7. h[T \ {One(T)}] \in Nat
        BY <1>3, <3>1
      <3> QED
        BY <3>3, <3>4, <3>5, <3>6, <3>7
    <2>3. U = Nat
      <3>1. U \in SUBSET Nat
        OBVIOUS
      <3> HIDE DEF U
      <3> QED
        BY <2>1, <2>2, <3>1, Induction
    <2>4. ASSUME NEW T \in SUBSET D
          PROVE  Cardinality(T) \in Nat /\ T \in Below(D, Cardinality(T))
      BY <1>1, FS_Subset, FS_CardinalityType DEF Below
    <2> QED
      BY <2>3, <2>4
  <1>9. Held(m, "cases", D) = h[D]
    BY <1>1, <1>2, <1>3, HeldAdds
  <1> QED
    BY <1>5, <1>8, <1>9 DEF m

(* The first row is set apart.                                                *)
LEMMA TotalFirst ==
  ASSUME NEW list, Counted(list)
  PROVE  /\ Rest(list) \in Nat
         /\ list = <<>> => Total(list) = 0
         /\ list # <<>> => 1 \in DOMAIN list /\ Total(list) = list[1].count + Rest(list)
         /\ Len(list) <= 1 => Rest(list) = 0
  <1> DEFINE D == DOMAIN list
             m == Cases(list)
  <1>1. D = 1 .. Len(list) /\ Len(list) \in Nat /\ (list = <<>> <=> Len(list) = 0)
    BY DEF Counted, Listed
  <1>2. IsFiniteSet(D)
    BY <1>1, FS_Interval
  <1>3. Lists(m, "cases", D) /\ \A i \in D : m[i]["cases"] = list[i].count
    BY DEF Counted, Cases, Lists
  <1>4. Total(list) = Held(m, "cases", D)
    BY TotalHeld
  <1> HIDE DEF m
  <1>5. 2 .. Len(list) \in SUBSET D
    BY <1>1
  <1>6. Held(m, "cases", 2 .. Len(list)) \in Nat /\ Held(m, "cases", {}) = 0
    <2> HIDE DEF D
    <2> QED
      BY <1>2, <1>3, <1>5, HeldFirst
  <1>7. list = <<>> => Total(list) = 0
    BY <1>1, <1>4, <1>6
  <1>8. ASSUME list # <<>>
        PROVE  1 \in D /\ Total(list) = list[1].count + Held(m, "cases", 2 .. Len(list))
    <2>1. 1 \in D /\ D \ {1} = 2 .. Len(list)
      BY <1>1, <1>8
    <2> HIDE DEF D
    <2>2. Held(m, "cases", D) = m[1]["cases"] + Held(m, "cases", D \ {1})
      BY <1>2, <1>3, <2>1, HeldApart
    <2> QED
      BY <1>3, <1>4, <2>1, <2>2
  <1>9. Len(list) <= 1 => 2 .. Len(list) = {}
    BY <1>1
  <1> QED
    BY <1>6, <1>7, <1>8, <1>9 DEF Rest, m

(* Replacing the first row leaves the rest.                                   *)
LEMMA RestKept ==
  ASSUME NEW list, Counted(list), list # <<>>, NEW r, r.count \in Nat
  PROVE  LET new == [list EXCEPT ![1] = r]
         IN /\ Counted(new) /\ new # <<>> /\ new[1] = r /\ DOMAIN new = DOMAIN list
            /\ Rest(new) = Rest(list)
  <1> DEFINE new == [list EXCEPT ![1] = r]
             C == 2 .. Len(list)
  <1>1. PICK S : list \in Seq(S)
    BY DEF Counted, Listed
  <1>2. /\ DOMAIN list = 1 .. Len(list) /\ Len(list) \in Nat /\ Len(list) # 0
        /\ \A i \in DOMAIN list : list[i] \in S
    BY <1>1
  <1>3. DOMAIN new = DOMAIN list /\ new[1] = r /\ \A i \in C : new[i] = list[i] /\ i \in DOMAIN new
    BY <1>2
  <1>4. new \in Seq(S \cup {r})
    <2>1. new \in [1 .. Len(list) -> S \cup {r}]
      BY <1>2
    <2> QED
      BY <1>2, <2>1, IsASeq
  <1>5. Len(new) = Len(list)
    <2>1. DOMAIN new = 1 .. Len(new) /\ Len(new) \in Nat
      BY <1>4, LenProperties
    <2> HIDE DEF new
    <2> QED
      BY <1>2, <1>3, <2>1
  <1>6. \A i \in DOMAIN new : new[i].count \in Nat
    BY <1>2, <1>3 DEF Counted
  <1> HIDE DEF new
  <1>7. Counted(new) /\ new # <<>>
    BY <1>2, <1>4, <1>5, <1>6 DEF Counted, Listed
  <1>8. IsFiniteSet(C)
    BY <1>2, FS_Interval
  <1>9. /\ Lists(Cases(list), "cases", C)
        /\ \A i \in C : Cases(new)[i]["cases"] = Cases(list)[i]["cases"]
    BY <1>2, <1>3 DEF Counted, Cases, Lists
  <1>10. Held(Cases(new), "cases", C) = Held(Cases(list), "cases", C)
    <2> HIDE DEF C
    <2> QED
      BY <1>8, <1>9, HeldSame
  <1> QED
    BY <1>3, <1>5, <1>7, <1>10 DEF Rest, new

(* A row at the end adds its count to the rest.                               *)
LEMMA RestAppended ==
  ASSUME NEW list, Counted(list), NEW r, r.count \in Nat
  PROVE  LET new == Append(list, r)
         IN /\ Counted(new) /\ new # <<>>
            /\ \A i \in DOMAIN new : new[i] = r \/ (i \in DOMAIN list /\ new[i] = list[i])
            /\ list = <<>> => new[1] = r /\ Rest(new) = 0
            /\ list # <<>> => new[1] = list[1] /\ Rest(new) = Rest(list) + r.count
  <1> DEFINE new == Append(list, r)
             C == 2 .. Len(list)
             E == 2 .. Len(list) + 1
             n == Len(list) + 1
  <1>1. PICK S : list \in Seq(S)
    BY DEF Counted, Listed
  <1>2. /\ DOMAIN list = 1 .. Len(list) /\ Len(list) \in Nat
        /\ list = <<>> <=> Len(list) = 0
    BY <1>1
  <1>3. list \in Seq(S \cup {r})
    BY <1>1, SeqMonotonic
  <1>4. /\ new \in Seq(S \cup {r}) /\ Len(new) = n /\ new[n] = r
        /\ \A i \in 1 .. Len(list) : new[i] = list[i]
    BY <1>3, AppendProperties
  <1> HIDE DEF new
  <1>5. DOMAIN new = 1 .. n /\ new # <<>>
    BY <1>2, <1>4
  <1>6. \A i \in DOMAIN new : new[i] = r \/ (i \in DOMAIN list /\ new[i] = list[i])
    BY <1>2, <1>4, <1>5
  <1>7. Counted(new)
    <2>1. \A i \in DOMAIN new : new[i].count \in Nat
      BY <1>6 DEF Counted
    <2> QED
      BY <1>4, <2>1 DEF Counted, Listed
  <1>8. ASSUME list = <<>>
        PROVE  new[1] = r /\ Rest(new) = 0
    <2>1. n = 1
      BY <1>2, <1>8
    <2> HIDE DEF n
    <2>2. new[1] = r /\ Len(new) <= 1
      BY <1>4, <2>1
    <2> QED
      BY <1>7, <2>2, TotalFirst
  <1>9. ASSUME list # <<>>
        PROVE  new[1] = list[1] /\ Rest(new) = Rest(list) + r.count
    <2>1. n \in E /\ E \ {n} = C /\ Len(list) >= 1
      BY <1>2, <1>9
    <2>2. IsFiniteSet(E) /\ IsFiniteSet(C)
      BY <1>2, FS_Interval
    <2>3. /\ Lists(Cases(new), "cases", E) /\ Lists(Cases(list), "cases", C)
          /\ \A i \in C : Cases(new)[i]["cases"] = Cases(list)[i]["cases"]
          /\ Cases(new)[n]["cases"] = r.count
      <3>1. E \subseteq DOMAIN new /\ C \subseteq DOMAIN list /\ C \subseteq 1 .. Len(list)
        BY <1>2, <1>5, <2>1
      <3> HIDE DEF E, C
      <3> QED
        BY <1>4, <1>5, <1>7, <2>1, <3>1 DEF Counted, Cases, Lists
    <2>4. Len(new) = n /\ new[1] = list[1]
      BY <1>2, <1>4, <2>1
    <2> HIDE DEF E, C, n
    <2>5. Held(Cases(new), "cases", E) = r.count + Held(Cases(new), "cases", C)
      BY <2>1, <2>2, <2>3, HeldApart
    <2>6. Held(Cases(new), "cases", C) = Held(Cases(list), "cases", C)
      BY <2>2, <2>3, HeldSame
    <2>7. Rest(new) = Held(Cases(new), "cases", E) /\ Rest(list) = Held(Cases(list), "cases", C)
      BY <2>4 DEF Rest, E, C, n
    <2>8. Rest(list) \in Nat
      BY TotalFirst
    <2> QED
      BY <2>4, <2>5, <2>6, <2>7, <2>8
  <1> QED
    BY <1>5, <1>6, <1>7, <1>8, <1>9 DEF new

(* Reasons are distinct and trimmed into a list within its limit.             *)
LEMMA SameCardinality == \A S : Statistics!Cardinality(S) = Cardinality(S)
  BY DEF Statistics!Cardinality, Cardinality

LEMMA TrimmedBounds ==
  ASSUME ReasonsMax \in Nat, NEW list, Listed(list)
  PROVE  Listed(Statistics!Trimmed(list)) /\ Len(Statistics!Trimmed(list)) <= ReasonsMax
  <1>1. PICK S : list \in Seq(S)
    BY DEF Listed
  <1> DEFINE n == IF Len(list) < ReasonsMax THEN Len(list) ELSE ReasonsMax
  <1>2. Len(list) \in Nat /\ n \in Nat /\ n <= Len(list) /\ n <= ReasonsMax
    BY <1>1
  <1>3. Statistics!Trimmed(list) = SubSeq(list, 1, n)
    BY DEF Statistics!Trimmed
  <1> HIDE DEF n
  <1>4. SubSeq(list, 1, n) \in Seq(S) /\ Len(SubSeq(list, 1, n)) = n
    BY <1>1, <1>2
  <1> QED
    BY <1>2, <1>3, <1>4 DEF Listed

LEMMA DistinctListed ==
  ASSUME NEW list, Listed(list)
  PROVE  Listed(Statistics!Distinct(list))
  <1> DEFINE first == {i \in DOMAIN list : \A j \in 1 .. (i - 1) : list[j] # list[i]}
             N == Statistics!Cardinality(first)
             Value(n) == list[CHOOSE i \in first :
                                Statistics!Cardinality({j \in first : j <= i}) = n]
             out == [n \in 1 .. N |-> Value(n)]
  <1>1. IsFiniteSet(first)
    <2>1. DOMAIN list = 1 .. Len(list) /\ Len(list) \in Nat
      BY DEF Listed
    <2>2. IsFiniteSet(DOMAIN list)
      BY <2>1, FS_Interval
    <2> QED
      BY <2>2, FS_Subset
  <1>2. N \in Nat
    <2> HIDE DEF first
    <2> QED
      BY <1>1, SameCardinality, FS_CardinalityType
  <1>3. Statistics!Distinct(list) = out
    BY DEF Statistics!Distinct
  <1> HIDE DEF Value, N, first
  <1>4. out \in [1 .. N -> {out[n] : n \in 1 .. N}]
    OBVIOUS
  <1> HIDE DEF out
  <1>5. out \in Seq({out[n] : n \in 1 .. N})
    BY <1>2, <1>4, IsASeq
  <1> QED
    BY <1>3, <1>5 DEF Listed

LEMMA Merged ==
  ASSUME ReasonsMax \in Nat, NEW old, Listed(old), NEW new, Listed(new)
  PROVE  Listed(Statistics!merge_reasons(old, new))
  <1>1. PICK S : old \in Seq(S)
    BY DEF Listed
  <1>2. PICK T : new \in Seq(T)
    BY DEF Listed
  <1>3. old \in Seq(S \cup T) /\ new \in Seq(S \cup T)
    BY <1>1, <1>2, SeqMonotonic
  <1>4. Listed(new \o old)
    BY <1>3, ConcatProperties DEF Listed
  <1> QED
    BY <1>4, DistinctListed, TrimmedBounds DEF Statistics!merge_reasons

(* A row of the table; what a request saw and has not yet written; and what   *)
(* holds of a pattern: the first row as the request saw it, with the rows     *)
(* behind it now, is covered by the cases recorded.                           *)
Tabled(r) == r.count \in Nat /\ Listed(r.reasons) /\ Len(r.reasons) <= ReasonsMax

Outstanding(u, list, recorded) ==
  /\ u.n \in Nat /\ Listed(u.reasons)
  /\ u.seen # <<>> => /\ Tabled(u.seen[1])
                      /\ list # <<>>
                      /\ u.seen[1].count + Rest(list) <= recorded

Covered(p) ==
  /\ p.recorded \in Nat
  /\ Listed(p.rows) /\ \A i \in DOMAIN p.rows : Tabled(p.rows[i])
  /\ Listed(p.looked)
  /\ \A i \in DOMAIN p.looked : Outstanding(p.looked[i], p.rows, p.recorded)
  /\ Total(p.rows) <= p.recorded

PatternsCovered ==
  /\ patterns = [k \in Keys |-> patterns[k]]
  /\ \A k \in Keys : /\ patterns[k] = [rows |-> patterns[k].rows, looked |-> patterns[k].looked,
                                       recorded |-> patterns[k].recorded]
                     /\ Covered(patterns[k])

(* What is given to a recording.                                              *)
Given == Counts \subseteq Nat /\ ReasonsMax \in Nat /\ \A r \in Reasons : Listed(r)

LEMMA NewRow ==
  ASSUME ReasonsMax \in Nat, NEW n \in Nat, NEW reasons, Listed(reasons)
  PROVE  Tabled(Statistics!Row(n, reasons)) /\ Statistics!Row(n, reasons).count = n
  BY TrimmedBounds DEF Statistics!Row, Tabled

LEMMA RowsCounted ==
  ASSUME NEW p, Covered(p)
  PROVE  Counted(p.rows)
  BY DEF Covered, Counted, Tabled

(* PostgreSQL puts one row in the place of the rows.                          *)
LEMMA CoveredReplaced ==
  ASSUME NEW p, Covered(p), NEW n \in Nat, NEW r, Tabled(r), r.count = n,
         NEW q, q.rows = <<r>>, q.looked = p.looked, q.recorded = p.recorded + n
  PROVE  Covered(q)
  <1>1. Counted(q.rows) /\ q.rows # <<>> /\ Len(q.rows) = 1 /\ q.rows[1] = r
        /\ DOMAIN q.rows = {1}
    <2>1. <<r>> \in Seq({r}) /\ Len(<<r>>) = 1 /\ DOMAIN <<r>> = {1} /\ <<r>>[1] = r /\ <<r>> # <<>>
      OBVIOUS
    <2>2. r.count \in Nat
      OBVIOUS
    <2> QED
      BY <2>1, <2>2 DEF Counted, Listed
  <1>2. Rest(q.rows) = 0 /\ Total(q.rows) = n + Rest(q.rows)
    <2> DEFINE list == q.rows
    <2>1. Counted(list) /\ list # <<>> /\ Len(list) <= 1 /\ list[1].count = n
      BY <1>1
    <2> HIDE DEF list
    <2>2. Rest(list) = 0 /\ Total(list) = n + Rest(list)
      BY <2>1, TotalFirst
    <2> QED
      BY <2>2 DEF list
  <1>3. Rest(p.rows) \in Nat
    BY RowsCounted, TotalFirst
  <1>4. p.recorded \in Nat /\ Total(p.rows) \in Nat
    <2>1. Total(p.rows) \in Nat
      BY RowsCounted, TotalFirst DEF Counted
    <2> QED
      BY <2>1 DEF Covered
  <1>5. \A i \in DOMAIN q.looked : Outstanding(q.looked[i], q.rows, q.recorded)
    <2> SUFFICES ASSUME NEW i \in DOMAIN q.looked
                 PROVE  Outstanding(q.looked[i], q.rows, q.recorded)
      OBVIOUS
    <2>1. Outstanding(p.looked[i], p.rows, p.recorded)
      BY DEF Covered
    <2> QED
      BY <1>1, <1>2, <1>3, <1>4, <2>1 DEF Outstanding, Tabled
  <1>6. Listed(q.rows) /\ Listed(q.looked)
    BY <1>1 DEF Covered, Counted
  <1>7. \A i \in DOMAIN q.rows : Tabled(q.rows[i])
    BY <1>1
  <1>8. q.recorded \in Nat /\ Total(q.rows) <= q.recorded
    BY <1>2, <1>4
  <1> QED
    BY <1>5, <1>6, <1>7, <1>8 DEF Covered

(* A request has looked.                                                      *)
LEMMA CoveredLooked ==
  ASSUME NEW p, Covered(p), NEW n \in Nat, NEW reasons, Listed(reasons),
         NEW u, u.seen = p.rows, u.n = n, u.reasons = reasons,
         NEW q, q.rows = p.rows, q.looked = Append(p.looked, u), q.recorded = p.recorded
  PROVE  Covered(q)
  <1>1. Outstanding(u, p.rows, p.recorded)
    BY RowsCounted, TotalFirst DEF Covered, Outstanding
  <1>2. PICK S : p.looked \in Seq(S)
    BY DEF Covered, Listed
  <1>3. p.looked \in Seq(S \cup {u})
    BY <1>2, SeqMonotonic
  <1>4. /\ q.looked \in Seq(S \cup {u}) /\ Len(q.looked) = Len(p.looked) + 1
        /\ q.looked[Len(p.looked) + 1] = u
        /\ \A i \in 1 .. Len(p.looked) : q.looked[i] = p.looked[i]
    BY <1>3, AppendProperties
  <1>5. /\ DOMAIN q.looked = 1 .. Len(p.looked) + 1 /\ Len(p.looked) \in Nat
        /\ DOMAIN p.looked = 1 .. Len(p.looked)
    BY <1>2, <1>4
  <1>6. \A i \in DOMAIN q.looked :
          q.looked[i] = u \/ (i \in DOMAIN p.looked /\ q.looked[i] = p.looked[i])
    BY <1>4, <1>5
  <1>7. \A i \in DOMAIN q.looked : Outstanding(q.looked[i], q.rows, q.recorded)
    BY <1>1, <1>6 DEF Covered
  <1>8. Listed(q.looked)
    BY <1>4 DEF Listed
  <1> QED
    BY <1>7, <1>8 DEF Covered

(* Taking out what a request had seen leaves what the others had.             *)
LEMMA Taken ==
  ASSUME NEW list, Listed(list), NEW i \in DOMAIN list
  PROVE  LET new == Statistics!RemoveAt(list, i)
         IN /\ Listed(new)
            /\ \A j \in DOMAIN new : \E m \in DOMAIN list : new[j] = list[m]
  <1> DEFINE a == SubSeq(list, 1, i - 1)
             b == SubSeq(list, i + 1, Len(list))
             S == {list[m] : m \in DOMAIN list}
  <1>1. DOMAIN list = 1 .. Len(list) /\ Len(list) \in Nat
    BY DEF Listed
  <1>2. list \in Seq(S)
    <2>1. list \in [1 .. Len(list) -> S]
      BY <1>1 DEF Listed
    <2> HIDE DEF S
    <2> QED
      BY <1>1, <2>1, SMTT(30)
  <1>3. a \in Seq(S) /\ b \in Seq(S)
    <2> HIDE DEF S
    <2> QED
      BY <1>1, <1>2
  <1>4. a \o b \in Seq(S)
    <2> HIDE DEF S, a, b
    <2> QED
      BY <1>3, ConcatProperties
  <1>5. \A j \in DOMAIN (a \o b) : (a \o b)[j] \in S
    <2> HIDE DEF S, a, b
    <2> QED
      BY <1>4
  <1>6. Statistics!RemoveAt(list, i) = a \o b
    BY DEF Statistics!RemoveAt
  <1> HIDE DEF a, b
  <1> QED
    BY <1>4, <1>5, <1>6 DEF Listed

(* A request writes: a row of its own, or the first row as it saw it with its *)
(* cases added.                                                               *)
LEMMA CoveredWritten ==
  ASSUME ReasonsMax \in Nat, NEW p, Covered(p), NEW i \in DOMAIN p.looked,
         NEW u, u = p.looked[i], NEW r, Tabled(r),
         r.count = IF u.seen = <<>> THEN u.n ELSE u.seen[1].count + u.n,
         NEW q, q.rows = IF u.seen = <<>> THEN Append(p.rows, r) ELSE [p.rows EXCEPT ![1] = r],
         q.looked = Statistics!RemoveAt(p.looked, i), q.recorded = p.recorded + u.n
  PROVE  Covered(q)
  <1>1. Outstanding(u, p.rows, p.recorded) /\ u.n \in Nat /\ p.recorded \in Nat
    BY DEF Covered, Outstanding
  <1>2. Counted(p.rows) /\ r.count \in Nat
    BY RowsCounted DEF Tabled
  <1>3. /\ Rest(p.rows) \in Nat
        /\ p.rows = <<>> => Total(p.rows) = 0
        /\ p.rows # <<>> => Total(p.rows) = p.rows[1].count + Rest(p.rows)
                            /\ p.rows[1].count \in Nat
        /\ Total(p.rows) <= p.recorded
    BY <1>2, TotalFirst DEF Covered, Counted
  <1>4. /\ Counted(q.rows) /\ q.rows # <<>> /\ \A j \in DOMAIN q.rows : Tabled(q.rows[j])
        /\ Total(q.rows) <= q.recorded
        /\ p.rows # <<>> => Rest(q.rows) <= Rest(p.rows) + u.n
    <2>1. CASE u.seen = <<>>
      <3>1. q.rows = Append(p.rows, r) /\ r.count = u.n
        BY <2>1
      <3>2. /\ Counted(q.rows) /\ q.rows # <<>>
            /\ \A j \in DOMAIN q.rows : q.rows[j] = r \/ (j \in DOMAIN p.rows /\ q.rows[j] = p.rows[j])
            /\ p.rows = <<>> => q.rows[1] = r /\ Rest(q.rows) = 0
            /\ p.rows # <<>> => q.rows[1] = p.rows[1] /\ Rest(q.rows) = Rest(p.rows) + r.count
        BY <1>2, <3>1, RestAppended
      <3>3. \A j \in DOMAIN q.rows : Tabled(q.rows[j])
        BY <3>2 DEF Covered
      <3>4. Total(q.rows) = q.rows[1].count + Rest(q.rows)
        BY <3>2, TotalFirst
      <3>5. Total(q.rows) <= q.recorded
        <4>1. CASE p.rows = <<>>
          <5>1. Total(q.rows) = u.n
            BY <1>1, <3>1, <3>2, <3>4, <4>1
          <5>2. u.n <= p.recorded + u.n
            BY <1>1
          <5> QED
            BY <5>1, <5>2
        <4>2. CASE p.rows # <<>>
          <5>1. Total(q.rows) = Total(p.rows) + u.n
            <6> DEFINE k == p.rows[1].count
                       m == Rest(p.rows)
                       n == u.n
            <6>1. k \in Nat /\ m \in Nat /\ n \in Nat /\ Total(p.rows) = k + m
              BY <1>1, <1>3, <4>2
            <6>2. Total(q.rows) = k + (m + n)
              BY <3>1, <3>2, <3>4, <4>2
            <6> HIDE DEF k, m, n
            <6>3. Total(q.rows) = Total(p.rows) + n
              BY <6>1, <6>2
            <6> QED
              BY <6>3 DEF n
          <5>2. Total(p.rows) \in Nat
            BY <1>3, <4>2
          <5> DEFINE t == Total(p.rows)
                     n == u.n
                     w == p.recorded
          <5>3. t \in Nat /\ n \in Nat /\ w \in Nat /\ t <= w
            BY <1>1, <1>3, <5>2
          <5>4. Total(q.rows) = t + n /\ q.recorded = w + n
            BY <5>1
          <5> HIDE DEF t, n, w
          <5> QED
            BY <5>3, <5>4
        <4> QED
          BY <4>1, <4>2
      <3>6. p.rows # <<>> => Rest(q.rows) <= Rest(p.rows) + u.n
        BY <1>1, <1>3, <3>1, <3>2
      <3> QED
        BY <3>2, <3>3, <3>5, <3>6
    <2>2. CASE u.seen # <<>>
      <3>1. q.rows = [p.rows EXCEPT ![1] = r] /\ r.count = u.seen[1].count + u.n
        BY <2>2
      <3>2. /\ p.rows # <<>> /\ u.seen[1].count \in Nat
            /\ u.seen[1].count + Rest(p.rows) <= p.recorded
        BY <1>1, <2>2 DEF Outstanding, Tabled
      <3>3. /\ Counted(q.rows) /\ q.rows # <<>> /\ q.rows[1] = r /\ DOMAIN q.rows = DOMAIN p.rows
            /\ Rest(q.rows) = Rest(p.rows)
        <4> DEFINE new == [p.rows EXCEPT ![1] = r]
        <4>1. /\ Counted(new) /\ new # <<>> /\ new[1] = r /\ DOMAIN new = DOMAIN p.rows
              /\ Rest(new) = Rest(p.rows)
          BY <1>2, <3>2, RestKept
        <4>2. q.rows = new
          BY <3>1
        <4> HIDE DEF new
        <4> QED
          BY <4>1, <4>2
      <3>4. \A j \in DOMAIN q.rows : Tabled(q.rows[j])
        <4>1. ASSUME NEW j \in DOMAIN q.rows, j # 1
              PROVE  q.rows[j] = p.rows[j]
          BY <3>1, <3>3, <4>1
        <4> QED
          BY <3>3, <4>1 DEF Covered
      <3>5. Total(q.rows) = r.count + Rest(q.rows)
        BY <3>3, TotalFirst
      <3>6. Total(q.rows) <= q.recorded
        <4> DEFINE k == u.seen[1].count
                   m == Rest(p.rows)
                   n == u.n
                   w == p.recorded
        <4>1. k \in Nat /\ m \in Nat /\ n \in Nat /\ w \in Nat /\ k + m <= w
          BY <1>1, <1>3, <3>2
        <4>2. Total(q.rows) = (k + n) + m /\ q.recorded = w + n
          BY <3>1, <3>3, <3>5
        <4> HIDE DEF k, m, n, w
        <4> QED
          BY <4>1, <4>2
      <3>7. Rest(q.rows) <= Rest(p.rows) + u.n
        <4> DEFINE m == Rest(p.rows)
                   n == u.n
        <4>1. m \in Nat /\ n \in Nat /\ Rest(q.rows) = m
          BY <1>1, <1>3, <3>3
        <4> HIDE DEF m, n
        <4>2. Rest(q.rows) <= m + n
          BY <4>1
        <4> QED
          BY <4>2 DEF m, n
      <3> QED
        BY <3>3, <3>4, <3>6, <3>7
    <2> QED
      BY <2>1, <2>2
  <1>5. Rest(q.rows) \in Nat /\ q.recorded \in Nat
    BY <1>1, <1>4, TotalFirst
  <1>6. /\ Listed(q.looked)
        /\ \A j \in DOMAIN q.looked : \E m \in DOMAIN p.looked : q.looked[j] = p.looked[m]
    BY Taken DEF Covered
  <1>7. ASSUME NEW j \in DOMAIN q.looked
        PROVE  Outstanding(q.looked[j], q.rows, q.recorded)
    <2>1. PICK m \in DOMAIN p.looked : q.looked[j] = p.looked[m]
      BY <1>6
    <2> DEFINE x == p.looked[m]
    <2>2. Outstanding(x, p.rows, p.recorded)
      BY DEF Covered
    <2> HIDE DEF x
    <2>3. ASSUME x.seen # <<>>
          PROVE  Tabled(x.seen[1]) /\ q.rows # <<>> /\ x.seen[1].count + Rest(q.rows) <= q.recorded
      <3> DEFINE count == x.seen[1].count
                 before == Rest(p.rows)
                 after == Rest(q.rows)
      <3>1. Tabled(x.seen[1]) /\ p.rows # <<>> /\ count + before <= p.recorded
        BY <2>2, <2>3 DEF Outstanding
      <3>2. count \in Nat /\ before \in Nat /\ after \in Nat /\ after <= before + u.n
        BY <1>3, <1>4, <1>5, <3>1 DEF Tabled
      <3> HIDE DEF count, before, after
      <3>3. count + after <= p.recorded + u.n
        BY <1>1, <3>1, <3>2
      <3> QED
        BY <1>4, <3>1, <3>3 DEF count, after
    <2>4. Outstanding(x, q.rows, q.recorded)
      BY <2>2, <2>3 DEF Outstanding
    <2> QED
      BY <2>1, <2>4 DEF x
  <1> QED
    BY <1>4, <1>5, <1>6, <1>7 DEF Covered, Counted

(* A step that leaves all patterns but one, and that one covered.             *)
LEMMA OnePattern ==
  ASSUME PatternsCovered, NEW k \in Keys, NEW q,
         q = [rows |-> q.rows, looked |-> q.looked, recorded |-> q.recorded], Covered(q),
         patterns' = [patterns EXCEPT ![k] = q]
  PROVE  PatternsCovered'
  <1>1. patterns' = [x \in Keys |-> IF x = k THEN q ELSE patterns[x]]
    BY DEF PatternsCovered
  <1>2. patterns' = [x \in Keys |-> patterns'[x]]
    BY <1>1
  <1>3. ASSUME NEW x \in Keys
        PROVE  /\ patterns'[x] = [rows |-> patterns'[x].rows, looked |-> patterns'[x].looked,
                                  recorded |-> patterns'[x].recorded]
               /\ Covered(patterns'[x])
    <2>1. CASE x = k
      <3>1. patterns'[x] = q
        BY <1>1, <2>1
      <3> QED
        BY <3>1
    <2>2. CASE x # k
      <3>1. patterns'[x] = patterns[x]
        BY <1>1, <2>2
      <3> QED
        BY <3>1 DEF PatternsCovered
    <2> QED
      BY <2>1, <2>2
  <1>4. ASSUME NEW x \in Keys
        PROVE  Covered(patterns[x])'
    BY <1>3
  <1> QED
    BY <1>2, <1>3, <1>4 DEF PatternsCovered

LEMMA PatternsStep ==
  ASSUME Given, PatternsCovered, [Statistics!Next]_Statistics!vars
  PROVE  PatternsCovered'
  <1>1. ASSUME UNCHANGED patterns
        PROVE  PatternsCovered'
    BY <1>1 DEF PatternsCovered
  <1>2. ASSUME NEW k \in Keys, NEW n \in Counts, NEW reasons \in Reasons,
               Statistics!upsert_pattern(k, n, reasons)
        PROVE  PatternsCovered'
    <2> DEFINE p == patterns[k]
               r == Statistics!Row(n, reasons)
               q == [rows |-> <<r>>, looked |-> p.looked, recorded |-> p.recorded + n]
    <2>1. Covered(p) /\ p = [rows |-> p.rows, looked |-> p.looked, recorded |-> p.recorded]
      BY DEF PatternsCovered
    <2>2. n \in Nat /\ Tabled(r) /\ r.count = n
      BY NewRow DEF Given
    <2>3. patterns' = [patterns EXCEPT ![k].rows = <<r>>, ![k].recorded = @ + n]
      BY <1>2 DEF Statistics!upsert_pattern
    <2> HIDE DEF r
    <2>4. [[p EXCEPT !.rows = <<r>>] EXCEPT !.recorded = p.recorded + n] = q
      <3> DEFINE sum == p.recorded + n
                 put == [p EXCEPT !.rows = <<r>>]
      <3> HIDE DEF sum
      <3>1. put = [rows |-> <<r>>, looked |-> p.looked, recorded |-> p.recorded]
        BY <2>1
      <3> HIDE DEF put
      <3>2. [put EXCEPT !.recorded = sum] = [rows |-> <<r>>, looked |-> p.looked, recorded |-> sum]
        BY <3>1
      <3> QED
        BY <3>2 DEF sum, put
    <2>5. patterns' = [patterns EXCEPT ![k] = q]
      <3>1. patterns' = [patterns EXCEPT ![k] = [[p EXCEPT !.rows = <<r>>]
                                                   EXCEPT !.recorded = p.recorded + n]]
        BY <2>3
      <3> HIDE DEF q, p
      <3> QED
        BY <2>4, <3>1
    <2>6. Covered(q)
      BY <2>1, <2>2, CoveredReplaced
    <2>7. q = [rows |-> q.rows, looked |-> q.looked, recorded |-> q.recorded]
      OBVIOUS
    <2> HIDE DEF q
    <2> QED
      BY <2>5, <2>6, <2>7, OnePattern
  <1>3. ASSUME NEW k \in Keys, NEW n \in Counts, NEW reasons \in Reasons,
               Statistics!Look(k, n, reasons)
        PROVE  PatternsCovered'
    <2> DEFINE p == patterns[k]
               u == [seen |-> p.rows, n |-> n, reasons |-> reasons]
               q == [rows |-> p.rows, looked |-> Append(p.looked, u), recorded |-> p.recorded]
    <2>1. Covered(p) /\ p = [rows |-> p.rows, looked |-> p.looked, recorded |-> p.recorded]
      BY DEF PatternsCovered
    <2>2. patterns' = [patterns EXCEPT ![k].looked = Append(@, u)]
      BY <1>3 DEF Statistics!Look
    <2>3. n \in Nat /\ Listed(reasons) /\ u.seen = p.rows /\ u.n = n /\ u.reasons = reasons
      BY DEF Given
    <2> HIDE DEF u
    <2>4. [p EXCEPT !.looked = Append(p.looked, u)] = q
      <3> DEFINE rows == p.rows
                 looked == p.looked
                 recorded == p.recorded
                 more == Append(looked, u)
                 old == [rows |-> rows, looked |-> looked, recorded |-> recorded]
      <3>1. p = old
        BY <2>1
      <3>2. [old EXCEPT !.looked = more] = [rows |-> rows, looked |-> more, recorded |-> recorded]
        <4> HIDE DEF p, rows, looked, recorded, more
        <4> QED
          OBVIOUS
      <3> HIDE DEF p, old
      <3> QED
        BY <3>1, <3>2
    <2>5. patterns' = [patterns EXCEPT ![k] = q]
      BY <2>2, <2>4 DEF PatternsCovered
    <2>6. Covered(q)
      BY <2>1, <2>3, CoveredLooked
    <2>7. q = [rows |-> q.rows, looked |-> q.looked, recorded |-> q.recorded]
      OBVIOUS
    <2> HIDE DEF q
    <2> QED
      BY <2>5, <2>6, <2>7, OnePattern
  <1>4. ASSUME NEW k \in Keys, NEW i \in DOMAIN patterns[k].looked, Statistics!Write(k, i)
        PROVE  PatternsCovered'
    <2> DEFINE p == patterns[k]
               u == p.looked[i]
               r == IF u.seen = <<>> THEN Statistics!Row(u.n, u.reasons)
                    ELSE Statistics!Row(u.seen[1].count + u.n,
                                        Statistics!merge_reasons(u.seen[1].reasons, u.reasons))
               q == [rows |-> IF u.seen = <<>> THEN Append(p.rows, r) ELSE [p.rows EXCEPT ![1] = r],
                     looked |-> Statistics!RemoveAt(p.looked, i),
                     recorded |-> p.recorded + u.n]
    <2>1. Covered(p)
      BY DEF PatternsCovered
    <2>2. patterns' = [patterns EXCEPT ![k] = q]
      BY <1>4 DEF Statistics!Write, PatternsCovered
    <2>3. Outstanding(u, p.rows, p.recorded) /\ ReasonsMax \in Nat
      BY <2>1 DEF Covered, Given
    <2>4. Tabled(r) /\ r.count = IF u.seen = <<>> THEN u.n ELSE u.seen[1].count + u.n
      <3> HIDE DEF u
      <3>1. CASE u.seen = <<>>
        BY <2>3, <3>1, NewRow DEF Outstanding
      <3>2. CASE u.seen # <<>>
        <4>1. u.seen[1].count + u.n \in Nat
          BY <2>3, <3>2 DEF Outstanding, Tabled
        <4>2. Listed(Statistics!merge_reasons(u.seen[1].reasons, u.reasons))
          BY <2>3, <3>2, Merged DEF Outstanding, Tabled
        <4> QED
          BY <2>3, <3>2, <4>1, <4>2, NewRow
      <3> QED
        BY <3>1, <3>2
    <2>5. q = [rows |-> q.rows, looked |-> q.looked, recorded |-> q.recorded]
      <3> HIDE DEF r
      <3> QED
        OBVIOUS
    <2>6. /\ q.rows = IF u.seen = <<>> THEN Append(p.rows, r) ELSE [p.rows EXCEPT ![1] = r]
          /\ q.looked = Statistics!RemoveAt(p.looked, i)
          /\ q.recorded = p.recorded + u.n
      <3> HIDE DEF r
      <3> QED
        OBVIOUS
    <2> HIDE DEF q, r
    <2>7. Covered(q)
      <3>1. u = p.looked[i] /\ i \in DOMAIN p.looked
        OBVIOUS
      <3> HIDE DEF u, p
      <3> QED
        BY <2>1, <2>3, <2>4, <2>6, <3>1, CoveredWritten
    <2> QED
      BY <2>2, <2>5, <2>7, OnePattern
  <1>5. ASSUME NEW k \in Keys, Statistics!consolidate_patterns(k)
        PROVE  UNCHANGED patterns
    BY <1>5 DEF Statistics!consolidate_patterns, Statistics!reset_pattern
  <1>6. CASE Statistics!Next
    <2>1. UNCHANGED patterns \/ \E k \in Keys :
             \/ \E n \in Counts, r \in Reasons :
                  Statistics!upsert_pattern(k, n, r) \/ Statistics!Look(k, n, r)
             \/ \E i \in DOMAIN patterns[k].looked : Statistics!Write(k, i)
      BY <1>5, <1>6 DEF Statistics!Next, Statistics!Request, Statistics!Page, Statistics!Fails,
           Statistics!record_snapshot, Statistics!analyze, Statistics!record_current_snapshot,
           Statistics!compare_periods, Statistics!detect_regression, Statistics!Answers,
           Statistics!retrieve_dispatch_patterns
    <2> QED
      BY <1>1, <1>2, <1>3, <1>4, <2>1
  <1>7. CASE UNCHANGED Statistics!vars
    BY <1>1, <1>7 DEF Statistics!vars
  <1> QED
    BY <1>6, <1>7

(* PatternsAddUp, a part of StatisticsAddUp: the rows of a dispatch pattern   *)
(* together never count a case twice and keep the reasons within their limit, *)
(* for any number of recordings that look and write in any order, and both    *)
(* dialects.                                                                  *)
THEOREM PatternsCorrect ==
  ASSUME Given
  PROVE  Statistics!Spec => []Statistics!PatternsAddUp
  <1>1. Statistics!Init => PatternsCovered
    <2> SUFFICES ASSUME Statistics!Init
                 PROVE  PatternsCovered
      OBVIOUS
    <2>1. patterns = [k \in Keys |-> [rows |-> <<>>, looked |-> <<>>, recorded |-> 0]]
      BY DEF Statistics!Init
    <2>2. Listed(<<>>) /\ Counted(<<>>)
      BY EmptySeq DEF Listed, Counted
    <2>3. Total(<<>>) = 0
      BY <2>2, TotalFirst
    <2> QED
      BY <2>1, <2>2, <2>3 DEF PatternsCovered, Covered
  <1>2. PatternsCovered /\ [Statistics!Next]_Statistics!vars => PatternsCovered'
    BY PatternsStep
  <1>3. PatternsCovered => Statistics!PatternsAddUp
    <2> SUFFICES ASSUME PatternsCovered, NEW k \in Keys
                 PROVE  /\ Total(patterns[k].rows) <= patterns[k].recorded
                        /\ \A r \in Statistics!ToSet(patterns[k].rows) : Len(r.reasons) <= ReasonsMax
      BY DEF Statistics!PatternsAddUp, Total
    <2>1. Covered(patterns[k])
      BY DEF PatternsCovered
    <2> QED
      BY <2>1 DEF Covered, Tabled, Statistics!ToSet
  <1> QED
    BY <1>1, <1>2, <1>3, PTL DEF Statistics!Spec
============================================================================
