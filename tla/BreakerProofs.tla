--------------------------- MODULE BreakerProofs ---------------------------
(* Proofs about Breaker for every configuration and any number of callers.   *)
EXTENDS Breaker, FiniteSetTheorems, FunctionTheorems, SequenceTheorems, TLAPS

(***************************************************************************)
(* Lemmas about the ring buffer.                                           *)
(***************************************************************************)

\* nextIdx is a step to the next slot that wraps at the end of the ring.
LEMMA NextIdxWraps ==
    ASSUME NEW i \in 0..WindowSize - 1
    PROVE  /\ nextIdx(i) \in 0..WindowSize - 1
           /\ nextIdx(i) = IF i + 1 = WindowSize THEN 0 ELSE i + 1
<1>1. WindowSize \in Nat /\ WindowSize >= 1
  BY ConfigAssumption
<1>2. CASE i + 1 = WindowSize
  <2>1. WindowSize % WindowSize = 0
    BY <1>1, SMT
  <2> QED BY <1>1, <1>2, <2>1 DEF nextIdx
<1>3. CASE i + 1 < WindowSize
  <2>1. (i + 1) % WindowSize = i + 1
    BY <1>1, <1>3, SMT
  <2> QED BY <1>1, <1>3, <2>1 DEF nextIdx
<1> QED BY <1>1, <1>2, <1>3

\* failureCountLocked returns a number, whatever part of the ring it reads.
LEMMA FailureCountType ==
    ASSUME NEW w \in [0..WindowSize - 1 -> BOOLEAN],
           NEW i \in 0..WindowSize - 1,
           NEW f \in BOOLEAN
    PROVE  failureCount(w, i, f) \in Nat
<1> DEFINE n == IF f THEN WindowSize ELSE i
<1>1. n \in Int
  BY ConfigAssumption
<1>2. IsFiniteSet(0..n - 1)
  BY <1>1, FS_Interval
<1>3. IsFiniteSet({k \in 0..n - 1 : ~w[k]})
  BY <1>2, FS_Subset
<1> QED BY <1>3, FS_CardinalityType DEF failureCount

\* A ring with no written slot holds no failure.
LEMMA EmptyRing ==
    ASSUME NEW w
    PROVE  failureCount(w, 0, FALSE) = 0
<1>1. {k \in 0..0 - 1 : ~w[k]} = {}
  OBVIOUS
<1> QED BY <1>1, FS_EmptySet DEF failureCount

(***************************************************************************)
(* The inductive invariant.  BudgetNotLost is not inductive: a late result *)
(* of a call admitted before the trip lowers the in-flight counter without *)
(* being a trial, so the counter and the trials out drift apart, but only  *)
(* in one direction.                                                       *)
(***************************************************************************)
CounterBelowTrials ==
    /\ IsFiniteSet(trials)
    /\ ~leaked => halfOpenInFlight <= Cardinality(trials)

IInv ==
    /\ TypeOK
    /\ HalfOpenBookkeeping
    /\ ClosedBelowThreshold
    /\ CounterBelowTrials

\* New returns a closed breaker that satisfies the invariant.
LEMMA InitIInv == Init => IInv
<1> SUFFICES ASSUME Init PROVE IInv
  OBVIOUS
<1> USE ConfigAssumption
<1>1. TypeOK
  <2>1. windowFilled \in BOOLEAN /\ leaked \in BOOLEAN /\ healthy \in BOOLEAN
    BY Zenon DEF Init
  <2> QED BY <2>1 DEF Init, TypeOK, States
<1>2. HalfOpenBookkeeping
  BY DEF Init, HalfOpenBookkeeping
<1>3. ClosedBelowThreshold
  <2>1. failureCount(window, windowIdx, windowFilled) = 0
    BY EmptyRing, Zenon DEF Init
  <2> QED BY <2>1 DEF ClosedBelowThreshold
<1>4. CounterBelowTrials
  BY FS_EmptySet DEF Init, CounterBelowTrials
<1> QED BY <1>1, <1>2, <1>3, <1>4 DEF IInv

\* Tripping the breaker re-establishes the invariant from any typed ring.
LEMMA TripIInv ==
    ASSUME TypeOK, tripOpen,
           window' \in [0..WindowSize - 1 -> BOOLEAN],
           windowIdx' \in 0..WindowSize - 1,
           windowFilled' \in BOOLEAN,
           inflight' \subseteq Calls,
           healthy' \in BOOLEAN
    PROVE  IInv'
<1> USE ConfigAssumption
<1>1. TypeOK'
  <2>1. leaked' \in BOOLEAN
    BY Zenon DEF tripOpen
  <2> QED BY <2>1 DEF TypeOK, tripOpen, States
<1>2. HalfOpenBookkeeping'
  BY DEF tripOpen, HalfOpenBookkeeping
<1>3. ClosedBelowThreshold'
  BY DEF tripOpen, ClosedBelowThreshold
<1>4. CounterBelowTrials'
  BY FS_EmptySet DEF tripOpen, CounterBelowTrials
<1> QED BY <1>1, <1>2, <1>3, <1>4 DEF IInv

\* One more or one less trial changes the number of trials by at most one.
LEMMA TrialCount ==
    ASSUME NEW S, IsFiniteSet(S), NEW c
    PROVE  /\ IsFiniteSet(S \cup {c}) /\ IsFiniteSet(S \ {c})
           /\ Cardinality(S) \in Nat
           /\ c \notin S => Cardinality(S \cup {c}) = Cardinality(S) + 1
           /\ Cardinality(S \ {c}) = IF c \in S THEN Cardinality(S) - 1
                                                 ELSE Cardinality(S)
<1>1. IsFiniteSet(S \cup {c}) /\ IsFiniteSet(S \ {c})
  BY FS_AddElement, FS_RemoveElement
<1>2. c \notin S => Cardinality(S \cup {c}) = Cardinality(S) + 1
  BY FS_AddElement
<1>3. Cardinality(S \ {c}) = IF c \in S THEN Cardinality(S) - 1 ELSE Cardinality(S)
  BY FS_RemoveElement
<1> QED BY <1>1, <1>2, <1>3, FS_CardinalityType

\* Every step of the breaker, its callers and its environment preserves the
\* invariant.
LEMMA NextIInv == IInv /\ [Next]_vars => IInv'
<1> SUFFICES ASSUME IInv, [Next]_vars PROVE IInv'
  OBVIOUS
<1> USE ConfigAssumption
<1>t. TypeOK /\ HalfOpenBookkeeping /\ ClosedBelowThreshold /\ CounterBelowTrials
  BY DEF IInv
<1>1. ASSUME NEW c \in Calls, AllowClosed(c) PROVE IInv'
  BY <1>t, <1>1 DEF AllowClosed, IInv, TypeOK, HalfOpenBookkeeping,
     ClosedBelowThreshold, CounterBelowTrials, ring, counters
<1>2. ASSUME NEW c \in Calls, AllowFirstTrial(c) PROVE IInv'
  <2>1. TypeOK'
    <3>1. leaked' \in BOOLEAN
      BY <1>2, Zenon DEF AllowFirstTrial
    <3> QED BY <1>t, <1>2, <3>1 DEF AllowFirstTrial, TypeOK, States, ring
  <2>2. HalfOpenBookkeeping' /\ ClosedBelowThreshold'
    BY <1>t, <1>2 DEF AllowFirstTrial, HalfOpenBookkeeping, ClosedBelowThreshold
  <2>3. CounterBelowTrials'
    <3>1. IsFiniteSet(trials') /\ Cardinality(trials') = 1
      BY <1>2, FS_Singleton, Zenon DEF AllowFirstTrial
    <3> QED BY <1>2, <3>1 DEF AllowFirstTrial, CounterBelowTrials
  <2> QED BY <2>1, <2>2, <2>3 DEF IInv
<1>3. ASSUME NEW c \in Calls, AllowTrial(c) PROVE IInv'
  <2>1. TypeOK'
    BY <1>t, <1>3 DEF AllowTrial, TypeOK, States, ring
  <2>2. HalfOpenBookkeeping' /\ ClosedBelowThreshold'
    BY <1>t, <1>3 DEF AllowTrial, TypeOK, HalfOpenBookkeeping, ClosedBelowThreshold
  <2>3. c \notin trials
    BY <1>t, <1>3 DEF AllowTrial, TypeOK
  <2>4. CounterBelowTrials'
    <3>1. /\ IsFiniteSet(trials')
          /\ Cardinality(trials) \in Nat
          /\ Cardinality(trials') = Cardinality(trials) + 1
      BY <1>t, <1>3, <2>3, TrialCount, Zenon DEF AllowTrial, CounterBelowTrials
    <3>2. leaked' = leaked /\ halfOpenInFlight' = halfOpenInFlight + 1
      BY <1>3 DEF AllowTrial
    <3> QED BY <1>t, <3>1, <3>2 DEF CounterBelowTrials, TypeOK
  <2> QED BY <2>1, <2>2, <2>4 DEF IInv
<1>4. ASSUME NEW c \in Calls, Return(c) PROVE IInv'
  <2>e. PICK outcome \in Outcomes :
            \/ RecordClosed(c, isFailure(outcome))
            \/ RecordHalfOpen(c, isFailure(outcome))
            \/ RecordOpen(c)
    BY <1>4 DEF Return, Record
  <2> DEFINE failed == isFailure(outcome)
  <2>f. failed \in BOOLEAN
    BY DEF isFailure
  <2>g. /\ inflight' = inflight \ {c}
        /\ healthy' = healthy
        /\ inflight' \subseteq Calls
        /\ healthy' \in BOOLEAN
    BY <1>t, <1>4 DEF Return, Record, TypeOK
  <2> HIDE DEF failed
  <2>1. CASE RecordClosed(c, failed)
    <3>1. /\ window' \in [0..WindowSize - 1 -> BOOLEAN]
          /\ windowIdx' \in 0..WindowSize - 1
          /\ windowFilled' \in BOOLEAN
      BY <1>t, <2>1, <2>f, NextIdxWraps DEF RecordClosed, TypeOK
    <3>2. CASE tripOpen
      BY <1>t, <3>1, <3>2, <2>g, TripIInv
    <3>3. CASE ~tripOpen
      <4>1. /\ ~(failureCount(window', windowIdx', windowFilled') >= FailureThreshold)
            /\ UNCHANGED <<state, elapsed, counters, trials, leaked>>
        BY <2>1, <3>3 DEF RecordClosed
      <4>2. failureCount(window', windowIdx', windowFilled') < FailureThreshold
        BY <3>1, <4>1, FailureCountType
      <4>3. trials = {} /\ state = "closed"
        BY <1>t, <2>1 DEF RecordClosed, HalfOpenBookkeeping
      <4>4. TypeOK'
        BY <1>t, <2>g, <3>1, <4>1, <4>3 DEF TypeOK, counters
      <4>5. HalfOpenBookkeeping' /\ CounterBelowTrials'
        BY <1>t, <4>1 DEF HalfOpenBookkeeping, CounterBelowTrials, counters
      <4>6. ClosedBelowThreshold'
        BY <4>2 DEF ClosedBelowThreshold
      <4> QED BY <4>4, <4>5, <4>6 DEF IInv
    <3> QED BY <3>2, <3>3
  <2>2. CASE RecordHalfOpen(c, failed)
    <3>1. CASE failed
      <4>1. tripOpen /\ UNCHANGED ring
        BY <2>2, <3>1 DEF RecordHalfOpen
      <4>2. /\ window' \in [0..WindowSize - 1 -> BOOLEAN]
            /\ windowIdx' \in 0..WindowSize - 1
            /\ windowFilled' \in BOOLEAN
        BY <1>t, <4>1 DEF ring, TypeOK
      <4> QED BY <1>t, <4>1, <4>2, <2>g, TripIInv
    <3>2. CASE ~failed /\ consecutiveSuccesses + 1 >= SuccessThreshold
      <4>1. close
        BY <2>2, <3>2 DEF RecordHalfOpen
      <4>2. TypeOK'
        <5>1. windowFilled' \in BOOLEAN /\ leaked' \in BOOLEAN
          BY <4>1, Zenon DEF close
        <5> QED BY <1>t, <2>g, <4>1, <5>1 DEF close, TypeOK, States
      <4>3. HalfOpenBookkeeping'
        BY <4>1 DEF close, HalfOpenBookkeeping
      <4>4. ClosedBelowThreshold'
        <5>1. failureCount(window', windowIdx', windowFilled') = 0
          BY <4>1, EmptyRing, Zenon DEF close
        <5> QED BY <5>1 DEF ClosedBelowThreshold
      <4>5. CounterBelowTrials'
        BY <4>1, FS_EmptySet DEF close, CounterBelowTrials
      <4> QED BY <4>2, <4>3, <4>4, <4>5 DEF IInv
    <3>3. CASE ~failed /\ ~(consecutiveSuccesses + 1 >= SuccessThreshold)
      <4>1. /\ state = "half-open"
            /\ halfOpenInFlight' = decInFlight(halfOpenInFlight)
            /\ consecutiveSuccesses' = consecutiveSuccesses + 1
            /\ trials' = trials \ {c}
            /\ UNCHANGED <<state, elapsed, ring, leaked>>
        BY <2>2, <3>3 DEF RecordHalfOpen
      <4>2. TypeOK'
        BY <1>t, <2>g, <4>1 DEF TypeOK, ring, decInFlight
      <4>3. HalfOpenBookkeeping' /\ ClosedBelowThreshold'
        BY <1>t, <3>3, <4>1 DEF TypeOK, HalfOpenBookkeeping, ClosedBelowThreshold,
           decInFlight
      <4>4. CounterBelowTrials'
        <5>1. /\ IsFiniteSet(trials')
              /\ Cardinality(trials) \in Nat
              /\ Cardinality(trials') \in {Cardinality(trials), Cardinality(trials) - 1}
          BY <1>t, <4>1, TrialCount, Zenon DEF CounterBelowTrials
        <5>2. leaked' = leaked
          BY <4>1
        <5>3. Cardinality(trials') \in Nat
          BY <5>1, FS_CardinalityType
        <5> QED BY <1>t, <4>1, <5>1, <5>2, <5>3 DEF CounterBelowTrials, TypeOK, decInFlight
      <4> QED BY <4>2, <4>3, <4>4 DEF IInv
    <3> QED BY <3>1, <3>2, <3>3
  <2>3. CASE RecordOpen(c)
    BY <1>t, <2>3, <2>g DEF RecordOpen, IInv, TypeOK, HalfOpenBookkeeping,
       ClosedBelowThreshold, CounterBelowTrials, ring, counters
  <2> QED BY <2>e, <2>1, <2>2, <2>3 DEF failed
<1>5. ASSUME NEW c \in Calls, Panic(c) PROVE IInv'
  <2>1. TypeOK' /\ HalfOpenBookkeeping' /\ ClosedBelowThreshold'
    BY <1>t, <1>5 DEF Panic, TypeOK, HalfOpenBookkeeping, ClosedBelowThreshold,
       ring, counters
  <2>2. CounterBelowTrials'
    BY <1>t, <1>5, TrialCount DEF Panic, TypeOK, CounterBelowTrials, counters
  <2> QED BY <2>1, <2>2 DEF IInv
<1>6. CASE Tick
  BY <1>t, <1>6 DEF Tick, IInv, TypeOK, HalfOpenBookkeeping,
     ClosedBelowThreshold, CounterBelowTrials, ring, counters
<1>7. CASE BackendFlips
  BY <1>t, <1>7 DEF BackendFlips, IInv, TypeOK, HalfOpenBookkeeping,
     ClosedBelowThreshold, CounterBelowTrials, ring, counters
<1>8. CASE UNCHANGED vars
  BY <1>t, <1>8 DEF vars, IInv, TypeOK, HalfOpenBookkeeping,
     ClosedBelowThreshold, CounterBelowTrials, ring, counters
<1> QED
  BY <1>1, <1>2, <1>3, <1>4, <1>5, <1>6, <1>7, <1>8
  DEF Next, Allow, ShortCircuit

\* The invariant holds in every reachable state.
LEMMA Invariance == Spec => []IInv
  BY InitIInv, NextIInv, PTL DEF Spec

\* The breaker never leaves its types: in particular record() never indexes its
\* ring outside 0..WindowSize-1, for any window size.
THEOREM TypeCorrect == Spec => []TypeOK
<1>1. IInv => TypeOK
  BY DEF IInv
<1> QED BY <1>1, Invariance, PTL

\* For every configuration, half-open counters respect their limits and are
\* zero in the other two states.
THEOREM BookkeepingCorrect == Spec => []HalfOpenBookkeeping
<1>1. IInv => HalfOpenBookkeeping
  BY DEF IInv
<1> QED BY <1>1, Invariance, PTL

\* For every configuration, a closed breaker is below its failure threshold.
THEOREM ClosedMeansBelowThreshold == Spec => []ClosedBelowThreshold
<1>1. IInv => ClosedBelowThreshold
  BY DEF IInv
<1> QED BY <1>1, Invariance, PTL

\* For every configuration and any number of callers, a breaker that refuses
\* calls for want of trial budget has a trial out that will report back,
\* provided none panicked.
THEOREM BudgetIsNeverLost == Spec => []BudgetNotLost
<1>1. IInv => BudgetNotLost
  <2> SUFFICES ASSUME IInv, halfOpenInFlight >= HalfOpenTrials, ~leaked, trials = {}
               PROVE  FALSE
    BY DEF BudgetNotLost
  <2>1. Cardinality(trials) = 0
    BY FS_EmptySet
  <2> QED BY <2>1, ConfigAssumption DEF IInv, TypeOK, CounterBelowTrials
<1> QED BY <1>1, Invariance, PTL

(***************************************************************************)
(* The ring buffer is a sliding window.                                    *)
(***************************************************************************)

\* The k-th oldest result, without modular arithmetic: a full ring is read from
\* windowIdx to its end and then from its start.
LEMMA SlotForm ==
    ASSUME NEW i \in 0..WindowSize - 1, NEW f \in BOOLEAN, NEW k \in 1..WindowSize
    PROVE  Slot(i, f, k) = IF ~f THEN k - 1
                           ELSE IF i + k - 1 < WindowSize THEN i + k - 1
                           ELSE i + k - 1 - WindowSize
<1>1. WindowSize \in Nat /\ WindowSize >= 1
  BY ConfigAssumption
<1>2. CASE i + k - 1 < WindowSize
  <2>1. (i + k - 1) % WindowSize = i + k - 1
    BY <1>1, <1>2, SMT
  <2> QED BY <1>2, <2>1 DEF Slot
<1>3. CASE i + k - 1 >= WindowSize
  <2>1. (i + k - 1) % WindowSize = i + k - 1 - WindowSize
    BY <1>1, <1>3, SMT
  <2> QED BY <1>1, <1>3, <2>1 DEF Slot
<1> QED BY <1>1, <1>2, <1>3

\* Counting the failed slots of the ring counts the failures of the window.
LEMMA CountAgrees ==
    ASSUME NEW w \in [0..WindowSize - 1 -> BOOLEAN],
           NEW i \in 0..WindowSize - 1,
           NEW f \in BOOLEAN
    PROVE  CB!Failures(ReadRing(w, i, f)) = failureCount(w, i, f)
<1> DEFINE n == IF f THEN WindowSize ELSE i
           slot(k) == Slot(i, f, k)
           S == {k \in 1..n : ~w[slot(k)]}
           T == {j \in 0..n - 1 : ~w[j]}
           g == [k \in S |-> slot(k)]
           pos(j) == IF ~f THEN j + 1
                     ELSE IF j >= i THEN j - i + 1 ELSE j - i + WindowSize + 1
<1>1. n \in 0..WindowSize /\ WindowSize \in Nat
  BY ConfigAssumption
<1>2. \A k \in 1..n : slot(k) = IF ~f THEN k - 1
                                ELSE IF i + k - 1 < WindowSize THEN i + k - 1
                                ELSE i + k - 1 - WindowSize
  BY <1>1, SlotForm
<1>3. \A k \in 1..n : slot(k) \in 0..n - 1
  BY <1>1, <1>2
<1>4. \A k, m \in 1..n : slot(k) = slot(m) => k = m
  BY <1>1, <1>2
<1>5. \A j \in 0..n - 1 : pos(j) \in 1..n /\ slot(pos(j)) = j
  BY <1>1, <1>2
<1> HIDE DEF slot, pos, n
<1>6. g \in Bijection(S, T)
  <2>1. g \in [S -> T]
    BY <1>3
  <2>2. \A a, b \in S : g[a] = g[b] => a = b
    BY <1>4
  <2>3. \A t \in T : \E s \in S : g[s] = t
    <3> SUFFICES ASSUME NEW t \in T PROVE \E s \in S : g[s] = t
      OBVIOUS
    <3>1. pos(t) \in S /\ slot(pos(t)) = t
      BY <1>5
    <3> QED BY <3>1
  <2> QED BY <2>1, <2>2, <2>3 DEF Bijection, Injection, IsInjective, Surjection
<1>7. IsFiniteSet(T)
  <2>1. IsFiniteSet(0..n - 1)
    BY <1>1, FS_Interval
  <2> QED BY <2>1, FS_Subset
<1>8. Cardinality(S) = Cardinality(T)
  <2>1. ExistsBijection(S, T)
    BY <1>6 DEF ExistsBijection
  <2>2. ExistsBijection(T, S)
    BY <2>1, Fun_ExistsBijSymmetric
  <2> QED BY <1>7, <2>2, FS_Bijection
<1>9. {k \in DOMAIN ReadRing(w, i, f) : ReadRing(w, i, f)[k]} = S
  BY DEF ReadRing, n, slot
<1>10. CB!Cardinality(S) = Cardinality(S)
  BY Zenon DEF CB!Cardinality, Cardinality, CB!IsFiniteSet, IsFiniteSet
<1> QED BY <1>8, <1>9, <1>10 DEF CB!Failures, failureCount, n

\* A ring that is still filling up, read oldest first.
LEMMA PartialRing ==
    ASSUME NEW w \in [0..WindowSize - 1 -> BOOLEAN],
           NEW i \in 0..WindowSize - 1
    PROVE  ReadRing(w, i, FALSE) = [k \in 1..i |-> ~w[k - 1]]
  BY DEF ReadRing, Slot

\* A full ring, read oldest first.
LEMMA FullRing ==
    ASSUME NEW w \in [0..WindowSize - 1 -> BOOLEAN],
           NEW i \in 0..WindowSize - 1
    PROVE  ReadRing(w, i, TRUE) =
             [k \in 1..WindowSize |->
                 ~w[IF i + k - 1 < WindowSize THEN i + k - 1
                                              ELSE i + k - 1 - WindowSize]]
<1> DEFINE s(k) == IF i + k - 1 < WindowSize THEN i + k - 1
                                             ELSE i + k - 1 - WindowSize
<1>1. \A k \in 1..WindowSize : (i + k - 1) % WindowSize = s(k)
  BY SlotForm DEF Slot
<1> HIDE DEF s
<1>2. [k \in 1..WindowSize |-> ~w[(i + k - 1) % WindowSize]]
        = [k \in 1..WindowSize |-> ~w[s(k)]]
  BY <1>1
<1> QED BY <1>2 DEF ReadRing, Slot, s

\* A function on 1..n is a sequence of length n; appending to it extends it.
LEMMA AppendForm ==
    ASSUME NEW n \in Nat, NEW r \in [1..n -> BOOLEAN], NEW e \in BOOLEAN,
           NEW q \in [1..n + 1 -> BOOLEAN],
           \A k \in 1..n : q[k] = r[k],
           q[n + 1] = e
    PROVE  q = Append(r, e)
<1>1. r \in Seq(BOOLEAN) /\ Len(r) = n
  OBVIOUS
<1>2. q \in Seq(BOOLEAN) /\ Len(q) = n + 1
  OBVIOUS
<1> QED BY <1>1, <1>2

\* Overwriting the slot at windowIdx and moving the index on is sliding the
\* window by one result, whether the ring is filling up, becomes full or is full.
LEMMA RingSlides ==
    ASSUME NEW w \in [0..WindowSize - 1 -> BOOLEAN],
           NEW i \in 0..WindowSize - 1,
           NEW f \in BOOLEAN,
           NEW failed \in BOOLEAN,
           NEW w2 \in [0..WindowSize - 1 -> BOOLEAN],
           w2[i] # failed,
           \A j \in 0..WindowSize - 1 : j # i => w2[j] = w[j],
           NEW g, g = (f \/ nextIdx(i) = 0)
    PROVE  ReadRing(w2, nextIdx(i), g) = CB!Slide(ReadRing(w, i, f), failed)
<1>0. WindowSize \in Nat /\ WindowSize >= 1 /\ i \in Nat
  BY ConfigAssumption
<1>1. /\ nextIdx(i) \in 0..WindowSize - 1
      /\ nextIdx(i) = IF i + 1 = WindowSize THEN 0 ELSE i + 1
  BY NextIdxWraps
<1>2. CASE f = FALSE
  <2> DEFINE r == [k \in 1..i |-> ~w[k - 1]]
             q == [k \in 1..i + 1 |-> ~w2[k - 1]]
  <2>1. r \in [1..i -> BOOLEAN] /\ q \in [1..i + 1 -> BOOLEAN]
    OBVIOUS
  <2>2. \A k \in 1..i : q[k] = r[k]
    <3> SUFFICES ASSUME NEW k \in 1..i PROVE q[k] = r[k]
      OBVIOUS
    <3>1. k \in 1..i + 1 /\ k - 1 \in 0..WindowSize - 1 /\ k - 1 # i
      BY <1>0
    <3>2. w2[k - 1] = w[k - 1]
      BY <3>1
    <3> QED BY <3>1, <3>2
  <2>3. q[i + 1] = failed
    <3>1. i + 1 \in 1..i + 1 /\ (i + 1) - 1 = i
      BY <1>0
    <3>2. q[i + 1] = ~w2[i]
      BY <3>1
    <3> QED BY <3>2
  <2> HIDE DEF r, q
  <2>4. q = Append(r, failed)
    BY <1>0, <2>1, <2>2, <2>3, AppendForm
  <2>5. ReadRing(w, i, f) = r /\ Len(r) = i /\ i # WindowSize
    <3>1. ReadRing(w, i, FALSE) = r
      BY PartialRing DEF r
    <3>2. Len(r) = i /\ i # WindowSize
      BY <1>0 DEF r
    <3> QED BY <1>2, <3>1, <3>2, Zenon
  <2>6. CB!Slide(ReadRing(w, i, f), failed) = Append(r, failed)
    BY <2>5 DEF CB!Slide
  <2>7. ReadRing(w2, nextIdx(i), g) = q
    <3>1. CASE i + 1 = WindowSize
      <4>1. nextIdx(i) = 0 /\ 0 \in 0..WindowSize - 1
        BY <1>0, <1>1, <3>1
      <4>2. g = TRUE
        BY <4>1, Zenon
      <4>3. ReadRing(w2, nextIdx(i), TRUE) = q
        <5> DEFINE s(k) == IF nextIdx(i) + k - 1 < WindowSize
                           THEN nextIdx(i) + k - 1
                           ELSE nextIdx(i) + k - 1 - WindowSize
        <5>1. ReadRing(w2, nextIdx(i), TRUE) = [k \in 1..WindowSize |-> ~w2[s(k)]]
          BY <1>1, FullRing, Zenon
        <5>2. \A k \in 1..WindowSize : s(k) = k - 1
          BY <1>0, <4>1
        <5> HIDE DEF s
        <5>3. [k \in 1..WindowSize |-> ~w2[s(k)]] = [k \in 1..WindowSize |-> ~w2[k - 1]]
          BY <5>2
        <5> QED BY <3>1, <5>1, <5>3, Zenon DEF q
      <4> QED BY <4>2, <4>3, Zenon
    <3>2. CASE i + 1 # WindowSize
      <4>1. nextIdx(i) = i + 1 /\ nextIdx(i) # 0
        BY <1>0, <1>1, <3>2
      <4>2. g = FALSE
        BY <1>2, <4>1, Zenon
      <4>3. ReadRing(w2, nextIdx(i), FALSE) = q
        <5>1. ReadRing(w2, nextIdx(i), FALSE) = [k \in 1..nextIdx(i) |-> ~w2[k - 1]]
          BY <1>1, PartialRing, Zenon
        <5> QED BY <4>1, <5>1, Zenon DEF q
      <4> QED BY <4>2, <4>3, Zenon
    <3> QED BY <3>1, <3>2
  <2> QED BY <2>4, <2>6, <2>7
<1>3. CASE f = TRUE
  <2> DEFINE N == WindowSize - 1
             s(k) == IF i + k - 1 < WindowSize THEN i + k - 1
                                               ELSE i + k - 1 - WindowSize
             t(k) == IF nextIdx(i) + k - 1 < WindowSize
                     THEN nextIdx(i) + k - 1
                     ELSE nextIdx(i) + k - 1 - WindowSize
             r == [k \in 1..WindowSize |-> ~w[s(k)]]
             q == [k \in 1..N + 1 |-> ~w2[t(k)]]
             r1 == [k \in 1..N |-> ~w[s(k + 1)]]
  <2>1. /\ \A k \in 1..N : t(k) = s(k + 1) /\ t(k) # i /\ t(k) \in 0..WindowSize - 1
        /\ t(N + 1) = i
        /\ N \in Nat /\ N + 1 = WindowSize
    BY <1>0, <1>1
  <2> HIDE DEF s, t, N
  <2>2. r1 \in [1..N -> BOOLEAN] /\ q \in [1..N + 1 -> BOOLEAN]
    OBVIOUS
  <2>3. \A k \in 1..N : q[k] = r1[k]
    <3> SUFFICES ASSUME NEW k \in 1..N PROVE q[k] = r1[k]
      OBVIOUS
    <3>1. w2[t(k)] = w[s(k + 1)]
      BY <2>1
    <3>2. q[k] = ~w2[t(k)] /\ r1[k] = ~w[s(k + 1)]
      BY <2>1
    <3> QED BY <3>1, <3>2
  <2>4. q[N + 1] = failed
    <3>1. N + 1 \in 1..N + 1
      BY <2>1
    <3>2. q[N + 1] = ~w2[t(N + 1)]
      BY <3>1
    <3> QED BY <2>1, <3>2
  <2>5. q = Append(r1, failed)
    <3> HIDE DEF q, r1
    <3> QED BY <2>1, <2>2, <2>3, <2>4, AppendForm
  <2>6. r \in Seq(BOOLEAN) /\ Len(r) = WindowSize /\ Tail(r) = r1
    <3>1. r \in Seq(BOOLEAN) /\ Len(r) = WindowSize
      BY <1>0
    <3>3. \A k \in 1..N : r[k + 1] = r1[k]
      BY <2>1
    <3>4. r1 \in Seq(BOOLEAN) /\ Len(r1) = N
      BY <2>1
    <3> HIDE DEF r, r1
    <3>2. Len(Tail(r)) = N /\ \A k \in 1..N : Tail(r)[k] = r[k + 1]
      BY <1>0, <2>1, <3>1
    <3>5. Tail(r) \in Seq(BOOLEAN)
      BY <1>0, <3>1
    <3> QED BY <3>1, <3>2, <3>3, <3>4, <3>5, SeqEqual
  <2>7. ReadRing(w, i, f) = r
    <3>1. ReadRing(w, i, TRUE) = r
      BY FullRing DEF s
    <3> QED BY <1>3, <3>1, Zenon
  <2>8. ReadRing(w2, nextIdx(i), g) = q
    <3>1. ReadRing(w2, nextIdx(i), TRUE) = q
      <4>1. ReadRing(w2, nextIdx(i), TRUE) = [k \in 1..WindowSize |-> ~w2[t(k)]]
        BY <1>1, FullRing, Zenon DEF t
      <4> QED BY <2>1, <4>1, Zenon
    <3>2. g = TRUE
      BY <1>3, Zenon
    <3> QED BY <3>1, <3>2, Zenon
  <2> HIDE DEF r, q, r1
  <2>9. CB!Slide(ReadRing(w, i, f), failed) = Append(r1, failed)
    BY <2>6, <2>7 DEF CB!Slide
  <2> QED BY <2>5, <2>8, <2>9
<1> QED BY <1>2, <1>3

(***************************************************************************)
(* The breaker implements CircuitBreaker.                                  *)
(***************************************************************************)

\* A fresh breaker has an empty window.
LEMMA InitRefines == Init => CB!AInit
<1> SUFFICES ASSUME Init PROVE CB!AInit
  OBVIOUS
<1>1. ReadRing(window, 0, FALSE) = <<>>
  BY DEF ReadRing
<1>2. Recent = <<>>
  BY <1>1, Zenon DEF Init, Recent
<1> QED BY <1>2 DEF Init, CB!AInit

\* Every step of the breaker is a step of CircuitBreaker or leaves its state
\* alone.
LEMMA NextRefines == IInv /\ IInv' /\ [Next]_vars => [CB!ANext]_CB!avars
<1> SUFFICES ASSUME IInv, IInv', [Next]_vars PROVE [CB!ANext]_CB!avars
  OBVIOUS
<1> USE ConfigAssumption
<1>t. TypeOK /\ TypeOK'
  BY DEF IInv
<1>s. ASSUME UNCHANGED <<state, elapsed, window, windowIdx, windowFilled,
                         consecutiveSuccesses>>
      PROVE  UNCHANGED CB!avars
  BY <1>s DEF CB!avars, Recent
<1>r. ASSUME state # "closed" PROVE Recent = <<>>
  BY <1>r DEF Recent
<1>q. ASSUME state' # "closed" PROVE Recent' = <<>>
  BY <1>q DEF Recent
<1>1. ASSUME NEW c \in Calls, AllowClosed(c) PROVE UNCHANGED CB!avars
  BY <1>1, <1>s DEF AllowClosed, ring, counters
<1>2. ASSUME NEW c \in Calls, AllowFirstTrial(c) PROVE CB!ANext
  <2>1. CB!Probe
    BY <1>2, <1>r, <1>q DEF AllowFirstTrial, CB!Probe
  <2> QED BY <2>1 DEF CB!ANext
<1>3. ASSUME NEW c \in Calls, AllowTrial(c) PROVE UNCHANGED CB!avars
  BY <1>3, <1>s DEF AllowTrial, ring
<1>p. ASSUME tripOpen PROVE CB!Trip
  BY <1>p, <1>q DEF tripOpen, CB!Trip
<1>4. ASSUME NEW c \in Calls, Return(c) PROVE [CB!ANext]_CB!avars
  <2>e. PICK outcome \in Outcomes :
            \/ RecordClosed(c, isFailure(outcome))
            \/ RecordHalfOpen(c, isFailure(outcome))
            \/ RecordOpen(c)
    BY <1>4 DEF Return, Record
  <2> DEFINE failed == isFailure(outcome)
  <2>f. failed \in BOOLEAN
    BY DEF isFailure
  <2> HIDE DEF failed
  <2>1. CASE RecordClosed(c, failed)
    <3>1. /\ state = "closed"
          /\ Recent = ReadRing(window, windowIdx, windowFilled)
      BY <2>1 DEF RecordClosed, Recent
    <3>2. ReadRing(window', windowIdx', windowFilled') = CB!Slide(Recent, failed)
      <4>1. /\ window'[windowIdx] # failed
            /\ \A j \in 0..WindowSize - 1 : j # windowIdx => window'[j] = window[j]
            /\ windowIdx' = nextIdx(windowIdx)
        BY <1>t, <2>1, <2>f DEF RecordClosed, TypeOK
      <4>2. windowFilled' = (windowFilled \/ nextIdx(windowIdx) = 0)
        BY <2>1 DEF RecordClosed
      <4>3. /\ window \in [0..WindowSize - 1 -> BOOLEAN]
            /\ window' \in [0..WindowSize - 1 -> BOOLEAN]
            /\ windowIdx \in 0..WindowSize - 1
            /\ windowFilled \in BOOLEAN
        BY <1>t, Zenon DEF TypeOK
      <4>4. ReadRing(window', nextIdx(windowIdx), windowFilled')
              = CB!Slide(ReadRing(window, windowIdx, windowFilled), failed)
        BY <2>f, <4>1, <4>2, <4>3, RingSlides
      <4> QED BY <3>1, <4>1, <4>4, Zenon
    <3>3. CB!Failures(CB!Slide(Recent, failed))
            = failureCount(window', windowIdx', windowFilled')
      BY <1>t, <3>2, CountAgrees, Zenon DEF TypeOK
    <3>4. CB!ResultClosed(failed)
      <4>1. CASE failureCount(window', windowIdx', windowFilled') >= FailureThreshold
        BY <1>p, <2>1, <3>1, <3>3, <4>1 DEF RecordClosed, CB!ResultClosed
      <4>2. CASE ~(failureCount(window', windowIdx', windowFilled') >= FailureThreshold)
        <5>1. UNCHANGED <<state, elapsed, counters>>
          BY <2>1, <4>2 DEF RecordClosed
        <5>2. Recent' = CB!Slide(Recent, failed)
          BY <3>1, <3>2, <5>1 DEF Recent
        <5> QED BY <3>1, <3>3, <4>2, <5>1, <5>2 DEF CB!ResultClosed, counters
      <4> QED BY <4>1, <4>2
    <3> QED BY <2>f, <3>4 DEF CB!ANext
  <2>2. CASE RecordHalfOpen(c, failed)
    <3>1. state = "half-open"
      BY <2>2 DEF RecordHalfOpen
    <3>2. CASE failed
      <4>1. tripOpen
        BY <2>2, <3>2 DEF RecordHalfOpen
      <4> QED BY <1>p, <3>1, <4>1 DEF CB!FailureHalfOpen, CB!ANext
    <3>3. CASE ~failed /\ consecutiveSuccesses + 1 >= SuccessThreshold
      <4>1. close
        BY <2>2, <3>3 DEF RecordHalfOpen
      <4>2. Recent' = <<>>
        <5>1. ReadRing(window', 0, FALSE) = <<>>
          BY DEF ReadRing
        <5> QED BY <4>1, <5>1, Zenon DEF close, Recent
      <4>3. CB!SuccessHalfOpen
        BY <3>1, <3>3, <4>1, <4>2 DEF close, CB!SuccessHalfOpen
      <4> QED BY <4>3 DEF CB!ANext
    <3>4. CASE ~failed /\ ~(consecutiveSuccesses + 1 >= SuccessThreshold)
      <4>1. /\ consecutiveSuccesses' = consecutiveSuccesses + 1
            /\ UNCHANGED <<state, elapsed, ring>>
        BY <2>2, <3>4 DEF RecordHalfOpen
      <4>2. Recent' = Recent
        BY <3>1, <4>1, <1>r, <1>q
      <4>3. CB!SuccessHalfOpen
        BY <3>1, <3>4, <4>1, <4>2 DEF CB!SuccessHalfOpen
      <4> QED BY <4>3 DEF CB!ANext
    <3> QED BY <3>2, <3>3, <3>4
  <2>3. CASE RecordOpen(c)
    BY <2>3, <1>s DEF RecordOpen, ring, counters
  <2> QED BY <2>e, <2>1, <2>2, <2>3 DEF failed
<1>5. ASSUME NEW c \in Calls, Panic(c) PROVE UNCHANGED CB!avars
  BY <1>5, <1>s DEF Panic, ring, counters
<1>6. CASE Tick
  <2>1. CB!Cooling
    BY <1>6, <1>r, <1>q DEF Tick, counters, CB!Cooling
  <2> QED BY <2>1 DEF CB!ANext
<1>7. CASE BackendFlips
  BY <1>7, <1>s DEF BackendFlips, ring, counters
<1>8. CASE UNCHANGED vars
  BY <1>8, <1>s DEF vars, ring, counters
<1> QED
  BY <1>1, <1>2, <1>3, <1>4, <1>5, <1>6, <1>7, <1>8
  DEF Next, Allow, ShortCircuit

\* For every configuration, the ring buffer with its counters and concurrent
\* callers implements the abstract breaker: it trips exactly when the last
\* WindowSize results since it closed hold FailureThreshold failures, probes
\* only after the cooldown and closes only on SuccessThreshold non-failures.
THEOREM BreakerRefinement == Spec => ImplementsCircuitBreaker
<1>1. Init => CB!AInit
  BY InitRefines
<1>2. IInv /\ IInv' /\ [Next]_vars => [CB!ANext]_CB!avars
  BY NextRefines
<1> QED BY <1>1, <1>2, Invariance, PTL DEF Spec, ImplementsCircuitBreaker, CB!ASpec
=============================================================================
