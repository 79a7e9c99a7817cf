---------------------------- MODULE CacheProofs ----------------------------
(* What holds of the store and of the transport over it, for every set of    *)
(* keys, every capacity and budget, and every number of callers.             *)
EXTENDS CachingTransport, FiniteSetTheorems, TLAPS

-----------------------------------------------------------------------------
(* Lists without some of their elements.                                      *)

\* The positions that stay.
keptAt(list, K) == {i \in DOMAIN list : list[i] \notin K}

\* How many of a set of positions there are up to one of them.
rankIn(P, i) == Cardinality({h \in P : h <= i})

\* A finite set of positions is numbered by rank: every number up to its size
\* is the rank of exactly one position.
LEMMA Ranks ==
    ASSUME NEW n \in Nat, NEW P \in SUBSET (1..n)
    PROVE  /\ IsFiniteSet(P) /\ Cardinality(P) \in Nat
           /\ \A i \in P : rankIn(P, i) \in 1..Cardinality(P)
           /\ \A i, j \in P : i < j => rankIn(P, i) < rankIn(P, j)
           /\ \A r \in 1..Cardinality(P) : \E i \in P : rankIn(P, i) = r
<1> DEFINE Upto(i) == {h \in P : h <= i}
           N == Cardinality(P)
<1>0. \A i \in P : i \in Int
  OBVIOUS
<1>1. IsFiniteSet(P) /\ N \in Nat
  <2>1. IsFiniteSet(1..n)
    BY FS_Interval
  <2>2. IsFiniteSet(P)
    BY <2>1, FS_Subset
  <2> QED
    BY <2>2, FS_CardinalityType
<1>2. ASSUME NEW i \in P
      PROVE  rankIn(P, i) \in 1..N
  <2>1. Upto(i) \in SUBSET P /\ i \in Upto(i)
    OBVIOUS
  <2>2. IsFiniteSet(Upto(i)) /\ Cardinality(Upto(i)) <= N
    BY <1>1, <2>1, FS_Subset
  <2>3. Cardinality(Upto(i)) \in Nat /\ Cardinality(Upto(i)) # 0
    BY <2>1, <2>2, FS_CardinalityType, FS_EmptySet
  <2> QED
    BY <1>1, <2>2, <2>3 DEF rankIn
<1>3. ASSUME NEW i \in P, NEW j \in P, i < j
      PROVE  rankIn(P, i) < rankIn(P, j)
  <2>1. Upto(i) \in SUBSET Upto(j) /\ Upto(j) \in SUBSET P /\ Upto(i) # Upto(j)
    <3>1. i \in Int /\ j \in Int /\ ~(j <= i) /\ \A h \in P : h <= i => h <= j
      BY <1>0, <1>3
    <3>2. j \in Upto(j) /\ j \notin Upto(i)
      BY <3>1
    <3> QED
      BY <3>1, <3>2
  <2>2. IsFiniteSet(Upto(j))
    BY <1>1, <2>1, FS_Subset
  <2>3. /\ Cardinality(Upto(i)) <= Cardinality(Upto(j))
        /\ Cardinality(Upto(j)) # Cardinality(Upto(i))
    BY <2>1, <2>2, FS_Subset
  <2>4. Cardinality(Upto(i)) \in 1..N /\ Cardinality(Upto(j)) \in 1..N
    BY <1>2 DEF rankIn
  <2> QED
    BY <1>1, <2>3, <2>4 DEF rankIn
<1>4. ASSUME NEW r \in 1..N
      PROVE  \E i \in P : rankIn(P, i) = r
  <2> DEFINE f == [i \in P |-> rankIn(P, i)]
  <2>1. f \in [P -> 1..N]
    BY <1>2
  <2>2. \A i, j \in P : f[i] = f[j] => i = j
    <3> SUFFICES ASSUME NEW i \in P, NEW j \in P, f[i] = f[j], i # j
                 PROVE  FALSE
      OBVIOUS
    <3>1. i < j \/ j < i
      OBVIOUS
    <3>2. rankIn(P, i) \in Int /\ rankIn(P, j) \in Int /\ rankIn(P, i) = rankIn(P, j)
      BY <1>1, <1>2
    <3> QED
      BY <1>3, <3>1, <3>2
  <2>3. f \in Injection(P, 1..N)
    BY <2>1, <2>2 DEF Injection, IsInjective
  <2>4. IsFiniteSet(1..N) /\ Cardinality(1..N) = N
    BY <1>1, FS_Interval
  <2>5. f \in Surjection(P, 1..N)
    BY <2>3, <2>4, FS_Injection
  <2> QED
    BY <2>5 DEF Surjection
<1> QED
  BY <1>1, <1>2, <1>3, <1>4

\* No element twice.
Distinct(list) == \A i, j \in 1..Len(list) : list[i] = list[j] => i = j

\* Sequences are functions.
LEMMA SeqDef == \A S : Seq(S) = UNION {[1..n -> S] : n \in Nat}
OBVIOUS

\* Lists are the same when their elements are.
LEMMA SameSeq ==
    ASSUME NEW S, NEW s \in Seq(S), NEW t \in Seq(S), Len(s) = Len(t),
           \A i \in 1..Len(s) : s[i] = t[i]
    PROVE  s = t
<1>1. s \in [1..Len(s) -> S] /\ t \in [1..Len(s) -> S]
  OBVIOUS
<1> QED
  BY <1>1

\* Where the elements of without come from.
LEMMA WithoutAt ==
    ASSUME NEW S, NEW list \in Seq(S), NEW K
    PROVE  LET P == keptAt(list, K)
               t == without(list, K)
           IN  /\ P \in SUBSET (1..Len(list))
               /\ Cardinality(P) \in Nat
               /\ t \in Seq(S) /\ Len(t) = Cardinality(P)
               /\ \A j \in 1..Len(t) : \E i \in P : rankIn(P, i) = j /\ t[j] = list[i]
               /\ \A i \in P : rankIn(P, i) \in 1..Len(t) /\ t[rankIn(P, i)] = list[i]
<1> DEFINE P == keptAt(list, K)
           N == Cardinality(P)
           at(j) == CHOOSE i \in P : rankIn(P, i) = j
           t == without(list, K)
<1>0. Len(list) \in Nat /\ list \in [1..Len(list) -> S]
  OBVIOUS
<1>1. P \in SUBSET (1..Len(list))
  BY <1>0 DEF keptAt
<1>2. /\ N \in Nat
      /\ \A i \in P : rankIn(P, i) \in 1..N
      /\ \A i, j \in P : i < j => rankIn(P, i) < rankIn(P, j)
      /\ \A r \in 1..N : \E i \in P : rankIn(P, i) = r
  BY <1>0, <1>1, Ranks
<1>3. t = [j \in 1..N |-> list[at(j)]]
  BY DEF without, keptAt, rankIn
<1>4. \A j \in 1..N : at(j) \in P /\ rankIn(P, at(j)) = j
  BY <1>2
<1>5. t \in [1..N -> S]
  BY <1>0, <1>1, <1>3, <1>4
<1>6. t \in Seq(S) /\ Len(t) = N
  BY <1>2, <1>5, SeqDef
<1>7. \A i \in P : at(rankIn(P, i)) = i
  <2> SUFFICES ASSUME NEW i \in P
               PROVE  at(rankIn(P, i)) = i
    OBVIOUS
  <2> DEFINE j == at(rankIn(P, i))
  <2>1. j \in P /\ rankIn(P, j) = rankIn(P, i) /\ rankIn(P, i) \in Int
    BY <1>2, <1>4
  <2>2. i \in Int /\ j \in Int
    BY <1>1, <2>1
  <2>3. ~(i < j) /\ ~(j < i)
    BY <1>2, <2>1
  <2> QED
    BY <2>2, <2>3
<1>8. \A j \in 1..N : \E i \in P : rankIn(P, i) = j /\ t[j] = list[i]
  BY <1>3, <1>4
<1>9. \A i \in P : t[rankIn(P, i)] = list[i]
  <2> SUFFICES ASSUME NEW i \in P
               PROVE  t[rankIn(P, i)] = list[i]
    OBVIOUS
  <2> HIDE DEF at
  <2>1. t[rankIn(P, i)] = list[at(rankIn(P, i))]
    BY <1>2, <1>3
  <2> QED
    BY <1>7, <2>1
<1> QED
  BY <1>1, <1>2, <1>6, <1>8, <1>9

\* What without leaves in a list.
LEMMA WithoutLaw ==
    ASSUME NEW S, NEW list \in Seq(S), NEW K
    PROVE  /\ without(list, K) \in Seq(S)
           /\ ToSet(without(list, K)) = ToSet(list) \ K
           /\ Distinct(list) => Distinct(without(list, K))
<1> DEFINE P == keptAt(list, K)
           t == without(list, K)
<1>1. /\ P \in SUBSET (1..Len(list))
      /\ t \in Seq(S)
      /\ \A j \in 1..Len(t) : \E i \in P : rankIn(P, i) = j /\ t[j] = list[i]
      /\ \A i \in P : rankIn(P, i) \in 1..Len(t) /\ t[rankIn(P, i)] = list[i]
  BY WithoutAt
<1>2. ToSet(t) = {t[j] : j \in 1..Len(t)} /\ ToSet(list) = {list[i] : i \in 1..Len(list)}
  BY <1>1 DEF ToSet
<1>3. ToSet(t) \subseteq ToSet(list) \ K
  BY <1>1, <1>2 DEF keptAt
<1>4. ToSet(list) \ K \subseteq ToSet(t)
  <2> SUFFICES ASSUME NEW i \in 1..Len(list), list[i] \notin K
               PROVE  list[i] \in ToSet(t)
    BY <1>2
  <2>1. i \in P
    BY DEF keptAt
  <2> QED
    BY <1>1, <1>2, <2>1
<1>5. ASSUME Distinct(list)
      PROVE  Distinct(t)
  <2> SUFFICES ASSUME NEW i \in 1..Len(t), NEW j \in 1..Len(t), t[i] = t[j]
               PROVE  i = j
    BY DEF Distinct
  <2>1. PICK p \in P : rankIn(P, p) = i /\ t[i] = list[p]
    BY <1>1
  <2>2. PICK q \in P : rankIn(P, q) = j /\ t[j] = list[q]
    BY <1>1
  <2>3. p = q
    BY <1>1, <1>5, <2>1, <2>2 DEF Distinct
  <2> QED
    BY <2>1, <2>2, <2>3
<1> QED
  BY <1>1, <1>3, <1>4, <1>5

\* Taking away the back of a list leaves its front.
LEMMA WithoutBack ==
    ASSUME NEW S, NEW list \in Seq(S), NEW K, NEW m \in 0..Len(list),
           keptAt(list, K) = 1..m
    PROVE  without(list, K) = SubSeq(list, 1, m) /\ Len(without(list, K)) = m
<1> DEFINE t == without(list, K)
           u == SubSeq(list, 1, m)
<1>1. m \in Nat /\ Cardinality(1..m) = m
  BY FS_Interval
<1>2. \A i \in 1..m : rankIn(1..m, i) = i
  <2> SUFFICES ASSUME NEW i \in 1..m
               PROVE  rankIn(1..m, i) = i
    OBVIOUS
  <2>1. {h \in 1..m : h <= i} = 1..i
    OBVIOUS
  <2>2. Cardinality(1..i) = i
    BY FS_Interval
  <2> QED
    BY <2>1, <2>2 DEF rankIn
<1>3. t \in Seq(S) /\ Len(t) = m /\ \A i \in 1..m : t[rankIn(1..m, i)] = list[i]
  BY <1>1, WithoutAt
<1>4. u \in Seq(S) /\ Len(u) = m /\ \A i \in 1..m : u[i] = list[i]
  BY <1>1
<1>6. ASSUME NEW i \in 1..m
      PROVE  t[i] = u[i]
  <2>1. rankIn(1..m, i) = i
    BY <1>2
  <2>2. t[rankIn(1..m, i)] = list[i]
    BY <1>3
  <2> QED
    BY <1>4, <2>1, <2>2
<1> HIDE DEF t, u
<1>7. t = u
  BY <1>3, <1>4, <1>6, SameSeq
<1> QED
  BY <1>3, <1>7 DEF t, u

-----------------------------------------------------------------------------
(* Bytes.                                                                     *)

\* The bytes that bytesOf counts.
slots(items, S) == UNION {{k} \X (1..entrySize(items[k])) : k \in S}

\* How many numbers there are up to n.
LEMMA UpTo == \A n \in Nat : IsFiniteSet(1..n) /\ Cardinality(1..n) = n
BY FS_Interval

\* A finite set of entries takes finitely many bytes.
LEMMA BytesFinite ==
    ASSUME NEW S, IsFiniteSet(S), NEW items, \A k \in S : items[k].size \in Nat
    PROVE  IsFiniteSet(slots(items, S)) /\ bytesOf(items, S) \in Nat
<1> DEFINE f == [k \in S |-> {k} \X (1..entrySize(items[k]))]
           T == {{k} \X (1..entrySize(items[k])) : k \in S}
<1>1. f \in Surjection(S, T)
  BY DEF Surjection
<1>2. IsFiniteSet(T)
  BY <1>1, FS_Surjection
<1>3. ASSUME NEW k \in S
      PROVE  IsFiniteSet({k} \X (1..entrySize(items[k])))
  <2>1. IsFiniteSet({k}) /\ IsFiniteSet(1..items[k].size)
    BY FS_Singleton, UpTo, Zenon
  <2> QED
    BY <2>1, FS_Product, Zenon DEF entrySize
<1>4. IsFiniteSet(UNION T)
  BY <1>2, <1>3, FS_UNION
<1> QED
  BY <1>4, FS_CardinalityType DEF slots, bytesOf

\* One entry takes its size.
LEMMA BytesOne ==
    ASSUME NEW k, NEW items, items[k].size \in Nat
    PROVE  bytesOf(items, {k}) = items[k].size
<1> DEFINE n == items[k].size
<1>1. UNION {{x} \X (1..entrySize(items[x])) : x \in {k}} = {k} \X (1..n)
  BY DEF entrySize
<1>2. IsFiniteSet({k}) /\ Cardinality({k}) = 1
  BY FS_Singleton
<1>3. IsFiniteSet(1..n) /\ Cardinality(1..n) = n
  BY UpTo, Zenon
<1>4. Cardinality({k} \X (1..n)) = Cardinality({k}) * Cardinality(1..n)
  BY <1>2, <1>3, FS_Product, Zenon
<1>5. bytesOf(items, {k}) = Cardinality({k} \X (1..n))
  BY <1>1 DEF bytesOf
<1>6. bytesOf(items, {k}) = 1 * n
  BY <1>2, <1>3, <1>4, <1>5
<1> QED
  BY <1>6

\* Entries under different keys share no bytes.
LEMMA BytesAdd ==
    ASSUME NEW S, IsFiniteSet(S), NEW T, IsFiniteSet(T), S \cap T = {},
           NEW items, \A k \in S \cup T : items[k].size \in Nat
    PROVE  bytesOf(items, S \cup T) = bytesOf(items, S) + bytesOf(items, T)
<1> DEFINE A == slots(items, S)
           B == slots(items, T)
<1>1. IsFiniteSet(A) /\ IsFiniteSet(B)
  BY BytesFinite
<1>2. slots(items, S \cup T) = A \cup B
  BY DEF slots
<1>3. A \cap B = {}
  BY DEF slots
<1>4. Cardinality(A \cup B) = Cardinality(A) + Cardinality(B) - Cardinality(A \cap B)
  BY <1>1, FS_Union
<1>5. Cardinality(A \cap B) = 0
  BY <1>3, FS_EmptySet
<1>6. Cardinality(A) \in Nat /\ Cardinality(B) \in Nat
  BY <1>1, FS_CardinalityType
<1>7. Cardinality(A \cup B) = Cardinality(A) + Cardinality(B)
  BY <1>4, <1>5, <1>6
<1> QED
  BY <1>2, <1>7 DEF slots, bytesOf

\* Sizes are all that counts.
LEMMA BytesSame ==
    ASSUME NEW S, NEW items, NEW others, \A k \in S : items[k].size = others[k].size
    PROVE  bytesOf(items, S) = bytesOf(others, S)
<1>1. {{k} \X (1..entrySize(items[k])) : k \in S} = {{k} \X (1..entrySize(others[k])) : k \in S}
  BY DEF entrySize
<1> QED
  BY <1>1 DEF bytesOf

\* What is left when some entries go.
LEMMA BytesLeft ==
    ASSUME NEW S, IsFiniteSet(S), NEW T, T \subseteq S,
           NEW items, \A k \in S : items[k].size \in Nat
    PROVE  /\ bytesOf(items, S) \in Nat /\ bytesOf(items, T) \in Nat
           /\ bytesOf(items, S \ T) \in Nat
           /\ bytesOf(items, S \ T) = bytesOf(items, S) - bytesOf(items, T)
<1>1. IsFiniteSet(T) /\ IsFiniteSet(S \ T)
  BY FS_Subset, FS_Difference
<1>2. S = (S \ T) \cup T /\ (S \ T) \cap T = {}
  OBVIOUS
<1>3. bytesOf(items, (S \ T) \cup T) = bytesOf(items, S \ T) + bytesOf(items, T)
  BY <1>1, <1>2, BytesAdd
<1>4. /\ bytesOf(items, S \ T) \in Nat /\ bytesOf(items, T) \in Nat
      /\ bytesOf(items, S) \in Nat
  BY <1>1, BytesFinite
<1>5. bytesOf(items, S) = bytesOf(items, S \ T) + bytesOf(items, T)
  BY <1>2, <1>3
<1> QED
  BY <1>4, <1>5

-----------------------------------------------------------------------------
(* The store.                                                                 *)

Entries == [body : Nat, created : Nat, TTL : Nat, SWR : Nat, size : Nat]

Maps == UNION {[S -> Entries] : S \in SUBSET Keys}

\* A store whose list, map and byte counter agree.
Sound(s) ==
    /\ s \in [order : Seq(Keys), items : Maps, bytes : Nat]
    /\ Distinct(s.order)
    /\ ToSet(s.order) = DOMAIN s.items
    /\ s.bytes = bytesOf(s.items, DOMAIN s.items)

\* A list without repetitions has as many members as elements.
LEMMA DistinctCount ==
    ASSUME NEW S, NEW list \in Seq(S), Distinct(list)
    PROVE  IsFiniteSet(ToSet(list)) /\ Cardinality(ToSet(list)) = Len(list)
<1>1. Len(list) \in Nat /\ list \in [1..Len(list) -> S]
  OBVIOUS
<1>2. ToSet(list) = {list[i] : i \in 1..Len(list)}
  BY <1>1 DEF ToSet
<1>3. list \in Bijection(1..Len(list), ToSet(list))
  <2>1. list \in [1..Len(list) -> ToSet(list)]
    BY <1>1, <1>2
  <2> QED
    BY <1>2, <2>1 DEF Bijection, Injection, Surjection, IsInjective, Distinct
<1>4. ExistsBijection(1..Len(list), ToSet(list))
  BY <1>3 DEF ExistsBijection
<1>5. IsFiniteSet(1..Len(list)) /\ Cardinality(1..Len(list)) = Len(list)
  BY <1>1, FS_Interval
<1> QED
  BY <1>4, <1>5, FS_Bijection

\* What a sound store's map holds.
LEMMA SoundItems ==
    ASSUME NEW s, Sound(s)
    PROVE  /\ DOMAIN s.items \subseteq Keys
           /\ s.items \in [DOMAIN s.items -> Entries]
           /\ \A k \in DOMAIN s.items : s.items[k] \in Entries /\ s.items[k].size \in Nat
           /\ IsFiniteSet(DOMAIN s.items) /\ Cardinality(DOMAIN s.items) = Len(s.order)
           /\ Len(s.order) \in Nat
<1>1. s.items \in Maps /\ s.order \in Seq(Keys)
  BY DEF Sound
<1>2. PICK S \in SUBSET Keys : s.items \in [S -> Entries]
  BY <1>1 DEF Maps
<1>3. DOMAIN s.items = S
  BY <1>2
<1>4. \A k \in S : s.items[k] \in Entries /\ s.items[k].size \in Nat
  BY <1>2 DEF Entries
<1> QED
  BY <1>1, <1>2, <1>3, <1>4, DistinctCount DEF Sound

\* The clamp of evictElement does nothing to a count that is not negative.
LEMMA MaxZero == \A a \in Nat : Max({0, a}) = a
<1> SUFFICES ASSUME NEW a \in Nat
             PROVE  Max({0, a}) = a
  OBVIOUS
<1>1. a \in {0, a} /\ \A y \in {0, a} : a >= y
  OBVIOUS
<1>2. \A x \in {0, a} : (\A y \in {0, a} : x >= y) => x = a
  OBVIOUS
<1> QED
  BY <1>1, <1>2 DEF Max

\* Evicting elements leaves the rest of a sound store, sound.
LEMMA EvictLaw ==
    ASSUME NEW s, Sound(s), NEW K, K \subseteq DOMAIN s.items
    PROVE  /\ Sound(evictElements(s, K))
           /\ evictElements(s, K).order = without(s.order, K)
           /\ evictElements(s, K).items = [x \in DOMAIN s.items \ K |-> s.items[x]]
           /\ evictElements(s, K).bytes = bytesOf(s.items, DOMAIN s.items \ K)
<1> DEFINE D == DOMAIN s.items
           rest == [x \in D \ K |-> s.items[x]]
           t == evictElements(s, K)
<1>1. /\ D \subseteq Keys /\ IsFiniteSet(D)
      /\ \A k \in D : s.items[k] \in Entries /\ s.items[k].size \in Nat
  BY SoundItems
<1>2. /\ bytesOf(s.items, D \ K) \in Nat
      /\ bytesOf(s.items, D) - bytesOf(s.items, K) = bytesOf(s.items, D \ K)
  BY <1>1, BytesLeft
<1>3. s.bytes - bytesOf(s.items, K) = bytesOf(s.items, D \ K)
  BY <1>2 DEF Sound
<1>4. Max({0, s.bytes - bytesOf(s.items, K)}) = bytesOf(s.items, D \ K)
  BY <1>2, <1>3, MaxZero
<1>5. t = [order |-> without(s.order, K), items |-> rest, bytes |-> bytesOf(s.items, D \ K)]
  BY <1>4 DEF evictElements, Restrict
<1>6. rest \in Maps /\ DOMAIN rest = D \ K
  <2>1. rest \in [D \ K -> Entries] /\ D \ K \in SUBSET Keys
    BY <1>1
  <2> QED
    BY <2>1 DEF Maps
<1>7. bytesOf(rest, D \ K) = bytesOf(s.items, D \ K)
  BY BytesSame
<1>8. /\ without(s.order, K) \in Seq(Keys) /\ Distinct(without(s.order, K))
      /\ ToSet(without(s.order, K)) = D \ K
  BY WithoutLaw DEF Sound
<1> HIDE DEF rest, D
<1>9. Sound(t)
  BY <1>2, <1>5, <1>6, <1>7, <1>8 DEF Sound
<1> QED
  BY <1>5, <1>6, <1>9 DEF rest, D

\* One more in front of a list.
LEMMA FrontSet ==
    ASSUME NEW list \in Seq(Keys), NEW k \in Keys
    PROVE  LET t == <<k>> \o list
               n == Len(list)
           IN  /\ t \in Seq(Keys) /\ Len(t) = n + 1 /\ n \in Nat
               /\ t[1] = k /\ \A i \in 2..n + 1 : t[i] = list[i - 1]
               /\ ToSet(t) = {k} \cup ToSet(list)
<1> DEFINE t == <<k>> \o list
           n == Len(list)
<1>1. n \in Nat /\ ToSet(list) = {list[i] : i \in 1..n}
  BY DEF ToSet
<1>2. t \in Seq(Keys) /\ Len(t) = n + 1
  OBVIOUS
<1>3. t[1] = k /\ \A i \in 2..n + 1 : t[i] = list[i - 1]
  OBVIOUS
<1> HIDE DEF t
<1>4. ToSet(t) = {t[i] : i \in 1..n + 1}
  BY <1>2 DEF ToSet
<1>5. \A i \in 1..n : list[i] = t[i + 1] /\ i + 1 \in 1..n + 1
  BY <1>1, <1>3
<1>6. \A i \in 1..n + 1 : i = 1 \/ (i \in 2..n + 1 /\ i - 1 \in 1..n)
  BY <1>1
<1>7. ToSet(t) = {k} \cup ToSet(list)
  <2>1. ToSet(t) \subseteq ToSet(list) \cup {k}
    BY <1>1, <1>3, <1>4, <1>6
  <2>2. ToSet(list) \subseteq ToSet(t)
    BY <1>1, <1>4, <1>5
  <2>3. k \in ToSet(t)
    BY <1>1, <1>3, <1>4
  <2> QED
    BY <2>1, <2>2, <2>3
<1> QED
  BY <1>1, <1>2, <1>3, <1>7 DEF t

\* It is distinct if that one is new.
LEMMA FrontLaw ==
    ASSUME NEW list \in Seq(Keys), Distinct(list), NEW k \in Keys, k \notin ToSet(list)
    PROVE  Distinct(<<k>> \o list)
<1> DEFINE t == <<k>> \o list
           n == Len(list)
<1>1. n \in Nat /\ ToSet(list) = {list[i] : i \in 1..n}
  BY DEF ToSet
<1>2. Len(t) = n + 1 /\ t[1] = k /\ \A i \in 2..n + 1 : t[i] = list[i - 1]
  OBVIOUS
<1>3. \A i \in 1..n + 1 : i = 1 \/ (i \in 2..n + 1 /\ i - 1 \in 1..n)
  BY <1>1
<1> HIDE DEF t
<1>4. Distinct(t)
  <2> SUFFICES ASSUME NEW i \in 1..n + 1, NEW j \in 1..n + 1, t[i] = t[j]
               PROVE  i = j
    BY <1>2 DEF Distinct
  <2>1. CASE i = 1 /\ j = 1
    BY <2>1
  <2>2. CASE i # 1 /\ j # 1
    <3>1. i - 1 = j - 1
      BY <1>2, <1>3, <2>2 DEF Distinct
    <3> QED
      BY <1>1, <3>1
  <2>3. CASE i = 1 /\ j # 1
    BY <1>1, <1>2, <1>3, <2>3
  <2>4. CASE i # 1 /\ j = 1
    BY <1>1, <1>2, <1>3, <2>4
  <2> QED
    BY <2>1, <2>2, <2>3, <2>4
<1> QED
  BY <1>4 DEF t

\* A hit changes nothing but the order.
LEMMA MoveLaw ==
    ASSUME NEW s, Sound(s), NEW k \in DOMAIN s.items
    PROVE  /\ Sound(moveToFront(s, k))
           /\ moveToFront(s, k).items = s.items
<1> DEFINE rest == without(s.order, {k})
           t == moveToFront(s, k)
<1>1. k \in Keys
  BY SoundItems
<1>2. rest \in Seq(Keys) /\ Distinct(rest) /\ ToSet(rest) = DOMAIN s.items \ {k}
  BY WithoutLaw DEF Sound
<1>3. /\ <<k>> \o rest \in Seq(Keys) /\ Distinct(<<k>> \o rest)
      /\ ToSet(<<k>> \o rest) = DOMAIN s.items
  <2> HIDE DEF rest
  <2>1. k \notin ToSet(rest) /\ {k} \cup ToSet(rest) = DOMAIN s.items
    BY <1>2
  <2> QED
    BY <1>1, <1>2, <2>1, FrontSet, FrontLaw
<1>4. t = [order |-> <<k>> \o rest, items |-> s.items, bytes |-> s.bytes]
  <2>1. t = [s EXCEPT !.order = <<k>> \o rest]
    BY DEF moveToFront
  <2>2. s \in [order : Seq(Keys), items : Maps, bytes : Nat]
    BY DEF Sound
  <2> HIDE DEF rest, t
  <2> QED
    BY <2>1, <2>2
<1> HIDE DEF rest
<1> QED
  BY <1>3, <1>4 DEF Sound

\* The map with one more entry.
LEMMA WithLaw ==
    ASSUME NEW items \in Maps, IsFiniteSet(DOMAIN items), NEW k \in Keys, NEW e \in Entries
    PROVE  /\ with(items, k, e) \in Maps
           /\ DOMAIN with(items, k, e) = DOMAIN items \cup {k}
           /\ bytesOf(items, DOMAIN items \ {k}) \in Nat
           /\ bytesOf(with(items, k, e), DOMAIN items \cup {k}) =
                  bytesOf(items, DOMAIN items \ {k}) + e.size
<1> DEFINE new == with(items, k, e)
           D == DOMAIN items
<1>1. PICK S \in SUBSET Keys : items \in [S -> Entries]
  BY DEF Maps
<1>2. S = D
  BY <1>1
<1>3. /\ DOMAIN new = D \cup {k}
      /\ new[k] = e /\ \A x \in D \ {k} : new[x] = items[x]
  BY DEF with
<1>4. \A x \in D : items[x] \in Entries /\ items[x].size \in Nat
  BY <1>1, <1>2 DEF Entries
<1>5. e.size \in Nat
  BY DEF Entries
<1>6. new \in [D \cup {k} -> Entries] /\ D \cup {k} \in SUBSET Keys
  BY <1>1, <1>2, <1>4 DEF with
<1>7. new \in Maps
  BY <1>6 DEF Maps
<1>8. IsFiniteSet(D \ {k}) /\ IsFiniteSet({k})
  BY FS_RemoveElement, FS_Singleton
<1>9. bytesOf(items, D \ {k}) \in Nat
  BY <1>4, <1>8, BytesFinite
<1>10. bytesOf(new, D \ {k}) = bytesOf(items, D \ {k})
  BY <1>3, BytesSame
<1>11. bytesOf(new, {k}) = e.size
  BY <1>3, <1>5, BytesOne
<1>12. \A x \in (D \ {k}) \cup {k} : new[x].size \in Nat
  BY <1>3, <1>4, <1>5
<1>13. bytesOf(new, (D \ {k}) \cup {k}) = bytesOf(new, D \ {k}) + bytesOf(new, {k})
  BY <1>8, <1>12, BytesAdd
<1>14. (D \ {k}) \cup {k} = D \cup {k}
  OBVIOUS
<1> QED
  BY <1>3, <1>7, <1>9, <1>10, <1>11, <1>13, <1>14

\* Without what is not there, a list is the same.
LEMMA WithoutNone ==
    ASSUME NEW S, NEW list \in Seq(S), NEW k, k \notin ToSet(list)
    PROVE  without(list, {k}) = list
<1>1. Len(list) \in Nat /\ Len(list) \in 0..Len(list)
  OBVIOUS
<1>2. keptAt(list, {k}) = 1..Len(list)
  BY DEF keptAt, ToSet
<1>3. without(list, {k}) = SubSeq(list, 1, Len(list))
  BY <1>1, <1>2, WithoutBack
<1>4. SubSeq(list, 1, Len(list)) = list
  OBVIOUS
<1> QED
  BY <1>3, <1>4

\* The insertion, before anything is evicted: k is in front with its new entry.
LEMMA InsertLaw ==
    ASSUME NEW s, Sound(s), NEW k \in Keys, NEW e \in Entries
    PROVE  LET t == inserted(s, k, e)
           IN  /\ Sound(t)
               /\ t.order = <<k>> \o without(s.order, {k})
               /\ t.items = with(s.items, k, e)
<1> DEFINE D == DOMAIN s.items
           rest == without(s.order, {k})
           new == with(s.items, k, e)
           t == inserted(s, k, e)
<1>0. /\ s \in [order : Seq(Keys), items : Maps, bytes : Nat]
      /\ s.bytes = bytesOf(s.items, D)
  BY DEF Sound
<1>1. /\ IsFiniteSet(D) /\ s.items \in Maps
      /\ \A x \in D : s.items[x] \in Entries /\ s.items[x].size \in Nat
  BY SoundItems DEF Sound
<1>2. /\ new \in Maps /\ DOMAIN new = D \cup {k}
      /\ bytesOf(s.items, D \ {k}) \in Nat
      /\ bytesOf(new, D \cup {k}) = bytesOf(s.items, D \ {k}) + e.size
  BY <1>1, WithLaw
<1>3. rest \in Seq(Keys) /\ Distinct(rest) /\ ToSet(rest) = D \ {k}
  BY WithoutLaw DEF Sound
<1>4. /\ <<k>> \o rest \in Seq(Keys) /\ Distinct(<<k>> \o rest)
      /\ ToSet(<<k>> \o rest) = D \cup {k}
  <2> HIDE DEF rest
  <2>1. k \notin ToSet(rest) /\ {k} \cup ToSet(rest) = D \cup {k}
    BY <1>3
  <2> QED
    BY <1>3, <2>1, FrontSet, FrontLaw
<1>5. e.size \in Nat
  BY DEF Entries
<1> DEFINE result == [order |-> <<k>> \o rest, items |-> new,
                      bytes |-> bytesOf(new, D \cup {k})]
<1>r. Sound(result) /\ result.order = <<k>> \o rest /\ result.items = new
  <2> HIDE DEF new, rest, D
  <2>1. bytesOf(new, D \cup {k}) \in Nat
    BY <1>2, <1>5
  <2> QED
    BY <1>2, <1>4, <2>1 DEF Sound
<1>6. CASE k \in D
  <2>1. /\ bytesOf(s.items, D \ {k}) = bytesOf(s.items, D) - bytesOf(s.items, {k})
        /\ bytesOf(s.items, {k}) = s.items[k].size /\ s.items[k].size \in Nat
    BY <1>1, <1>6, BytesLeft, BytesOne
  <2>2. s.bytes + entrySize(e) - entrySize(s.items[k]) = bytesOf(new, D \cup {k})
    <3> HIDE DEF new, D
    <3>1. bytesOf(s.items, D) \in Nat
      BY <1>0
    <3> QED
      BY <1>0, <1>2, <1>5, <2>1, <3>1 DEF entrySize
  <2>3. t = replace(s, k, e)
    BY <1>6 DEF inserted
  <2> DEFINE mid == [s EXCEPT !.items = with(@, k, e),
                              !.bytes = @ + entrySize(e) - entrySize(s.items[k])]
  <2>4. mid = [order |-> s.order, items |-> new, bytes |-> bytesOf(new, D \cup {k})]
    <3>1. mid = [s EXCEPT !.items = new, !.bytes = bytesOf(new, D \cup {k})]
      BY <1>0, <2>2
    <3> HIDE DEF new, D, mid
    <3> QED
      BY <1>0, <3>1
  <2>5. t = [mid EXCEPT !.order = <<k>> \o without(mid.order, {k})]
    BY <2>3 DEF replace, moveToFront
  <2> HIDE DEF mid, new, t
  <2>6. t = [mid EXCEPT !.order = <<k>> \o rest]
    BY <2>4, <2>5
  <2> HIDE DEF rest, D
  <2>7. t = result
    BY <2>4, <2>6
  <2> QED
    BY <1>r, <2>7 DEF t, new, rest
<1>7. CASE k \notin D
  <2>1. rest = s.order
    BY <1>7, WithoutNone DEF Sound
  <2>2. D \ {k} = D
    BY <1>7
  <2>3. t = [order |-> <<k>> \o s.order, items |-> new, bytes |-> s.bytes + e.size]
    BY <1>7 DEF inserted, pushFront, entrySize
  <2> HIDE DEF rest, new, t, D
  <2>4. t = result
    BY <1>0, <1>2, <2>1, <2>2, <2>3
  <2> QED
    BY <1>r, <2>4 DEF t, new, rest
<1> QED
  BY <1>6, <1>7

\* The elements that n turns of the loop take.
oldest(s, n) == {s.order[i] : i \in Len(s.order) - n + 1 .. Len(s.order)}

\* After n turns the front of the list is left.
LEMMA OldestLaw ==
    ASSUME NEW s, Sound(s), NEW n \in 0..Len(s.order)
    PROVE  /\ Sound(evictOldest(s, n))
           /\ evictOldest(s, n).order = SubSeq(s.order, 1, Len(s.order) - n)
           /\ Len(evictOldest(s, n).order) = Len(s.order) - n
           /\ evictOldest(s, n).items = [x \in DOMAIN s.items \ oldest(s, n) |-> s.items[x]]
           /\ evictOldest(s, n).bytes = bytesOf(s.items, DOMAIN s.items \ oldest(s, n))
           /\ DOMAIN s.items \ oldest(s, n) = ToSet(SubSeq(s.order, 1, Len(s.order) - n))
<1> DEFINE K == oldest(s, n)
           m == Len(s.order) - n
           t == evictElements(s, K)
<1>0. /\ s.order \in Seq(Keys) /\ Distinct(s.order) /\ Len(s.order) \in Nat
      /\ ToSet(s.order) = DOMAIN s.items
      /\ ToSet(s.order) = {s.order[i] : i \in 1..Len(s.order)}
  BY DEF Sound, ToSet
<1>1. n \in Nat /\ m \in 0..Len(s.order) /\ m \in Nat
  BY <1>0
<1>2. evictOldest(s, n) = t
  BY DEF evictOldest, oldest
<1>3. K \subseteq DOMAIN s.items
  BY <1>0, <1>1 DEF oldest
<1>4. keptAt(s.order, K) = 1..m
  <2>1. ASSUME NEW i \in 1..m
        PROVE  i \in keptAt(s.order, K)
    <3>1. i \in 1..Len(s.order)
      BY <1>0, <1>1
    <3>2. ASSUME NEW j \in m + 1 .. Len(s.order)
          PROVE  s.order[i] # s.order[j]
      BY <1>0, <1>1, <3>1 DEF Distinct
    <3> QED
      BY <1>0, <3>1, <3>2 DEF keptAt, oldest
  <2>2. ASSUME NEW i \in 1..Len(s.order), i \notin 1..m
        PROVE  s.order[i] \in K
    <3>1. i \in m + 1 .. Len(s.order)
      BY <1>0, <1>1, <2>2
    <3> QED
      BY <3>1 DEF oldest
  <2> QED
    BY <1>0, <2>1, <2>2 DEF keptAt
<1> HIDE DEF K, m
<1>5. without(s.order, K) = SubSeq(s.order, 1, m) /\ Len(without(s.order, K)) = m
  BY <1>0, <1>1, <1>4, WithoutBack
<1>6. /\ Sound(t)
      /\ t.order = without(s.order, K)
      /\ t.items = [x \in DOMAIN s.items \ K |-> s.items[x]]
      /\ t.bytes = bytesOf(s.items, DOMAIN s.items \ K)
  BY <1>3, EvictLaw
<1>7. ToSet(t.order) = DOMAIN s.items \ K
  BY <1>6 DEF Sound
<1> QED
  BY <1>2, <1>5, <1>6, <1>7 DEF K, m

\* The loop ends, within budget, and not later than it has to.
LEMMA BudgetLaw ==
    ASSUME NEW s, Sound(s)
    PROVE  \E n \in 0..Len(s.order) :
              /\ evictToBudget(s) = evictOldest(s, n)
              /\ ~overBudget(evictOldest(s, n))
              /\ \A m \in 0..Len(s.order) : ~overBudget(evictOldest(s, m)) => n <= m
<1> DEFINE N == Len(s.order)
           P == {p \in 1..N + 1 : ~overBudget(evictOldest(s, p - 1))}
           all == {evictOldest(s, n) : n \in 0..N}
           within == {t \in all : ~overBudget(t)}
           Longest(t) == \A u \in within : Len(u.order) <= Len(t.order)
<1>0. N \in Nat
  BY SoundItems
<1>1. \A n \in 0..N : Len(evictOldest(s, n).order) = N - n
  BY OldestLaw
<1>2. ~overBudget(evictOldest(s, N))
  <2>1. N \in 0..N
    BY <1>0
  <2>2. Len(evictOldest(s, N).order) = 0
    BY <1>0, <1>1, <2>1
  <2> HIDE DEF N
  <2> QED
    BY <2>2, StoreAssumption DEF overBudget
<1> HIDE DEF N
<1>3. P \in SUBSET (1..N + 1) /\ N + 1 \in P
  BY <1>0, <1>2
<1>4. PICK q \in P : \A p \in P : q <= p
  <2>0. N + 1 \in Nat
    BY <1>0
  <2> HIDE DEF P
  <2>1. /\ IsFiniteSet(P) /\ Cardinality(P) \in Nat
        /\ \A i \in P : rankIn(P, i) \in 1..Cardinality(P)
        /\ \A i, j \in P : i < j => rankIn(P, i) < rankIn(P, j)
        /\ \A r \in 1..Cardinality(P) : \E i \in P : rankIn(P, i) = r
    BY <1>3, <2>0, Ranks
  <2>2. 1 \in 1..Cardinality(P)
    BY <1>3, <2>1, FS_EmptySet
  <2>3. PICK q \in P : rankIn(P, q) = 1
    BY <2>1, <2>2
  <2>4. ASSUME NEW p \in P, p < q
        PROVE  FALSE
    BY <2>1, <2>3, <2>4
  <2>5. \A p \in P : p \in Int
    BY <1>3
  <2> QED
    BY <2>3, <2>4, <2>5
<1>5. /\ q - 1 \in 0..N /\ ~overBudget(evictOldest(s, q - 1))
      /\ \A m \in 0..N : ~overBudget(evictOldest(s, m)) => q - 1 <= m
  <2>1. q \in 1..N + 1 /\ ~overBudget(evictOldest(s, q - 1))
    OBVIOUS
  <2>2. ASSUME NEW m \in 0..N, ~overBudget(evictOldest(s, m))
        PROVE  q - 1 <= m
    <3>1. m + 1 \in 1..N + 1 /\ (m + 1) - 1 = m
      BY <1>0
    <3>2. m + 1 \in P
      BY <2>2, <3>1
    <3>3. q <= m + 1
      BY <1>4, <3>2
    <3> QED
      BY <1>0, <2>1, <3>3
  <2> QED
    BY <1>0, <2>1, <2>2
<1>6. \E t \in within : Longest(t)
  <2> DEFINE t == evictOldest(s, q - 1)
  <2>1. t \in within
    BY <1>5
  <2>2. ASSUME NEW u \in within
        PROVE  Len(u.order) <= Len(t.order)
    <3>1. PICK m \in 0..N : u = evictOldest(s, m)
      OBVIOUS
    <3>2. q - 1 <= m
      BY <1>5, <3>1
    <3>3. Len(u.order) = N - m /\ Len(t.order) = N - (q - 1)
      BY <1>1, <1>5, <3>1
    <3> QED
      BY <1>0, <1>5, <3>2, <3>3
  <2> QED
    BY <2>1, <2>2
<1>7. evictToBudget(s) \in within /\ Longest(evictToBudget(s))
  BY <1>6 DEF evictToBudget, N
<1>8. PICK n \in 0..N : evictToBudget(s) = evictOldest(s, n)
  BY <1>7
<1>9. ASSUME NEW m \in 0..N, ~overBudget(evictOldest(s, m))
      PROVE  n <= m
  <2>1. evictOldest(s, m) \in within
    BY <1>9
  <2>2. N - m <= N - n
    BY <1>1, <1>7, <1>8, <2>1
  <2> QED
    BY <1>0, <2>2
<1> QED
  BY <1>7, <1>8, <1>9 DEF N

-----------------------------------------------------------------------------
(* The operations.                                                            *)

\* The store of the next state holds nothing new.
Shrinks ==
    /\ DOMAIN store'.items \subseteq DOMAIN store.items
    /\ \A x \in DOMAIN store'.items : store'.items[x] = store.items[x]

\* The invariant of the store.
StoreInv == Sound(store) /\ WithinBudget /\ now \in Nat

\* InTandem is soundness without the types.
LEMMA SoundInTandem == Sound(store) => InTandem
BY DEF Sound, InTandem, Distinct

\* WithinBudget of any store.
Fits(s) ==
    /\ Cardinality(DOMAIN s.items) <= capacity
    /\ \/ bytesOf(s.items, DOMAIN s.items) <= maxBytes
       \/ Cardinality(DOMAIN s.items) <= 1

\* WithinBudget says that the store fits, now and in the next state.
LEMMA FitsIsWithin == (WithinBudget <=> Fits(store)) /\ (WithinBudget' <=> Fits(store'))
BY DEF WithinBudget, Fits

\* A store that is not over budget fits.
LEMMA NotOver ==
    ASSUME NEW s, Sound(s), ~overBudget(s)
    PROVE  Fits(s)
<1>1. /\ Cardinality(DOMAIN s.items) = Len(s.order) /\ Len(s.order) \in Nat
      /\ s.bytes = bytesOf(s.items, DOMAIN s.items) /\ s.bytes \in Nat
  BY SoundItems DEF Sound
<1> QED
  BY <1>1, StoreAssumption DEF overBudget, Fits

\* What only loses entries stays within budget.
LEMMA ShrinksLaw ==
    ASSUME StoreInv, Sound(store'), Shrinks
    PROVE  WithinBudget'
<1> DEFINE D == DOMAIN store.items
           E == DOMAIN store'.items
<1>1. /\ IsFiniteSet(D) /\ \A x \in D : store.items[x].size \in Nat
      /\ E \subseteq D /\ \A x \in E : store'.items[x] = store.items[x]
  BY SoundItems DEF StoreInv, Shrinks
<1>2. /\ Cardinality(D) \in Nat /\ Cardinality(E) \in Nat /\ Cardinality(E) <= Cardinality(D)
  BY <1>1, FS_Subset, FS_CardinalityType
<1>3. bytesOf(store'.items, E) = bytesOf(store.items, E)
  BY <1>1, BytesSame
<1>4. D \ (D \ E) = E
  BY <1>1
<1>5. /\ bytesOf(store.items, D) \in Nat /\ bytesOf(store.items, D \ E) \in Nat
      /\ bytesOf(store.items, E) \in Nat
      /\ bytesOf(store.items, E) = bytesOf(store.items, D) - bytesOf(store.items, D \ E)
  <2>1. D \ E \subseteq D
    OBVIOUS
  <2> HIDE DEF D, E
  <2>2. /\ bytesOf(store.items, D) \in Nat /\ bytesOf(store.items, D \ E) \in Nat
        /\ bytesOf(store.items, D \ (D \ E)) \in Nat
        /\ bytesOf(store.items, D \ (D \ E)) =
              bytesOf(store.items, D) - bytesOf(store.items, D \ E)
    BY <1>1, <2>1, BytesLeft
  <2> QED
    BY <1>4, <2>2
<1>6. /\ Cardinality(D) <= capacity
      /\ bytesOf(store.items, D) <= maxBytes \/ Cardinality(D) <= 1
  BY DEF StoreInv, WithinBudget
<1> HIDE DEF D, E
<1>7. Cardinality(E) <= capacity
  BY <1>2, <1>6, StoreAssumption
<1>8. bytesOf(store'.items, E) <= maxBytes \/ Cardinality(E) <= 1
  BY <1>2, <1>3, <1>5, <1>6, StoreAssumption
<1> QED
  BY <1>7, <1>8, FitsIsWithin DEF Fits, E

\* evictElements loses its elements and nothing else.
LEMMA EvictStep ==
    ASSUME Sound(store), NEW K, K \subseteq DOMAIN store.items,
           store' = evictElements(store, K)
    PROVE  Sound(store') /\ Shrinks /\ DOMAIN store'.items = DOMAIN store.items \ K
<1> DEFINE t == evictElements(store, K)
<1>1. Sound(t) /\ t.items = [x \in DOMAIN store.items \ K |-> store.items[x]]
  BY EvictLaw
<1>2. store' = t
  OBVIOUS
<1> HIDE DEF t
<1> QED
  BY <1>1, <1>2 DEF Shrinks

\* Get adds nothing.
LEMMA GetStep ==
    ASSUME Sound(store), NEW k, Get(k)
    PROVE  Sound(store') /\ Shrinks
<1>1. CASE Found(k)
  <2>1. store' = moveToFront(store, k) /\ k \in DOMAIN store.items
    BY <1>1 DEF Get, Found
  <2> QED
    BY <2>1, MoveLaw DEF Shrinks
<1>2. CASE ~Found(k) /\ k \in DOMAIN store.items
  BY <1>2, EvictStep DEF Get
<1>3. CASE k \notin DOMAIN store.items
  <2>1. store' = store
    BY <1>3 DEF Get, Found
  <2> QED
    BY <2>1 DEF Shrinks
<1> QED
  BY <1>1, <1>2, <1>3

\* A Set leaves a sound store within budget, with nothing new but its entry.
LEMMA SetStep ==
    ASSUME Sound(store), NEW k \in Keys, NEW e \in Entries, Set(k, e)
    PROVE  /\ Sound(store') /\ WithinBudget'
           /\ \A x \in DOMAIN store'.items :
                 IF x = k THEN store'.items[x] = e
                 ELSE x \in DOMAIN store.items /\ store'.items[x] = store.items[x]
<1> DEFINE s == inserted(store, k, e)
<1>1. store' = evictToBudget(s)
  BY DEF Set
<1>2. Sound(s) /\ s.items = with(store.items, k, e)
  BY InsertLaw
<1> HIDE DEF s
<1>3. PICK n \in 0..Len(s.order) :
        evictToBudget(s) = evictOldest(s, n) /\ ~overBudget(evictOldest(s, n))
  BY <1>2, BudgetLaw
<1>4. /\ Sound(store') /\ ~overBudget(store')
      /\ store'.items = [x \in DOMAIN s.items \ oldest(s, n) |-> s.items[x]]
  <2> DEFINE t == evictOldest(s, n)
  <2>1. Sound(t) /\ t.items = [x \in DOMAIN s.items \ oldest(s, n) |-> s.items[x]]
    BY <1>2, OldestLaw
  <2>2. store' = t /\ ~overBudget(t)
    BY <1>1, <1>3
  <2> HIDE DEF t
  <2> QED
    BY <2>1, <2>2
<1>5. WithinBudget'
  BY <1>4, NotOver, FitsIsWithin
<1>6. \A x \in DOMAIN store'.items : x \in DOMAIN s.items /\ store'.items[x] = s.items[x]
  BY <1>4
<1> QED
  BY <1>2, <1>4, <1>5, <1>6 DEF with

\* What callers store are entries.
LEMMA PolicyEntries ==
    ASSUME now \in Nat, NEW p \in Policies, NEW b \in Nat
    PROVE  Entry(b, now, p) \in Entries
BY StoreAssumption DEF Entry, Entries

\* The empty store is sound.
LEMMA EmptySound == Sound(Empty) /\ Fits(Empty)
<1>1. <<>> \in Seq(Keys) /\ Len(<<>>) = 0 /\ ToSet(<<>>) = {}
  BY DEF ToSet
<1>2. <<>> \in [{} -> Entries] /\ DOMAIN <<>> = {}
  OBVIOUS
<1>3. <<>> \in Maps
  BY <1>2 DEF Maps
<1>4. bytesOf(<<>>, {}) = 0
  <2>1. UNION {{k} \X (1..entrySize(<<>>[k])) : k \in {}} = {}
    OBVIOUS
  <2> QED
    BY <2>1, FS_EmptySet DEF bytesOf
<1>5. Cardinality({}) = 0
  BY FS_EmptySet
<1>6. Sound(Empty)
  BY <1>1, <1>2, <1>3, <1>4 DEF Sound, Empty, Distinct
<1> QED
  BY <1>2, <1>5, <1>6, StoreAssumption DEF Fits, Empty

\* The initial store.
LEMMA InitStoreInv == StoreInit => StoreInv
BY EmptySound, FitsIsWithin DEF StoreInit, StoreInv

\* Every call preserves the invariant of the store.
LEMMA NextStoreInv == StoreInv /\ [StoreNext]_storeVars => StoreInv'
<1> SUFFICES ASSUME StoreInv, [StoreNext]_storeVars
             PROVE  Sound(store') /\ WithinBudget' /\ now' \in Nat
  BY DEF StoreInv
<1>0. Sound(store) /\ WithinBudget /\ now \in Nat
  BY DEF StoreInv
<1>1. ASSUME NEW k \in Keys, Get(k), UNCHANGED now
      PROVE  Sound(store') /\ WithinBudget' /\ now' \in Nat
  BY <1>0, <1>1, GetStep, ShrinksLaw
<1>2. ASSUME NEW k \in Keys, Delete(k), UNCHANGED now
      PROVE  Sound(store') /\ WithinBudget' /\ now' \in Nat
  <2>1. CASE k \in DOMAIN store.items
    BY <1>0, <1>2, <2>1, EvictStep, ShrinksLaw DEF Delete
  <2>2. CASE k \notin DOMAIN store.items
    BY <1>0, <1>2, <2>2, FitsIsWithin DEF Delete
  <2> QED
    BY <2>1, <2>2
<1>3. ASSUME NEW k \in Keys, NEW p \in Policies, Set(k, Entry(0, now, p)), UNCHANGED now
      PROVE  Sound(store') /\ WithinBudget' /\ now' \in Nat
  BY <1>0, <1>3, PolicyEntries, SetStep
<1>4. ASSUME NEW p \in KeyPrefixes, DeleteMatching(p), UNCHANGED now
      PROVE  Sound(store') /\ WithinBudget' /\ now' \in Nat
  BY <1>0, <1>4, EvictStep, ShrinksLaw DEF DeleteMatching
<1>5. ASSUME Tick, UNCHANGED store
      PROVE  Sound(store') /\ WithinBudget' /\ now' \in Nat
  BY <1>0, <1>5, FitsIsWithin DEF Tick
<1>6. ASSUME UNCHANGED storeVars
      PROVE  Sound(store') /\ WithinBudget' /\ now' \in Nat
  BY <1>0, <1>6, FitsIsWithin DEF storeVars
<1> QED
  BY <1>1, <1>2, <1>3, <1>4, <1>5, <1>6 DEF StoreNext

\* StoreInv is an invariant of the store.
LEMMA StoreInvariance == StoreSpec => []StoreInv
BY InitStoreInv, NextStoreInv, PTL DEF StoreSpec

\* List, map and byte counter agree after every call, for every number of keys
\* and every size of entry.
THEOREM ListMapAndBytesAgree == StoreSpec => []InTandem
<1>1. StoreInv => InTandem
  BY SoundInTandem DEF StoreInv
<1> QED
  BY <1>1, StoreInvariance, PTL

\* The cache is within its capacity and its byte budget after every call, one
\* entry that is too large by itself excepted.
THEOREM BudgetHolds == StoreSpec => []WithinBudget
<1>1. StoreInv => WithinBudget
  BY DEF StoreInv
<1> QED
  BY <1>1, StoreInvariance, PTL

\* What a Set keeps, and what the budget asks of it.
LEMMA SetEvicts ==
    ASSUME StoreInv, NEW k \in Keys, NEW e \in Entries, Set(k, e)
    PROVE  LET rest == without(store.order, {k})
               kept == Len(store'.order) - 1
           IN  /\ kept \in 0..Len(rest)
               /\ store'.order = <<k>> \o SubSeq(rest, 1, kept)
               /\ kept < Len(rest) =>
                    \/ kept + 2 > capacity
                    \/ bytesOf(with(store.items, k, e),
                               {k} \cup ToSet(SubSeq(rest, 1, kept + 1))) > maxBytes
<1> DEFINE s == inserted(store, k, e)
           rest == without(store.order, {k})
           N == Len(s.order)
<1>0. Sound(store)
  BY DEF StoreInv
<1>1. store' = evictToBudget(s)
  BY DEF Set
<1>2. Sound(s) /\ s.order = <<k>> \o rest /\ s.items = with(store.items, k, e)
  BY <1>0, InsertLaw
<1>3. rest \in Seq(Keys) /\ Len(rest) \in Nat
  BY <1>0, WithoutLaw DEF Sound
<1> HIDE DEF s, rest
<1>4. N = Len(rest) + 1 /\ N \in Nat /\ N >= 1
  BY <1>2, <1>3
<1>5. PICK n \in 0..N :
        /\ evictToBudget(s) = evictOldest(s, n)
        /\ ~overBudget(evictOldest(s, n))
        /\ \A m \in 0..N : ~overBudget(evictOldest(s, m)) => n <= m
  BY <1>2, BudgetLaw
<1>6. \A m \in 0..N :
        /\ evictOldest(s, m).order = SubSeq(s.order, 1, N - m)
        /\ Len(evictOldest(s, m).order) = N - m
        /\ evictOldest(s, m).bytes = bytesOf(s.items, ToSet(SubSeq(s.order, 1, N - m)))
  BY <1>2, OldestLaw
<1>7. store'.order = SubSeq(s.order, 1, N - n) /\ Len(store'.order) = N - n
  BY <1>1, <1>5, <1>6
<1>8. n <= N - 1
  <2>1. N - 1 \in 0..N /\ N - (N - 1) = 1
    BY <1>4
  <2>2. Len(evictOldest(s, N - 1).order) = 1
    BY <1>6, <2>1
  <2>3. ~overBudget(evictOldest(s, N - 1))
    <3> DEFINE t == evictOldest(s, N - 1)
    <3>1. Len(t.order) = 1
      BY <2>2
    <3> HIDE DEF t
    <3>2. ~overBudget(t)
      BY <3>1, StoreAssumption DEF overBudget
    <3> QED
      BY <3>2 DEF t
  <2> QED
    BY <1>5, <2>1, <2>3
<1> DEFINE kept == Len(store'.order) - 1
<1>9. kept = Len(rest) - n /\ kept \in 0..Len(rest)
  BY <1>3, <1>4, <1>7, <1>8
<1>10. ASSUME NEW j \in 0..Len(rest)
       PROVE  SubSeq(s.order, 1, j + 1) = <<k>> \o SubSeq(rest, 1, j)
  <2> DEFINE a == SubSeq(s.order, 1, j + 1)
             b == <<k>> \o SubSeq(rest, 1, j)
  <2>0. s.order \in Seq(Keys) /\ j \in Nat /\ j + 1 \in 1..N
    BY <1>2, <1>3, <1>4 DEF Sound
  <2>1. a \in Seq(Keys) /\ Len(a) = j + 1 /\ \A i \in 1..j + 1 : a[i] = s.order[i]
    BY <1>4, <2>0
  <2>2. b \in Seq(Keys) /\ Len(b) = j + 1
    BY <1>3, <2>0
  <2>3. ASSUME NEW i \in 1..j + 1
        PROVE  a[i] = b[i]
    <3>1. CASE i = 1
      <4>1. s.order[1] = k
        BY <1>2, <1>3
      <4>2. b[1] = k
        BY <1>3, <2>0
      <4> QED
        BY <2>1, <3>1, <4>1, <4>2
    <3>2. CASE i # 1
      <4>1. i - 1 \in 1..j /\ i - 1 \in 1..Len(rest) /\ i \in 2..Len(rest) + 1
        BY <1>3, <2>0, <3>2
      <4>2. s.order[i] = rest[i - 1]
        BY <1>2, <1>3, <4>1
      <4>3. SubSeq(rest, 1, j) \in Seq(Keys) /\ Len(SubSeq(rest, 1, j)) = j
        BY <1>3, <2>0
      <4>4. SubSeq(rest, 1, j)[i - 1] = rest[i - 1]
        BY <1>3, <2>0, <4>1
      <4>5. b[i] = SubSeq(rest, 1, j)[i - 1]
        BY <2>0, <4>1, <4>3
      <4> QED
        BY <2>1, <4>2, <4>4, <4>5
    <3> QED
      BY <3>1, <3>2
  <2> HIDE DEF a, b
  <2>4. a = b
    BY <2>1, <2>2, <2>3, SameSeq
  <2> QED
    BY <2>4 DEF a, b
<1>11. store'.order = <<k>> \o SubSeq(rest, 1, kept)
  <2>1. kept + 1 = N - n
    BY <1>3, <1>4, <1>9
  <2>2. SubSeq(s.order, 1, kept + 1) = <<k>> \o SubSeq(rest, 1, kept)
    BY <1>9, <1>10
  <2> QED
    BY <1>7, <2>1, <2>2
<1>12. ASSUME kept < Len(rest)
       PROVE  \/ kept + 2 > capacity
              \/ bytesOf(with(store.items, k, e),
                         {k} \cup ToSet(SubSeq(rest, 1, kept + 1))) > maxBytes
  <2> DEFINE f == SubSeq(rest, 1, kept + 1)
             t == evictOldest(s, n - 1)
  <2>1. /\ n - 1 \in 0..N /\ ~(n <= n - 1)
        /\ kept + 1 \in 0..Len(rest) /\ N - (n - 1) = kept + 2 /\ kept + 2 = (kept + 1) + 1
    BY <1>3, <1>4, <1>9, <1>12
  <2>2. overBudget(t)
    BY <1>5, <2>1
  <2>3. Len(t.order) = kept + 2 /\ t.bytes = bytesOf(s.items, ToSet(SubSeq(s.order, 1, kept + 2)))
    BY <1>6, <2>1
  <2>4. SubSeq(s.order, 1, kept + 2) = <<k>> \o f
    BY <1>10, <2>1
  <2>5. f \in Seq(Keys)
    BY <1>3, <2>1
  <2> HIDE DEF f, t, kept
  <2>6. ToSet(<<k>> \o f) = {k} \cup ToSet(f)
    BY <2>5, FrontSet
  <2>7. t.bytes = bytesOf(with(store.items, k, e), {k} \cup ToSet(f))
    BY <1>2, <2>3, <2>4, <2>6
  <2>8. kept + 2 > capacity \/ t.bytes > maxBytes
    BY <2>2, <2>3 DEF overBudget
  <2> QED
    BY <2>7, <2>8 DEF f
<1> QED
  BY <1>9, <1>11, <1>12 DEF rest

\* A Set keeps what it stored, pushes out the least recently used, and stops as
\* soon as the budget is met.
THEOREM OldestGoFirst == StoreSpec => EvictsOldestOnly
<1>1. StoreInv => \A k \in Keys, p \in Policies :
          LET e == Entry(0, now, p)
              rest == without(store.order, {k})
              kept == Len(store'.order) - 1
          IN  Set(k, e) =>
                /\ kept \in 0..Len(rest)
                /\ store'.order = <<k>> \o SubSeq(rest, 1, kept)
                /\ kept < Len(rest) =>
                     \/ kept + 2 > capacity
                     \/ bytesOf(with(store.items, k, e),
                                {k} \cup ToSet(SubSeq(rest, 1, kept + 1))) > maxBytes
  <2> SUFFICES ASSUME StoreInv, NEW k \in Keys, NEW p \in Policies, Set(k, Entry(0, now, p))
               PROVE  LET rest == without(store.order, {k})
                          kept == Len(store'.order) - 1
                      IN  /\ kept \in 0..Len(rest)
                          /\ store'.order = <<k>> \o SubSeq(rest, 1, kept)
                          /\ kept < Len(rest) =>
                               \/ kept + 2 > capacity
                               \/ bytesOf(with(store.items, k, Entry(0, now, p)),
                                          {k} \cup ToSet(SubSeq(rest, 1, kept + 1)))
                                      > maxBytes
    OBVIOUS
  <2>1. Entry(0, now, p) \in Entries
    BY PolicyEntries DEF StoreInv
  <2> QED
    BY <2>1, SetEvicts
<1> QED
  BY <1>1, StoreInvariance, PTL DEF EvictsOldestOnly

-----------------------------------------------------------------------------
(* The transport's inductive invariant.                                       *)

Statuses == {"none", "ok", "not_found", "not_modified", "error"}

Leaders == {"call", "refresh"}

Flights == [since : Int, by : Leaders, prev : Entries, status : Statuses, body : Nat]

\* The state of the calls.
CallTypes ==
    /\ pc \in [Callers -> {"idle", "miss", "waiting", "write", "written"}]
    /\ arg \in [Callers -> Keys \cup {AnyKey}]
    /\ prev \in [Callers -> Entries]
    /\ wrote \in [Callers -> Nat]

\* Server, history, fetches and refreshes.
WorldTypes ==
    /\ now \in 0..MaxTime
    /\ server \in [Keys -> 1..MaxVersion]
    /\ replaced \in [Keys -> [1..MaxVersion -> Nat]]
    /\ acked \in [Keys -> Nat] /\ racing \in [Keys -> BOOLEAN]
    /\ flight \in [Keys -> Flights]
    /\ pending \in [Keys -> SUBSET Entries]

\* A call is about a key; a write has made a version that the server knows.
ArgLaw ==
    \A c \in Callers :
        /\ pc[c] # "idle" => arg[c] \in Keys
        /\ pc[c] = "written" => wrote[c] <= server[arg[c]]

\* What is acknowledged was written, and the current version is not replaced.
VersionLaw ==
    \A k \in Keys :
        /\ acked[k] <= server[k]
        /\ \A v \in 1..MaxVersion : v >= server[k] => replaced[k][v] = Never

\* An answer carries data that was current since its fetch began, and data that
\* an acknowledged write made obsolete only if it was under way at the flush.
Answered(k) ==
    /\ flight[k].body \in 1..server[k]
    /\ flight[k].since <= replaced[k][flight[k].body]
    /\ flight[k].body < acked[k] => racing[k] = TRUE
    /\ flight[k].status = "not_modified" => flight[k].prev.body = flight[k].body

FlightLaw ==
    \A k \in Keys : flight[k] # NoFlight =>
        /\ flight[k].since \in 0..now /\ now <= flight[k].since + MaxFetch
        /\ flight[k].status # "none" => Answered(k)

\* The same of what is in the store.
HeldLaw ==
    \A k \in DOMAIN store.items :
        /\ store.items[k].body \in 1..server[k]
        /\ store.items[k].created <= now
        /\ store.items[k].created <= replaced[k][store.items[k].body] + MaxFetch
        /\ store.items[k].body < acked[k] => racing[k] = TRUE

Laws == ArgLaw /\ VersionLaw /\ FlightLaw /\ HeldLaw

TrInv == StoreInv /\ CallTypes /\ WorldTypes /\ Laws

\* What the laws about versions speak of.
versions == <<server, replaced, acked, racing>>

-----------------------------------------------------------------------------
(* Facts the steps share.                                                     *)

\* What a miss without an entry carries is an entry.
LEMMA NoEntryType == NoEntry \in Entries
BY DEF NoEntry, Entry, Entries

\* No flight is a flight that has no answer.
LEMMA NoFlightType == NoFlight \in Flights /\ NoFlight.status = "none"
BY NoEntryType DEF NoFlight, Flights, Leaders, Statuses

\* A flight with another start, leader and entry, and one with an answer.
Led(f, t, by, e) == [f EXCEPT !.since = t, !.by = by, !.prev = e]

Landed(f, status, b) == [f EXCEPT !.status = status, !.body = b]

\* They are flights.
LEMMA FlightLed ==
    ASSUME NEW f \in Flights, NEW t \in Nat, NEW by \in Leaders, NEW e \in Entries
    PROVE  /\ Led(f, t, by, e) \in Flights
           /\ Led(f, t, by, e).since = t /\ Led(f, t, by, e).status = f.status
<1> DEFINE b == [f EXCEPT !.since = t]
           g == [b EXCEPT !.by = by]
           h == [g EXCEPT !.prev = e]
<1>1. b \in Flights
  BY DEF Flights
<1>2. h = Led(f, t, by, e)
  BY DEF Led
<1>3. h.since = t /\ h.status = f.status
  BY DEF Flights
<1> HIDE DEF b
<1>4. g \in Flights
  BY <1>1 DEF Flights
<1> HIDE DEF g
<1>5. h \in Flights
  BY <1>4 DEF Flights
<1> HIDE DEF h
<1> QED
  BY <1>2, <1>3, <1>5

\* A flight with its answer.
LEMMA FlightAnswered ==
    ASSUME NEW f \in Flights, NEW status \in Statuses, NEW b \in Nat,
           NEW a, a = Landed(f, status, b)
    PROVE  /\ a \in Flights /\ a.since = f.since /\ a.prev = f.prev
           /\ a.status = status /\ a.body = b
<1> DEFINE g == [f EXCEPT !.status = status]
           h == [g EXCEPT !.body = b]
<1>1. g \in Flights
  BY DEF Flights
<1>2. h = a
  BY DEF Landed
<1>3. /\ h.since = f.since /\ h.prev = f.prev
      /\ h.status = status /\ h.body = b
  BY DEF Flights
<1> HIDE DEF g
<1>4. h \in Flights
  BY <1>1 DEF Flights
<1> HIDE DEF h
<1> QED
  BY <1>2, <1>3, <1>4

\* A call goes to another place.
LEMMA GoTypes ==
    ASSUME CallTypes, NEW c \in Callers,
           NEW where \in {"idle", "miss", "waiting", "write", "written"},
           NEW k \in Keys \cup {AnyKey}, NEW e \in Entries, NEW w \in Nat,
           Go(c, where, k, e, w)
    PROVE  /\ CallTypes'
           /\ pc'[c] = where /\ arg'[c] = k /\ wrote'[c] = w
           /\ \A d \in Callers \ {c} :
                 pc'[d] = pc[d] /\ arg'[d] = arg[d] /\ wrote'[d] = wrote[d]
BY DEF CallTypes, Go

\* The argument of a call after it went there.
LEMMA GoArgs ==
    ASSUME CallTypes, ArgLaw, NEW c \in Callers,
           NEW where \in {"idle", "miss", "waiting", "write"},
           NEW k \in Keys \cup {AnyKey}, NEW e \in Entries, NEW w \in Nat,
           Go(c, where, k, e, w), where # "idle" => k \in Keys, UNCHANGED server
    PROVE  CallTypes' /\ ArgLaw'
BY GoTypes DEF ArgLaw

\* A fetch that begins, or joins one.
LEMMA LeadStep ==
    ASSUME StoreInv, WorldTypes, FlightLaw, NEW k \in Keys, NEW e \in Entries,
           NEW by \in Leaders, Lead(k, e, by) \/ UNCHANGED flight, UNCHANGED <<now, versions>>
    PROVE  FlightLaw' /\ flight' \in [Keys -> Flights]
<1>0. now \in Nat /\ MaxFetch \in Nat
  BY TransportAssumption DEF StoreInv
<1>1. CASE UNCHANGED flight
  BY <1>1 DEF WorldTypes, FlightLaw, Answered, versions
<1>2. CASE Lead(k, e, by)
  <2> DEFINE f == [NoFlight EXCEPT !.since = now, !.by = by, !.prev = e]
  <2>1. f \in Flights /\ f.status = "none" /\ f.since = now
    <3>1. f = Led(NoFlight, now, by, e)
      BY DEF Led
    <3> HIDE DEF f
    <3> QED
      BY <1>0, <3>1, NoFlightType, FlightLed
  <2>2. flight' = [flight EXCEPT ![k] = f]
    BY <1>2 DEF Lead
  <2> HIDE DEF f
  <2>3. flight' \in [Keys -> Flights]
    BY <2>1, <2>2 DEF WorldTypes
  <2>4. flight'[k] = f /\ \A x \in Keys \ {k} : flight'[x] = flight[x]
    BY <2>2 DEF WorldTypes
  <2>5. ASSUME NEW x \in Keys, flight'[x] # NoFlight
        PROVE  /\ flight'[x].since \in 0..now' /\ now' <= flight'[x].since + MaxFetch
               /\ flight'[x].status # "none" => Answered(x)'
    <3>1. CASE x = k
      BY <1>0, <2>1, <2>4, <3>1 DEF versions
    <3>2. CASE x # k
      BY <2>4, <2>5, <3>2 DEF FlightLaw, Answered, versions
    <3> QED
      BY <3>1, <3>2
  <2> QED
    BY <2>3, <2>5 DEF FlightLaw
<1> QED
  BY <1>1, <1>2

\* What the store loses, and what does not touch it, leaves HeldLaw alone.
LEMMA HeldStays ==
    ASSUME HeldLaw, Shrinks, UNCHANGED <<now, versions>>
    PROVE  HeldLaw'
BY DEF HeldLaw, Shrinks, versions

\* VersionLaw speaks of versions only.
LEMMA VersionStays ==
    ASSUME VersionLaw, UNCHANGED versions
    PROVE  VersionLaw'
BY DEF VersionLaw, versions

\* A store that does not change.
LEMMA StoreStays ==
    ASSUME StoreInv, UNCHANGED store
    PROVE  Shrinks /\ Sound(store') /\ WithinBudget'
BY FitsIsWithin DEF StoreInv, Shrinks

\* The parts of the invariant of the next state.
LEMMA Parts ==
    ASSUME Sound(store'), WithinBudget', CallTypes', WorldTypes', ArgLaw', VersionLaw',
           FlightLaw', HeldLaw'
    PROVE  TrInv'
<1>1. now' \in Nat
  BY StoreAssumption DEF WorldTypes
<1> QED
  BY <1>1 DEF TrInv, StoreInv, Laws

\* The parts of the invariant of this state.
LEMMA Known ==
    ASSUME TrInv
    PROVE  /\ StoreInv /\ Sound(store) /\ WithinBudget /\ now \in Nat /\ now \in 0..MaxTime
           /\ CallTypes /\ WorldTypes /\ ArgLaw /\ VersionLaw /\ FlightLaw /\ HeldLaw
           /\ MaxFetch \in Nat /\ MaxTime \in Nat /\ MaxVersion \in Nat
BY StoreAssumption, TransportAssumption DEF TrInv, StoreInv, Laws, WorldTypes

\* WorldTypes when only fetches and refreshes change.
LEMMA WorldStays ==
    ASSUME WorldTypes, UNCHANGED <<now, versions>>, flight' \in [Keys -> Flights],
           pending' \in [Keys -> SUBSET Entries]
    PROVE  WorldTypes'
BY DEF WorldTypes, versions

-----------------------------------------------------------------------------
(* One lemma per action.                                                      *)

\* RoundTrip's lookup.
LEMMA LookupStep ==
    ASSUME TrInv, NEW c \in Callers, NEW k \in Keys, Lookup(c, k)
    PROVE  TrInv'
<1> DEFINE entry == IF Found(k) THEN store.items[k] ELSE NoEntry
<1>0. UNCHANGED <<now, versions>> /\ UNCHANGED flight /\ Get(k)
  BY DEF Lookup, versions, history
<1>1. Sound(store') /\ Shrinks
  BY <1>0, Known, GetStep
<1>2. WithinBudget' /\ HeldLaw' /\ VersionLaw'
  BY <1>0, <1>1, Known, ShrinksLaw, HeldStays, VersionStays
<1>3. FlightLaw' /\ flight' \in [Keys -> Flights]
  BY <1>0, Known, NoEntryType, LeadStep DEF Leaders
<1>4. entry \in Entries
  BY Known, NoEntryType, SoundItems DEF Found
<1>5. \/ UNCHANGED <<callVars, pending>>
      \/ pending' = [pending EXCEPT ![k] = @ \cup {entry}] /\ UNCHANGED callVars
      \/ Go(c, "miss", k, entry, 0) /\ UNCHANGED pending
  BY DEF Lookup
<1> HIDE DEF entry
<1>6. pending' \in [Keys -> SUBSET Entries]
  BY <1>4, <1>5, Known DEF WorldTypes
<1>7. CallTypes' /\ ArgLaw'
  <2>1. CASE UNCHANGED callVars
    BY <1>0, <2>1, Known DEF CallTypes, ArgLaw, callVars, versions
  <2>2. CASE Go(c, "miss", k, entry, 0)
    BY <1>0, <1>4, <2>2, Known, GoArgs DEF versions
  <2> QED
    BY <1>5, <2>1, <2>2
<1> QED
  BY <1>0, <1>1, <1>2, <1>3, <1>6, <1>7, Known, WorldStays, Parts

\* A miss begins or joins a fetch.
LEMMA FetchOrJoinStep ==
    ASSUME TrInv, NEW c \in Callers, FetchOrJoin(c)
    PROVE  TrInv'
<1>0. /\ UNCHANGED <<now, versions>> /\ UNCHANGED store /\ UNCHANGED pending
      /\ pc[c] = "miss" /\ Go(c, "waiting", arg[c], NoEntry, 0)
      /\ Lead(arg[c], prev[c], "call") \/ UNCHANGED flight
  BY DEF FetchOrJoin, versions, history, storeVars
<1>1. arg[c] \in Keys /\ prev[c] \in Entries
  BY <1>0, Known DEF ArgLaw, CallTypes
<1>2. FlightLaw' /\ flight' \in [Keys -> Flights]
  BY <1>0, <1>1, Known, LeadStep DEF Leaders
<1>3. Sound(store') /\ WithinBudget' /\ HeldLaw' /\ VersionLaw'
  BY <1>0, Known, StoreStays, HeldStays, VersionStays
<1>4. CallTypes' /\ ArgLaw'
  BY <1>0, <1>1, Known, NoEntryType, GoArgs DEF versions
<1>5. pending' \in [Keys -> SUBSET Entries]
  BY <1>0, Known DEF WorldTypes
<1> QED
  BY <1>0, <1>2, <1>3, <1>4, <1>5, Known, WorldStays, Parts

\* Nothing happens to the calls.
LEMMA CallsStay ==
    ASSUME CallTypes, ArgLaw, UNCHANGED callVars, UNCHANGED server
    PROVE  CallTypes' /\ ArgLaw'
BY DEF CallTypes, ArgLaw, callVars

\* So does a background refresh.
LEMMA RefreshStep ==
    ASSUME TrInv, NEW k \in Keys, Refresh(k)
    PROVE  TrInv'
<1>0. UNCHANGED <<now, versions>> /\ UNCHANGED store /\ UNCHANGED callVars
  BY DEF Refresh, versions, history, storeVars
<1>1. PICK e \in pending[k] : /\ pending' = [pending EXCEPT ![k] = @ \ {e}]
                              /\ Lead(k, e, "refresh") \/ UNCHANGED flight
  BY DEF Refresh
<1>2. e \in Entries /\ pending' \in [Keys -> SUBSET Entries]
  BY <1>1, Known DEF WorldTypes
<1>3. FlightLaw' /\ flight' \in [Keys -> Flights]
  BY <1>0, <1>1, <1>2, Known, LeadStep DEF Leaders
<1>4. Sound(store') /\ WithinBudget' /\ HeldLaw' /\ VersionLaw'
  BY <1>0, Known, StoreStays, HeldStays, VersionStays
<1>5. CallTypes' /\ ArgLaw'
  BY <1>0, Known, CallsStay DEF versions
<1> QED
  BY <1>0, <1>2, <1>3, <1>4, <1>5, Known, WorldStays, Parts

\* The server's answer carries the current version.
LEMMA AnswerStep ==
    ASSUME TrInv, NEW k \in Keys, ServerAnswers(k)
    PROVE  TrInv'
<1>0. /\ UNCHANGED <<now, versions>> /\ UNCHANGED store /\ UNCHANGED callVars
      /\ UNCHANGED pending /\ flight[k] # NoFlight
  BY DEF ServerAnswers, versions, history, storeVars
<1>1. PICK status \in {"ok", "not_found", "not_modified", "error"} :
        /\ status = "not_modified" => flight[k].prev.body = server[k]
        /\ flight' = [flight EXCEPT ![k].status = status, ![k].body = server[k]]
  BY DEF ServerAnswers
<1>2. flight \in [Keys -> Flights] /\ server[k] \in 1..MaxVersion /\ server[k] \in Nat
  BY Known DEF WorldTypes
<1>3. /\ flight'[k] = [flight[k] EXCEPT !.status = status, !.body = server[k]]
      /\ \A x \in Keys \ {k} : flight'[x] = flight[x]
      /\ DOMAIN flight' = Keys /\ flight' = [x \in Keys |-> flight'[x]]
  BY <1>1, <1>2
<1>4. /\ flight'[k] \in Flights /\ flight'[k].since = flight[k].since
      /\ flight'[k].prev = flight[k].prev /\ flight'[k].body = server[k]
      /\ flight'[k].status = status
  <2>1. flight[k] \in Flights /\ status \in Statuses
    BY <1>2 DEF Statuses
  <2>2. flight'[k] = Landed(flight[k], status, server[k])
    BY <1>3 DEF Landed
  <2> QED
    BY <1>2, <2>1, <2>2, FlightAnswered
<1>5. flight' \in [Keys -> Flights]
  BY <1>2, <1>3, <1>4
<1>6. ASSUME NEW x \in Keys, flight'[x] # NoFlight
      PROVE  /\ flight'[x].since \in 0..now' /\ now' <= flight'[x].since + MaxFetch
             /\ flight'[x].status # "none" => Answered(x)'
  <2>1. CASE x # k
    BY <1>0, <1>3, <1>6, <2>1, Known DEF FlightLaw, Answered, versions
  <2>2. CASE x = k
    <3>1. flight[k].since \in 0..now /\ now <= flight[k].since + MaxFetch
      BY <1>0, Known DEF FlightLaw
    <3>2. /\ replaced[k][server[k]] = Never /\ ~(server[k] < acked[k])
          /\ server[k] \in 1..server[k]
      BY <1>2, Known DEF VersionLaw, WorldTypes
    <3>3. flight[k].since <= Never
      BY <3>1, Known DEF Never
    <3>4. Answered(k)'
      BY <1>0, <1>1, <1>4, <3>2, <3>3 DEF Answered, versions
    <3> QED
      BY <1>0, <1>4, <2>2, <3>1, <3>4
  <2> QED
    BY <2>1, <2>2
<1>7. FlightLaw'
  BY <1>6 DEF FlightLaw
<1>8. Sound(store') /\ WithinBudget' /\ HeldLaw' /\ VersionLaw'
  BY <1>0, Known, StoreStays, HeldStays, VersionStays
<1>9. CallTypes' /\ ArgLaw' /\ pending' \in [Keys -> SUBSET Entries]
  BY <1>0, Known, CallsStay DEF versions, WorldTypes
<1> QED
  BY <1>0, <1>5, <1>7, <1>8, <1>9, Known, WorldStays, Parts

\* A fetch is over: whoever waits for it returns.
LEMMA WakeStep ==
    ASSUME TrInv, NEW k \in Keys, wake(k), UNCHANGED <<now, versions>>
    PROVE  FlightLaw' /\ flight' \in [Keys -> Flights] /\ CallTypes' /\ ArgLaw'
<1>1. flight' = [flight EXCEPT ![k] = NoFlight]
  BY DEF wake
<1>2. flight' \in [Keys -> Flights]
  BY <1>1, Known, NoFlightType DEF WorldTypes
<1>3. FlightLaw'
  <2>1. flight'[k] = NoFlight /\ \A x \in Keys \ {k} : flight'[x] = flight[x]
    BY <1>1, Known DEF WorldTypes
  <2> QED
    BY <2>1, Known DEF FlightLaw, Answered, versions
<1>4. /\ pc' = [c \in Callers |->
                   IF pc[c] = "waiting" /\ arg[c] = k THEN "idle" ELSE pc[c]]
      /\ arg' = [c \in Callers |->
                   IF pc[c] = "waiting" /\ arg[c] = k THEN AnyKey ELSE arg[c]]
      /\ UNCHANGED <<prev, wrote>>
  BY DEF wake
<1>5. CallTypes'
  BY <1>4, Known DEF CallTypes
<1>6. ArgLaw'
  BY <1>4, Known DEF ArgLaw, CallTypes, versions
<1> QED
  BY <1>2, <1>3, <1>5, <1>6

\* What processResponse stores is what the fetch brought, as of now.
LEMMA ResponseStored ==
    ASSUME TrInv, NEW k \in Keys, processResponse(k), flight[k].status # "none", Answered(k)
    PROVE  \/ UNCHANGED store
           \/ \E e \in Entries : Set(k, e) /\ e.body = flight[k].body /\ e.created = now
<1> DEFINE f == flight[k]
<1>0. f \in Flights /\ f.body \in Nat /\ f.status \in Statuses /\ now \in Nat
  BY Known DEF WorldTypes, Flights
<1>1. ASSUME NEW b, b = f.body, NEW p, p \in Policies, Set(k, Entry(b, now, p))
      PROVE  \E e \in Entries : Set(k, e) /\ e.body = f.body /\ e.created = now
  <2>1. Entry(b, now, p) \in Entries
    BY <1>0, <1>1, PolicyEntries
  <2>2. Entry(b, now, p).body = f.body /\ Entry(b, now, p).created = now
    BY <1>1 DEF Entry
  <2> QED
    BY <1>1, <2>1, <2>2
<1>2. CASE f.status = "ok"
  <2>1. PICK p \in Policies : Set(k, Entry(f.body, now, p))
    BY <1>2 DEF processResponse
  <2> QED
    BY <1>1, <2>1
<1>3. CASE f.status = "not_modified"
  <2>1. PICK p \in Policies : Set(k, Entry(f.prev.body, now, p))
    BY <1>3 DEF processResponse
  <2>2. f.prev.body = f.body
    BY <1>3 DEF Answered
  <2> QED
    BY <1>1, <2>1, <2>2
<1>4. CASE f.status = "not_found" /\ NegativeTTL > 0
  <2> DEFINE q == [TTL |-> NegativeTTL, SWR |-> 0, size |-> 1]
             e == Entry(f.body, now, q)
  <2>1. Set(k, e)
    BY <1>4 DEF processResponse
  <2>2. e \in Entries /\ e.body = f.body /\ e.created = now
    BY <1>0, TransportAssumption DEF Entry, Entries
  <2> HIDE DEF e
  <2> QED
    BY <2>1, <2>2
<1>5. CASE f.status = "error" \/ (f.status = "not_found" /\ ~(NegativeTTL > 0))
  BY <1>5 DEF processResponse
<1> QED
  BY <1>0, <1>2, <1>3, <1>4, <1>5 DEF Statuses

\* A fetch lands: its data was current when it began, so the entry is no older
\* than a fetch takes.
LEMMA LandStep ==
    ASSUME TrInv, NEW k \in Keys, FetchLands(k)
    PROVE  TrInv'
<1>0. /\ UNCHANGED <<now, versions>> /\ UNCHANGED pending /\ wake(k)
      /\ processResponse(k) /\ flight[k].status # "none"
  BY DEF FetchLands, versions, history
<1>1. flight[k] # NoFlight
  BY <1>0, NoFlightType
<1>2. Answered(k) /\ flight[k].since \in 0..now /\ now <= flight[k].since + MaxFetch
  BY <1>0, <1>1, Known DEF FlightLaw
<1>3. FlightLaw' /\ flight' \in [Keys -> Flights] /\ CallTypes' /\ ArgLaw'
  BY <1>0, WakeStep
<1>4. Sound(store') /\ WithinBudget' /\ HeldLaw'
  <2>1. CASE UNCHANGED store
    BY <1>0, <2>1, Known, StoreStays, HeldStays
  <2>2. ASSUME NEW e \in Entries, Set(k, e), e.body = flight[k].body, e.created = now
        PROVE  Sound(store') /\ WithinBudget' /\ HeldLaw'
    <3>1. /\ Sound(store') /\ WithinBudget'
          /\ \A x \in DOMAIN store'.items :
                IF x = k THEN store'.items[x] = e
                ELSE x \in DOMAIN store.items /\ store'.items[x] = store.items[x]
      BY <2>2, Known, SetStep
    <3>2. /\ e.body \in 1..server[k] /\ e.created <= now
          /\ e.created <= replaced[k][e.body] + MaxFetch
          /\ e.body < acked[k] => racing[k] = TRUE
      <4>1. server[k] \in 1..MaxVersion /\ replaced[k] \in [1..MaxVersion -> Nat]
        BY Known DEF WorldTypes
      <4>2. e.body \in 1..server[k] /\ flight[k].since <= replaced[k][e.body]
        BY <1>2, <2>2 DEF Answered
      <4>3. replaced[k][e.body] \in Nat
        BY <4>1, <4>2, Known
      <4>4. now <= replaced[k][e.body] + MaxFetch
        BY <1>2, <4>2, <4>3, Known
      <4>5. e.body < acked[k] => racing[k] = TRUE
        BY <1>2, <2>2 DEF Answered
      <4> QED
        BY <2>2, <4>2, <4>4, <4>5, Known
    <3>3. HeldLaw'
      <4> SUFFICES ASSUME NEW x \in DOMAIN store'.items
                   PROVE  /\ store'.items[x].body \in 1..server[x]
                          /\ store'.items[x].created <= now
                          /\ store'.items[x].created <=
                                replaced[x][store'.items[x].body] + MaxFetch
                          /\ store'.items[x].body < acked[x] => racing[x] = TRUE
        BY <1>0 DEF HeldLaw, versions
      <4>1. CASE x = k
        BY <3>1, <3>2, <4>1
      <4>2. CASE x # k
        BY <3>1, <4>2, Known DEF HeldLaw
      <4> QED
        BY <4>1, <4>2
    <3> QED
      BY <3>1, <3>3
  <2> QED
    BY <1>0, <1>2, <2>1, <2>2, ResponseStored
<1>5. VersionLaw' /\ pending' \in [Keys -> SUBSET Entries]
  BY <1>0, Known, VersionStays DEF WorldTypes
<1> QED
  BY <1>0, <1>3, <1>4, <1>5, Known, WorldStays, Parts

\* A fetch fails.
LEMMA FailStep ==
    ASSUME TrInv, NEW k \in Keys, FetchFails(k)
    PROVE  TrInv'
<1>0. UNCHANGED <<now, versions>> /\ UNCHANGED store /\ UNCHANGED pending /\ wake(k)
  BY DEF FetchFails, versions, history, storeVars
<1>1. FlightLaw' /\ flight' \in [Keys -> Flights] /\ CallTypes' /\ ArgLaw'
  BY <1>0, WakeStep
<1>2. Sound(store') /\ WithinBudget' /\ HeldLaw' /\ VersionLaw'
  BY <1>0, Known, StoreStays, HeldStays, VersionStays
<1>3. pending' \in [Keys -> SUBSET Entries]
  BY <1>0, Known DEF WorldTypes
<1> QED
  BY <1>0, <1>1, <1>2, <1>3, Known, WorldStays, Parts

\* A write begins, or ends without an acknowledgement.
LEMMA PlainWriteStep ==
    ASSUME TrInv, NEW c \in Callers,
           (\E k \in Keys : BeginWrite(c, k)) \/ WriteFails(c)
    PROVE  TrInv'
<1>0. /\ UNCHANGED <<now, versions>> /\ UNCHANGED store /\ UNCHANGED pending
      /\ UNCHANGED flight
      /\ \/ \E k \in Keys : Go(c, "write", k, NoEntry, 0)
         \/ Go(c, "idle", AnyKey, NoEntry, 0)
  BY DEF BeginWrite, WriteFails, Return, versions, history, storeVars
<1>1. CallTypes' /\ ArgLaw'
  <2>1. ASSUME NEW k \in Keys, Go(c, "write", k, NoEntry, 0)
        PROVE  CallTypes' /\ ArgLaw'
    BY <1>0, <2>1, Known, NoEntryType, GoArgs DEF versions
  <2>2. CASE Go(c, "idle", AnyKey, NoEntry, 0)
    BY <1>0, <2>2, Known, NoEntryType, GoArgs DEF versions
  <2> QED
    BY <1>0, <2>1, <2>2
<1>2. Sound(store') /\ WithinBudget' /\ HeldLaw' /\ VersionLaw'
  BY <1>0, Known, StoreStays, HeldStays, VersionStays
<1>3. FlightLaw'
  BY <1>0, Known DEF FlightLaw, Answered, versions
<1>4. flight' \in [Keys -> Flights] /\ pending' \in [Keys -> SUBSET Entries]
  BY <1>0, Known DEF WorldTypes
<1> QED
  BY <1>0, <1>1, <1>2, <1>3, <1>4, Known, WorldStays, Parts

\* The server applies a write: what was current is replaced now.
LEMMA ApplyStep ==
    ASSUME TrInv, NEW c \in Callers, ServerWrites(c)
    PROVE  TrInv'
<1> DEFINE k == arg[c]
           old == server[k]
<1>0. /\ pc[c] = "write" /\ old < MaxVersion
      /\ server' = [server EXCEPT ![k] = @ + 1]
      /\ replaced' = [replaced EXCEPT ![k][old] = now]
      /\ Go(c, "written", k, NoEntry, old + 1)
      /\ UNCHANGED <<store, now, acked, racing, flight, pending>>
  BY DEF ServerWrites, storeVars
<1>1. k \in Keys
  BY <1>0, Known DEF ArgLaw
<1> HIDE DEF k
<1>2. /\ old \in 1..MaxVersion /\ old \in Nat /\ acked[k] \in Nat
      /\ replaced[k] \in [1..MaxVersion -> Nat] /\ now \in 0..MaxTime
  BY <1>1, Known DEF WorldTypes
<1>3. /\ server'[k] = old + 1 /\ \A x \in Keys \ {k} : server'[x] = server[x]
      /\ old + 1 \in 1..MaxVersion
  BY <1>0, <1>1, <1>2, Known DEF WorldTypes
<1>4. /\ replaced'[k] = [replaced[k] EXCEPT ![old] = now]
      /\ \A x \in Keys \ {k} : replaced'[x] = replaced[x]
  BY <1>0, <1>1, Known DEF WorldTypes
<1>5. /\ replaced'[k][old] = now
      /\ \A v \in 1..MaxVersion : v # old => replaced'[k][v] = replaced[k][v]
  BY <1>2, <1>4
<1>6. WorldTypes'
  <2>1. server' \in [Keys -> 1..MaxVersion]
    BY <1>0, <1>1, <1>3, Known DEF WorldTypes
  <2>2. [replaced[k] EXCEPT ![old] = now] \in [1..MaxVersion -> Nat]
    BY <1>2, Known
  <2>3. replaced' = [replaced EXCEPT ![k] = [replaced[k] EXCEPT ![old] = now]]
    BY <1>0, <1>1, Known DEF WorldTypes
  <2>4. replaced' \in [Keys -> [1..MaxVersion -> Nat]]
    BY <1>1, <2>2, <2>3, Known DEF WorldTypes
  <2> QED
    BY <1>0, <2>1, <2>4, Known DEF WorldTypes
<1> HIDE DEF old
<1>7. CallTypes' /\ ArgLaw'
  <2>1. /\ CallTypes' /\ pc'[c] = "written" /\ arg'[c] = k /\ wrote'[c] = old + 1
        /\ \A d \in Callers \ {c} :
              pc'[d] = pc[d] /\ arg'[d] = arg[d] /\ wrote'[d] = wrote[d]
    BY <1>0, <1>1, <1>2, Known, NoEntryType, GoTypes
  <2>2. \A x \in Keys : server[x] \in Nat /\ server'[x] \in Nat /\ server[x] <= server'[x]
    <3> SUFFICES ASSUME NEW x \in Keys
                 PROVE  server[x] \in Nat /\ server'[x] \in Nat /\ server[x] <= server'[x]
      OBVIOUS
    <3>1. server[x] \in Nat
      BY Known DEF WorldTypes
    <3>2. CASE x = k
      <4>1. server[x] = old
        BY <3>2 DEF old
      <4> QED
        BY <1>2, <1>3, <3>2, <4>1
    <3>3. CASE x # k
      BY <1>3, <3>1, <3>3
    <3> QED
      BY <3>2, <3>3
  <2>3. ASSUME NEW d \in Callers
        PROVE  /\ pc'[d] # "idle" => arg'[d] \in Keys
               /\ pc'[d] = "written" => wrote'[d] <= server'[arg'[d]]
    <3>1. CASE d = c
      BY <1>1, <1>2, <1>3, <2>1, <3>1
    <3>2. CASE d # c
      <4>1. pc'[d] = pc[d] /\ arg'[d] = arg[d] /\ wrote'[d] = wrote[d] /\ wrote[d] \in Nat
        BY <2>1, <3>2, Known DEF CallTypes
      <4>2. pc[d] # "idle" => arg[d] \in Keys
        BY Known DEF ArgLaw
      <4>3. pc[d] = "written" => wrote[d] <= server[arg[d]]
        BY Known DEF ArgLaw
      <4> QED
        BY <2>2, <4>1, <4>2, <4>3
    <3> QED
      BY <3>1, <3>2
  <2> QED
    BY <2>1, <2>3 DEF ArgLaw
<1>8. VersionLaw'
  <2>1. ASSUME NEW x \in Keys
        PROVE  /\ acked[x] <= server'[x]
               /\ \A v \in 1..MaxVersion : v >= server'[x] => replaced'[x][v] = Never
    <3>1. CASE x = k
      <4>1. acked[k] <= old /\ \A v \in 1..MaxVersion : v >= old => replaced[k][v] = Never
        BY <1>1, Known DEF VersionLaw, old
      <4> QED
        BY <1>2, <1>3, <1>5, <3>1, <4>1, Known
    <3>2. CASE x # k
      BY <1>3, <1>4, <3>2, Known DEF VersionLaw
    <3> QED
      BY <3>1, <3>2
  <2> QED
    BY <1>0, <2>1 DEF VersionLaw, Never
<1>9. ASSUME NEW t \in 0..now, NEW b \in 1..old
      PROVE  b \in 1..server'[k] /\ (t <= replaced[k][b] => t <= replaced'[k][b])
             /\ (t <= replaced[k][b] + MaxFetch => t <= replaced'[k][b] + MaxFetch)
  <2>1. b \in 1..MaxVersion /\ b \in 1..server'[k]
    BY <1>2, <1>3, Known
  <2>2. CASE b = old
    BY <1>2, <1>5, <2>1, <2>2, Known
  <2>3. CASE b # old
    BY <1>5, <2>1, <2>3
  <2> QED
    BY <2>1, <2>2, <2>3
<1>10. FlightLaw'
  <2> SUFFICES ASSUME NEW x \in Keys, flight[x] # NoFlight
               PROVE  /\ flight[x].since \in 0..now /\ now <= flight[x].since + MaxFetch
                      /\ flight[x].status # "none" => Answered(x)'
    BY <1>0 DEF FlightLaw, NoFlight, NoEntry, Entry
  <2>1. /\ flight[x].since \in 0..now /\ now <= flight[x].since + MaxFetch
        /\ flight[x].status # "none" => Answered(x)
    BY Known DEF FlightLaw
  <2>2. ASSUME Answered(x)
        PROVE  Answered(x)'
    <3>1. CASE x = k
      BY <1>0, <1>9, <2>1, <2>2, <3>1 DEF Answered, old
    <3>2. CASE x # k
      BY <1>0, <1>3, <1>4, <2>2, <3>2 DEF Answered
    <3> QED
      BY <3>1, <3>2
  <2> QED
    BY <2>1, <2>2
<1>11. HeldLaw'
  <2> SUFFICES ASSUME NEW x \in DOMAIN store.items
               PROVE  /\ store.items[x].body \in 1..server'[x]
                      /\ store.items[x].created <= now
                      /\ store.items[x].created <=
                            replaced'[x][store.items[x].body] + MaxFetch
                      /\ store.items[x].body < acked[x] => racing[x] = TRUE
    BY <1>0 DEF HeldLaw
  <2>1. /\ store.items[x].body \in 1..server[x]
        /\ store.items[x].created <= now
        /\ store.items[x].created <= replaced[x][store.items[x].body] + MaxFetch
        /\ store.items[x].body < acked[x] => racing[x] = TRUE
    BY Known DEF HeldLaw
  <2>2. x \in Keys /\ store.items[x].created \in Nat
    BY Known, SoundItems DEF Entries
  <2>3. CASE x = k
    <3>1. store.items[x].created \in 0..now
      BY <2>1, <2>2, Known
    <3> QED
      BY <1>9, <2>1, <2>3, <3>1 DEF old
  <2>4. CASE x # k
    BY <1>3, <1>4, <2>1, <2>2, <2>4
  <2> QED
    BY <2>3, <2>4
<1>12. Sound(store') /\ WithinBudget'
  BY <1>0, Known, StoreStays
<1> QED
  BY <1>6, <1>7, <1>8, <1>10, <1>11, <1>12, Parts

\* The larger of two versions.
LEMMA MaxTwo == \A a, b \in Nat : Max({a, b}) \in {a, b}
<1> SUFFICES ASSUME NEW a \in Nat, NEW b \in Nat
             PROVE  Max({a, b}) \in {a, b}
  OBVIOUS
<1>1. \E x \in {a, b} : \A y \in {a, b} : x >= y
  <2>1. CASE a >= b
    BY <2>1
  <2>2. CASE b >= a
    BY <2>2
  <2> QED
    BY <2>1, <2>2
<1> QED
  BY <1>1 DEF Max

\* A write is acknowledged: its key is flushed, and a fetch that is under way
\* with older data is remembered.
LEMMA AckStep ==
    ASSUME TrInv, NEW c \in Callers, WriteSucceeds(c)
    PROVE  TrInv'
<1> DEFINE k == arg[c]
           caught == flight[k].status # "none" /\ flight[k].body < acked'[k]
<1>0. /\ pc[c] = "written" /\ flush(k)
      /\ acked' = [acked EXCEPT ![k] = Max({acked[k], wrote[c]})]
      /\ racing' = [racing EXCEPT ![k] = caught]
      /\ Go(c, "idle", AnyKey, NoEntry, 0)
      /\ UNCHANGED <<now, server, replaced, flight, pending>>
  BY DEF WriteSucceeds, Return
<1>1. k \in Keys /\ wrote[c] <= server[k]
  BY <1>0, Known DEF ArgLaw
<1> HIDE DEF k
<1>2. caught \in BOOLEAN
  OBVIOUS
<1>3. caught => racing'[k] = TRUE
  BY <1>0, <1>1, Known DEF WorldTypes
<1>4. \A x \in Keys \ {k} : racing'[x] = racing[x] /\ acked'[x] = acked[x]
  BY <1>0, Known DEF WorldTypes
<1>5. racing' \in [Keys -> BOOLEAN]
  <2> HIDE DEF caught
  <2> QED
    BY <1>0, <1>1, <1>2, Known DEF WorldTypes
<1>6. /\ acked'[k] \in Nat /\ acked'[k] <= server[k] /\ acked' \in [Keys -> Nat]
  <2>1. acked[k] \in Nat /\ wrote[c] \in Nat /\ acked[k] <= server[k] /\ server[k] \in Nat
    BY <1>1, Known DEF WorldTypes, CallTypes, VersionLaw
  <2>2. Max({acked[k], wrote[c]}) \in {acked[k], wrote[c]}
    BY <2>1, MaxTwo
  <2> QED
    BY <1>0, <1>1, <2>1, <2>2, Known DEF WorldTypes
<1>7. WorldTypes'
  BY <1>0, <1>5, <1>6, Known DEF WorldTypes
<1>8. CallTypes' /\ ArgLaw'
  BY <1>0, Known, NoEntryType, GoArgs
<1>9. VersionLaw'
  <2>1. \A x \in Keys : acked'[x] <= server[x]
    BY <1>4, <1>6, Known DEF VersionLaw
  <2> QED
    BY <1>0, <2>1, Known DEF VersionLaw, Never
<1>10. Sound(store') /\ Shrinks /\ k \notin DOMAIN store'.items
  <2>1. PICK p \in KeyPrefixes :
          k \in p /\ store' = evictElements(store, p \cap DOMAIN store.items)
    BY <1>0 DEF flush, DeleteMatching
  <2>2. p \cap DOMAIN store.items \subseteq DOMAIN store.items
    OBVIOUS
  <2>3. /\ Sound(store') /\ Shrinks
        /\ DOMAIN store'.items = DOMAIN store.items \ (p \cap DOMAIN store.items)
    BY <2>1, <2>2, Known, EvictStep
  <2> QED
    BY <2>1, <2>3
<1>11. WithinBudget'
  BY <1>10, Known, ShrinksLaw
<1>12. FlightLaw'
  <2> SUFFICES ASSUME NEW x \in Keys, flight[x] # NoFlight
               PROVE  /\ flight[x].since \in 0..now /\ now <= flight[x].since + MaxFetch
                      /\ flight[x].status # "none" => Answered(x)'
    BY <1>0 DEF FlightLaw, NoFlight, NoEntry, Entry
  <2>1. /\ flight[x].since \in 0..now /\ now <= flight[x].since + MaxFetch
        /\ flight[x].status # "none" => Answered(x)
    BY Known DEF FlightLaw
  <2>2. ASSUME flight[x].status # "none", Answered(x)
        PROVE  Answered(x)'
    <3>1. flight[x].body < acked'[x] => racing'[x] = TRUE
      <4>1. CASE x = k
        BY <1>3, <2>2, <4>1
      <4>2. CASE x # k
        BY <1>4, <2>2, <4>2 DEF Answered
      <4> QED
        BY <4>1, <4>2
    <3> QED
      BY <1>0, <2>2, <3>1 DEF Answered
  <2> QED
    BY <2>1, <2>2
<1>13. HeldLaw'
  <2> SUFFICES ASSUME NEW x \in DOMAIN store'.items
               PROVE  /\ store'.items[x].body \in 1..server[x]
                      /\ store'.items[x].created <= now
                      /\ store'.items[x].created <=
                            replaced[x][store'.items[x].body] + MaxFetch
                      /\ store'.items[x].body < acked'[x] => racing'[x] = TRUE
    BY <1>0 DEF HeldLaw
  <2>1. x # k /\ x \in DOMAIN store.items /\ store'.items[x] = store.items[x]
    BY <1>10 DEF Shrinks
  <2>2. x \in Keys
    BY <2>1, Known, SoundItems
  <2> QED
    BY <1>4, <2>1, <2>2, Known DEF HeldLaw
<1> QED
  BY <1>7, <1>8, <1>9, <1>10, <1>11, <1>12, <1>13, Parts

\* Time passes, within the bound on fetches.
LEMMA TimeStep ==
    ASSUME TrInv, TimePasses
    PROVE  TrInv'
<1>0. /\ \A k \in Keys : flight[k] # NoFlight => now < flight[k].since + MaxFetch
      /\ now < MaxTime /\ now' = now + 1
      /\ UNCHANGED <<store, server, replaced, acked, racing, callVars, flight, pending>>
  BY DEF TimePasses, Tick, history
<1>1. now' \in 0..MaxTime
  BY <1>0, Known
<1>2. WorldTypes'
  BY <1>0, <1>1, Known DEF WorldTypes
<1>3. CallTypes' /\ ArgLaw'
  BY <1>0, Known, CallsStay
<1>4. VersionLaw' /\ Sound(store') /\ WithinBudget'
  BY <1>0, Known, StoreStays, VersionStays DEF versions
<1>5. HeldLaw'
  <2>1. \A x \in DOMAIN store.items :
          store.items[x].created \in Nat /\ store.items[x].created <= now
    BY Known, SoundItems DEF Entries, HeldLaw
  <2>2. \A x \in DOMAIN store.items : store.items[x].created <= now'
    BY <1>0, <2>1, Known
  <2> QED
    BY <1>0, <2>2, Known DEF HeldLaw
<1>6. FlightLaw'
  <2> SUFFICES ASSUME NEW x \in Keys, flight[x] # NoFlight
               PROVE  /\ flight[x].since \in 0..now' /\ now' <= flight[x].since + MaxFetch
                      /\ flight[x].status # "none" => Answered(x)'
    BY <1>0 DEF FlightLaw, NoFlight, NoEntry, Entry
  <2>1. /\ flight[x].since \in 0..now /\ now < flight[x].since + MaxFetch
        /\ flight[x].status # "none" => Answered(x)
    BY <1>0, Known DEF FlightLaw
  <2>2. Answered(x) => Answered(x)'
    BY <1>0 DEF Answered
  <2> QED
    BY <1>0, <2>1, <2>2, Known
<1> QED
  BY <1>2, <1>3, <1>4, <1>5, <1>6, Parts

\* The initial states.
LEMMA InitTrInv == Init => TrInv
<1> SUFFICES ASSUME Init
             PROVE  TrInv
  OBVIOUS
<1>1. StoreInv /\ DOMAIN store.items = {} /\ now = 0
  BY InitStoreInv DEF Init, StoreInit, Empty
<1>2. Never \in Nat /\ 1 \in 1..MaxVersion /\ 0 \in 0..MaxTime
  BY StoreAssumption, TransportAssumption DEF Never
<1>3. WorldTypes
  BY <1>1, <1>2, NoFlightType DEF Init, WorldTypes
<1>4. CallTypes
  BY NoEntryType DEF Init, CallTypes
<1>5. ArgLaw /\ FlightLaw /\ HeldLaw
  BY <1>1 DEF Init, ArgLaw, FlightLaw, HeldLaw
<1>6. VersionLaw
  BY DEF Init, VersionLaw
<1> QED
  BY <1>1, <1>3, <1>4, <1>5, <1>6 DEF TrInv, Laws

\* Every step preserves the invariant.
LEMMA NextTrInv == TrInv /\ [Next]_vars => TrInv'
<1> SUFFICES ASSUME TrInv, [Next]_vars
             PROVE  TrInv'
  OBVIOUS
<1>1. ASSUME NEW c \in Callers, NEW k \in Keys, Lookup(c, k) \/ BeginWrite(c, k)
      PROVE  TrInv'
  BY <1>1, LookupStep, PlainWriteStep
<1>2. ASSUME NEW c \in Callers, CallStep(c)
      PROVE  TrInv'
  BY <1>2, FetchOrJoinStep, ApplyStep, PlainWriteStep, AckStep DEF CallStep
<1>3. ASSUME NEW k \in Keys, FlightStep(k) \/ Refresh(k)
      PROVE  TrInv'
  BY <1>3, AnswerStep, LandStep, FailStep, RefreshStep DEF FlightStep
<1>4. CASE TimePasses
  BY <1>4, TimeStep
<1>5. CASE UNCHANGED vars
  <2>1. /\ UNCHANGED <<now, versions>> /\ UNCHANGED store /\ UNCHANGED pending
        /\ UNCHANGED flight /\ UNCHANGED callVars
    BY <1>5 DEF vars, versions, history, storeVars
  <2>2. CallTypes' /\ ArgLaw'
    BY <2>1, Known, CallsStay DEF versions
  <2>3. Sound(store') /\ WithinBudget' /\ HeldLaw' /\ VersionLaw'
    BY <2>1, Known, StoreStays, HeldStays, VersionStays
  <2>4. FlightLaw'
    BY <2>1, Known DEF FlightLaw, Answered, versions
  <2>5. WorldTypes'
    BY <2>1, Known DEF WorldTypes, versions
  <2> QED
    BY <2>2, <2>3, <2>4, <2>5, Parts
<1> QED
  BY <1>1, <1>2, <1>3, <1>4, <1>5 DEF Next

\* TrInv is an invariant of the transport.
LEMMA TransportInvariance == Spec => []TrInv
BY InitTrInv, NextTrInv, PTL DEF Spec

-----------------------------------------------------------------------------

\* However fetches, refreshes, writes and evictions interleave, what the cache
\* serves was superseded at most MaxFetch + TTL + SWR ago.
THEOREM StalenessIsBounded == Spec => []StaleAtMost
<1>1. TrInv => StaleAtMost
  <2> SUFFICES ASSUME TrInv, NEW k \in Keys, Found(k)
               PROVE  now <= replaced[k][store.items[k].body] + MaxFetch
                                 + store.items[k].TTL + store.items[k].SWR
    BY DEF StaleAtMost
  <2> DEFINE e == store.items[k]
             r == replaced[k][e.body]
  <2>1. k \in DOMAIN store.items /\ ~(now > e.created + e.TTL + e.SWR)
    BY DEF Found, PastDeadline
  <2>2. e.created \in Nat /\ e.TTL \in Nat /\ e.SWR \in Nat
    BY <2>1, Known, SoundItems DEF Entries
  <2>3. e.created <= r + MaxFetch /\ e.body \in 1..server[k]
    BY <2>1, Known DEF HeldLaw
  <2>4. r \in Nat
    <3>1. server[k] \in 1..MaxVersion /\ replaced[k] \in [1..MaxVersion -> Nat]
      BY Known DEF WorldTypes
    <3>2. e.body \in 1..MaxVersion
      BY <2>3, <3>1, Known
    <3> QED
      BY <3>1, <3>2
  <2> HIDE DEF e, r
  <2>5. now <= r + MaxFetch + e.TTL + e.SWR
    BY <2>1, <2>2, <2>3, <2>4, Known
  <2> QED
    BY <2>5 DEF e, r
<1> QED
  BY <1>1, TransportInvariance, PTL

\* Data older than an acknowledged write is in the cache only if a fetch carried
\* it while that write flushed.
THEOREM WritesFlush == Spec => []FlushedUnlessInFlight
<1>1. TrInv => FlushedUnlessInFlight
  BY Known DEF HeldLaw, FlushedUnlessInFlight
<1> QED
  BY <1>1, TransportInvariance, PTL

\* The store keeps its own promises under the transport.
THEOREM TransportKeepsStore == Spec => [](InTandem /\ WithinBudget)
<1>1. TrInv => InTandem /\ WithinBudget
  BY SoundInTandem DEF TrInv, StoreInv
<1> QED
  BY <1>1, TransportInvariance, PTL

-----------------------------------------------------------------------------
(* The safety half of CallsReturn.                                            *)

\* Whoever waits for a fetch has one to wait for.
WaitersHaveFetch ==
    \A c \in Callers : pc[c] = "waiting" => flight[arg[c]] # NoFlight

\* A fetch that began, or has its answer, is one.
LEMMA SinceTells ==
    ASSUME NEW f, f.since \in Nat
    PROVE  f # NoFlight
<1>1. NoFlight.since = -1
  BY DEF NoFlight
<1> QED
  BY <1>1

\* Fetches stay and nobody new waits.
LEMMA WaitersStay ==
    ASSUME TrInv, WaitersHaveFetch,
           \A d \in Callers : pc'[d] = "waiting" => pc[d] = "waiting" /\ arg'[d] = arg[d],
           \A k \in Keys : flight[k] # NoFlight => flight'[k] # NoFlight
    PROVE  WaitersHaveFetch'
<1> SUFFICES ASSUME NEW d \in Callers, pc'[d] = "waiting"
             PROVE  flight'[arg'[d]] # NoFlight
  BY DEF WaitersHaveFetch, NoFlight, NoEntry, Entry
<1>1. arg[d] \in Keys
  BY Known DEF ArgLaw
<1> QED
  BY <1>1 DEF WaitersHaveFetch

\* A call that goes anywhere but to wait.
LEMMA GoneElsewhere ==
    ASSUME TrInv, NEW c \in Callers,
           NEW where \in {"idle", "miss", "write", "written"},
           NEW k \in Keys \cup {AnyKey}, NEW e \in Entries, NEW w \in Nat,
           Go(c, where, k, e, w)
    PROVE  \A d \in Callers : pc'[d] = "waiting" => pc[d] = "waiting" /\ arg'[d] = arg[d]
BY Known, GoTypes

\* The step of beginning or joining a fetch leaves one for its key.
LEMMA LeadLeavesOne ==
    ASSUME TrInv, NEW k \in Keys, NEW e \in Entries, NEW by \in Leaders,
           IF flight[k] = NoFlight THEN Lead(k, e, by) ELSE UNCHANGED flight
    PROVE  /\ flight'[k] # NoFlight
           /\ \A x \in Keys : flight[x] # NoFlight => flight'[x] # NoFlight
<1>1. CASE flight[k] # NoFlight
  BY <1>1
<1>2. CASE flight[k] = NoFlight
  <2> DEFINE f == Led(NoFlight, now, by, e)
  <2>1. f.since = now
    BY Known, NoFlightType, FlightLed
  <2>2. flight' = [flight EXCEPT ![k] = f]
    BY <1>2 DEF Lead, Led
  <2> HIDE DEF f
  <2>3. f # NoFlight
    BY <2>1, Known, SinceTells
  <2>4. flight'[k] = f /\ \A x \in Keys \ {k} : flight'[x] = flight[x]
    BY <2>2, Known DEF WorldTypes
  <2> QED
    BY <2>3, <2>4
<1> QED
  BY <1>1, <1>2

\* Every step preserves it.
LEMMA NextWaiters ==
    TrInv /\ WaitersHaveFetch /\ [Next]_vars => WaitersHaveFetch'
<1> SUFFICES ASSUME TrInv, WaitersHaveFetch, [Next]_vars
             PROVE  WaitersHaveFetch'
  OBVIOUS
<1>1. ASSUME NEW c \in Callers, NEW k \in Keys, Lookup(c, k)
      PROVE  WaitersHaveFetch'
  <2> DEFINE entry == IF Found(k) THEN store.items[k] ELSE NoEntry
  <2>1. UNCHANGED flight /\ (UNCHANGED callVars \/ Go(c, "miss", k, entry, 0))
    BY <1>1 DEF Lookup
  <2>2. entry \in Entries
    BY Known, NoEntryType, SoundItems DEF Found
  <2> HIDE DEF entry
  <2> QED
    BY <2>1, <2>2, GoneElsewhere, WaitersStay DEF callVars
<1>2. ASSUME NEW c \in Callers, NEW k \in Keys, BeginWrite(c, k)
      PROVE  WaitersHaveFetch'
  BY <1>2, NoEntryType, GoneElsewhere, WaitersStay DEF BeginWrite
<1>3. ASSUME NEW c \in Callers, FetchOrJoin(c)
      PROVE  WaitersHaveFetch'
  <2>1. arg[c] \in Keys /\ prev[c] \in Entries
    BY <1>3, Known DEF FetchOrJoin, ArgLaw, CallTypes
  <2>2. /\ flight'[arg[c]] # NoFlight
        /\ \A x \in Keys : flight[x] # NoFlight => flight'[x] # NoFlight
    BY <1>3, <2>1, LeadLeavesOne DEF FetchOrJoin, Leaders
  <2>3. /\ arg'[c] = arg[c]
        /\ \A d \in Callers \ {c} : pc'[d] = pc[d] /\ arg'[d] = arg[d]
    BY <1>3, <2>1, Known, NoEntryType, GoTypes DEF FetchOrJoin
  <2> SUFFICES ASSUME NEW d \in Callers, pc'[d] = "waiting"
               PROVE  flight'[arg'[d]] # NoFlight
    BY DEF WaitersHaveFetch, NoFlight, NoEntry, Entry
  <2>4. CASE d = c
    BY <2>2, <2>3, <2>4
  <2>5. CASE d # c
    <3>1. pc[d] = "waiting" /\ arg'[d] = arg[d] /\ arg[d] \in Keys
      BY <2>3, <2>5, Known DEF ArgLaw
    <3> QED
      BY <2>2, <3>1 DEF WaitersHaveFetch
  <2> QED
    BY <2>4, <2>5
<1>4. ASSUME NEW c \in Callers, ServerWrites(c)
      PROVE  WaitersHaveFetch'
  <2>1. arg[c] \in Keys
    BY <1>4, Known DEF ServerWrites, ArgLaw
  <2>2. server[arg[c]] + 1 \in Nat
    BY <2>1, Known DEF WorldTypes
  <2>3. Go(c, "written", arg[c], NoEntry, server[arg[c]] + 1) /\ UNCHANGED flight
    BY <1>4 DEF ServerWrites
  <2> QED
    BY <2>1, <2>2, <2>3, NoEntryType, GoneElsewhere, WaitersStay
<1>5. ASSUME NEW c \in Callers, WriteFails(c) \/ WriteSucceeds(c)
      PROVE  WaitersHaveFetch'
  <2>1. Go(c, "idle", AnyKey, NoEntry, 0) /\ UNCHANGED flight
    BY <1>5 DEF WriteFails, WriteSucceeds, Return
  <2> QED
    BY <2>1, NoEntryType, GoneElsewhere, WaitersStay
<1>6. ASSUME NEW k \in Keys, ServerAnswers(k)
      PROVE  WaitersHaveFetch'
  <2>1. PICK status \in {"ok", "not_found", "not_modified", "error"} :
          flight' = [flight EXCEPT ![k].status = status, ![k].body = server[k]]
    BY <1>6 DEF ServerAnswers
  <2>2. flight[k] \in Flights /\ status \in Statuses /\ server[k] \in Nat
    BY Known DEF WorldTypes, Statuses
  <2>3. /\ flight'[k] = Landed(flight[k], status, server[k])
        /\ \A x \in Keys \ {k} : flight'[x] = flight[x]
    BY <2>1, Known DEF WorldTypes, Landed
  <2>4. flight'[k].since = flight[k].since
    BY <2>2, <2>3, FlightAnswered
  <2>5. flight[k].since \in Nat
    <3>1. flight[k].since \in 0..now
      BY <1>6, Known DEF ServerAnswers, FlightLaw
    <3> QED
      BY <3>1, Known
  <2>6. flight'[k] # NoFlight
    BY <2>4, <2>5, SinceTells
  <2>7. UNCHANGED callVars
    BY <1>6 DEF ServerAnswers
  <2> QED
    BY <2>3, <2>6, <2>7, WaitersStay DEF callVars
<1>7. ASSUME NEW k \in Keys, wake(k)
      PROVE  WaitersHaveFetch'
  <2> SUFFICES ASSUME NEW d \in Callers, pc'[d] = "waiting"
               PROVE  flight'[arg'[d]] # NoFlight
    BY DEF WaitersHaveFetch, NoFlight, NoEntry, Entry
  <2>1. pc[d] = "waiting" /\ arg[d] # k /\ arg'[d] = arg[d]
    BY <1>7 DEF wake
  <2>2. arg[d] \in Keys
    BY <2>1, Known DEF ArgLaw
  <2>3. flight'[arg[d]] = flight[arg[d]]
    BY <1>7, <2>1, <2>2, Known DEF wake, WorldTypes
  <2> QED
    BY <2>1, <2>3 DEF WaitersHaveFetch
<1>8. ASSUME NEW k \in Keys, Refresh(k)
      PROVE  WaitersHaveFetch'
  <2>1. PICK e \in pending[k] :
          IF flight[k] = NoFlight THEN Lead(k, e, "refresh") ELSE UNCHANGED flight
    BY <1>8 DEF Refresh
  <2>2. e \in Entries
    BY <2>1, Known DEF WorldTypes
  <2>3. \A x \in Keys : flight[x] # NoFlight => flight'[x] # NoFlight
    BY <2>1, <2>2, LeadLeavesOne DEF Leaders
  <2>4. UNCHANGED callVars
    BY <1>8 DEF Refresh
  <2> QED
    BY <2>3, <2>4, WaitersStay DEF callVars
<1>9. ASSUME UNCHANGED callVars, UNCHANGED flight
      PROVE  WaitersHaveFetch'
  BY <1>9, WaitersStay DEF callVars
<1> QED
  BY <1>1, <1>2, <1>3, <1>4, <1>5, <1>6, <1>7, <1>8, <1>9
     DEF Next, CallStep, FlightStep, FetchLands, FetchFails, TimePasses, vars

\* Nobody waits for a fetch that is over: the caller that joined a flight in its
\* last moment is woken by it, or leads the next one.
THEOREM NobodyStranded == Spec => []WaitersHaveFetch
<1>1. Init => WaitersHaveFetch
  BY DEF Init, WaitersHaveFetch
<1> QED
  BY <1>1, NextWaiters, TransportInvariance, PTL DEF Spec
=============================================================================
