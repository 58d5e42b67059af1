---------------------------- MODULE TrackerProofs ----------------------------
(***************************************************************************)
(* What the operations of the idempotency tracker do to the ids they hold, *)
(* for every cache and topic: what is added, what can be evicted, and when *)
(* nothing is.  The proofs about the runtime and the consumers cite these. *)
(***************************************************************************)
EXTENDS IdempotencyTracker, FiniteSetTheorems, SequenceTheorems, TLAPS

\* No id is twice in the sequence.
Distinct(s) == \A i, j \in DOMAIN s : s[i] = s[j] => i = j

-----------------------------------------------------------------------------
\* Elements.

\* A sequence is over a set exactly if its elements are in it.
LEMMA ElementsType ==
  ASSUME NEW S, NEW s \in Seq(S)
  PROVE  Elements(s) \subseteq S
  BY DEF Elements

\* The elements of a sequence that got one more.
LEMMA ElementsAppend ==
  ASSUME NEW S, NEW s \in Seq(S), NEW t \in S
  PROVE  Elements(Append(s, t)) = Elements(s) \cup {t}
  <1>1. /\ Len(Append(s, t)) = Len(s) + 1
        /\ DOMAIN Append(s, t) = 1 .. Len(s) + 1
        /\ \A i \in 1 .. Len(s) : Append(s, t)[i] = s[i]
        /\ Append(s, t)[Len(s) + 1] = t
        /\ DOMAIN s = 1 .. Len(s) /\ Len(s) \in Nat
    OBVIOUS
  <1>2. ASSUME NEW x \in Elements(Append(s, t)) PROVE x \in Elements(s) \cup {t}
    BY <1>1 DEF Elements
  <1>3. ASSUME NEW x \in Elements(s) \cup {t} PROVE x \in Elements(Append(s, t))
    <2>1. CASE x = t
      BY <1>1, <2>1 DEF Elements
    <2>2. CASE x \in Elements(s)
      BY <1>1, <2>2 DEF Elements
    <2> QED
      BY <2>1, <2>2
  <1> QED
    BY <1>2, <1>3

\* A sequence without its i-th element, place by place.
LEMMA DropStep ==
  ASSUME NEW S, NEW s \in Seq(S), NEW i \in 1 .. Len(s)
  PROVE  LET r == SubSeq(s, 1, i - 1) \o SubSeq(s, i + 1, Len(s))
         IN  /\ r \in Seq(S) /\ Len(r) = Len(s) - 1
             /\ \A j \in 1 .. Len(r) : r[j] = IF j < i THEN s[j] ELSE s[j + 1]
  <1> DEFINE a == SubSeq(s, 1, i - 1)
             b == SubSeq(s, i + 1, Len(s))
  <1>1. a \in Seq(S) /\ Len(a) = i - 1 /\ \A j \in 1 .. i - 1 : a[j] = s[j]
    OBVIOUS
  <1>2. /\ b \in Seq(S) /\ Len(b) = Len(s) - i
        /\ \A j \in 1 .. Len(s) - i : b[j] = s[i + j]
    OBVIOUS
  <1> HIDE DEF a, b
  <1>3. /\ a \o b \in Seq(S) /\ Len(a \o b) = Len(s) - 1
        /\ \A j \in 1 .. Len(s) - 1 :
             (a \o b)[j] = IF j <= Len(a) THEN a[j] ELSE b[j - Len(a)]
    <2>1. /\ a \o b \in Seq(S) /\ Len(a \o b) = Len(a) + Len(b)
          /\ \A j \in 1 .. Len(a) + Len(b) :
               (a \o b)[j] = IF j <= Len(a) THEN a[j] ELSE b[j - Len(a)]
      BY <1>1, <1>2, ConcatProperties, Zenon
    <2>2. Len(a) + Len(b) = Len(s) - 1
      BY <1>1, <1>2
    <2> QED
      BY <2>1, <2>2, Zenon
  <1>4. ASSUME NEW j \in 1 .. Len(s) - 1
        PROVE  (a \o b)[j] = IF j < i THEN s[j] ELSE s[j + 1]
    <2>1. CASE j < i
      BY <1>1, <1>3, <2>1
    <2>2. CASE j >= i
      <3>1. j - Len(a) = j - i + 1 /\ j - i + 1 \in 1 .. Len(s) - i
        BY <1>1, <2>2
      <3>2. (a \o b)[j] = b[j - i + 1]
        BY <1>1, <1>3, <2>2, <3>1
      <3>3. b[j - i + 1] = s[i + (j - i + 1)] /\ i + (j - i + 1) = j + 1
        BY <1>2, <3>1
      <3> QED
        BY <2>2, <3>2, <3>3
    <2>3. j < i \/ j >= i
      OBVIOUS
    <2> QED
      BY <2>1, <2>2, <2>3, Zenon
  <1> QED
    BY <1>3, <1>4 DEF a, b

-----------------------------------------------------------------------------
\* without and touch.

\* Only the key itself goes.
LEMMA WithoutProperties ==
  ASSUME NEW S, NEW s \in Seq(S), NEW t
  PROVE  /\ without(s, t) \in Seq(S)
         /\ Len(without(s, t)) = IF t \in Elements(s) THEN Len(s) - 1 ELSE Len(s)
         /\ Elements(without(s, t)) \cup {t} = Elements(s) \cup {t}
         /\ Distinct(s) => Distinct(without(s, t)) /\ t \notin Elements(without(s, t))
  <1>1. CASE t \notin Elements(s)
    BY <1>1 DEF without
  <1>2. CASE t \in Elements(s)
    <2> DEFINE i == CHOOSE i \in DOMAIN s : s[i] = t
               r == SubSeq(s, 1, i - 1) \o SubSeq(s, i + 1, Len(s))
    <2>1. i \in 1 .. Len(s) /\ s[i] = t
      BY <1>2 DEF Elements
    <2>2. without(s, t) = r
      BY <1>2 DEF without
    <2> HIDE DEF i
    <2>3. /\ r \in Seq(S) /\ Len(r) = Len(s) - 1
          /\ \A j \in 1 .. Len(r) : r[j] = IF j < i THEN s[j] ELSE s[j + 1]
      BY <2>1, DropStep, Zenon
    <2> HIDE DEF r
    <2>4. DOMAIN r = 1 .. Len(s) - 1 /\ DOMAIN s = 1 .. Len(s) /\ Len(s) \in Nat
      BY <2>3
    <2>5. ASSUME NEW x \in Elements(r) PROVE x \in Elements(s)
      <3>1. PICK k \in 1 .. Len(s) - 1 : x = r[k]
        BY <2>4 DEF Elements
      <3>2. k \in DOMAIN s /\ k + 1 \in DOMAIN s /\ x \in {s[k], s[k + 1]}
        BY <2>1, <2>3, <2>4, <3>1
      <3> QED
        BY <3>2 DEF Elements
    <2>6. ASSUME NEW x \in Elements(s), x # t PROVE x \in Elements(r)
      <3>1. PICK k \in 1 .. Len(s) : x = s[k]
        BY <2>4 DEF Elements
      <3>2. CASE k < i
        <4>1. k \in DOMAIN r /\ r[k] = s[k]
          BY <2>1, <2>3, <2>4, <3>2
        <4> QED
          BY <3>1, <4>1 DEF Elements
      <3>3. CASE k > i
        <4>1. k - 1 \in DOMAIN r /\ r[k - 1] = s[k]
          BY <2>1, <2>3, <2>4, <3>3
        <4> QED
          BY <3>1, <4>1 DEF Elements
      <3>4. k # i
        BY <2>1, <2>6, <3>1
      <3> QED
        BY <2>1, <3>2, <3>3, <3>4
    <2>7. ASSUME Distinct(s) PROVE Distinct(r) /\ t \notin Elements(r)
      BY <2>1, <2>3, <2>4, <2>7 DEF Distinct, Elements
    <2> QED
      BY <1>2, <2>2, <2>3, <2>5, <2>6, <2>7
  <1> QED
    BY <1>1, <1>2

\* The key is there afterwards, and nothing else has changed.
LEMMA TouchProperties ==
  ASSUME NEW S, NEW s \in Seq(S), NEW t \in S
  PROVE  /\ touch(s, t) \in Seq(S)
         /\ Len(touch(s, t)) = IF t \in Elements(s) THEN Len(s) ELSE Len(s) + 1
         /\ touch(s, t)[Len(touch(s, t))] = t
         /\ Elements(touch(s, t)) = Elements(s) \cup {t}
         /\ Distinct(s) => Distinct(touch(s, t))
  <1> DEFINE r == without(s, t)
  <1>1. /\ r \in Seq(S) /\ Len(r) = IF t \in Elements(s) THEN Len(s) - 1 ELSE Len(s)
        /\ Elements(r) \cup {t} = Elements(s) \cup {t}
        /\ Distinct(s) => Distinct(r) /\ t \notin Elements(r)
    BY WithoutProperties, Zenon
  <1>2. touch(s, t) = Append(r, t)
    BY DEF touch
  <1> HIDE DEF r
  <1>3. /\ touch(s, t) \in Seq(S) /\ Len(touch(s, t)) = Len(r) + 1
        /\ touch(s, t)[Len(r) + 1] = t
        /\ \A i \in 1 .. Len(r) : touch(s, t)[i] = r[i]
        /\ DOMAIN touch(s, t) = 1 .. Len(r) + 1
        /\ DOMAIN r = 1 .. Len(r) /\ Len(r) \in Nat /\ Len(s) \in Nat
    BY <1>1, <1>2
  <1>4. Elements(touch(s, t)) = Elements(s) \cup {t}
    BY <1>1, <1>2, ElementsAppend
  <1>5. ASSUME Distinct(s) PROVE Distinct(touch(s, t))
    BY <1>1, <1>3, <1>5 DEF Distinct, Elements
  <1> QED
    BY <1>1, <1>3, <1>4, <1>5

-----------------------------------------------------------------------------
\* newest, the cache and its rebuild.

\* The last n elements, place by place.
LEMMA NewestStep ==
  ASSUME NEW S, NEW s \in Seq(S), NEW n \in Nat, Len(s) > n
  PROVE  /\ newest(s, n) \in Seq(S) /\ Len(newest(s, n)) = n
         /\ \A j \in 1 .. n : newest(s, n)[j] = s[Len(s) - n + j]
  <1>1. newest(s, n) = SubSeq(s, Len(s) - n + 1, Len(s))
    BY DEF newest
  <1> QED
    BY <1>1

\* Nothing new gets in, the last element stays, and what fits is kept.
LEMMA NewestProperties ==
  ASSUME NEW S, NEW s \in Seq(S), NEW n \in Nat
  PROVE  /\ newest(s, n) \in Seq(S) /\ Len(newest(s, n)) <= n
         /\ Elements(newest(s, n)) \subseteq Elements(s)
         /\ Len(s) <= n => newest(s, n) = s
         /\ Distinct(s) => Distinct(newest(s, n))
         /\ n > 0 /\ Len(s) > 0 => s[Len(s)] \in Elements(newest(s, n))
  <1>0. Len(s) \in Nat /\ DOMAIN s = 1 .. Len(s)
    OBVIOUS
  <1>1. CASE Len(s) <= n
    BY <1>0, <1>1 DEF newest, Elements
  <1>2. CASE Len(s) > n
    <2> DEFINE r == newest(s, n)
    <2>1. /\ r \in Seq(S) /\ Len(r) = n /\ DOMAIN r = 1 .. n
          /\ \A j \in 1 .. n : r[j] = s[Len(s) - n + j]
      BY <1>2, NewestStep
    <2> HIDE DEF r
    <2>2. \A j \in 1 .. n : Len(s) - n + j \in DOMAIN s
      BY <1>0, <1>2
    <2>3. Elements(r) \subseteq Elements(s)
      BY <2>1, <2>2 DEF Elements
    <2>4. ASSUME Distinct(s) PROVE Distinct(r)
      <3> SUFFICES ASSUME NEW i \in 1 .. n, NEW j \in 1 .. n, r[i] = r[j] PROVE i = j
        BY <2>1 DEF Distinct
      <3>1. s[Len(s) - n + i] = s[Len(s) - n + j]
        BY <2>1
      <3>2. Len(s) - n + i = Len(s) - n + j
        BY <2>2, <2>4, <3>1 DEF Distinct
      <3> QED
        BY <1>0, <3>2
    <2>5. ASSUME n > 0 PROVE s[Len(s)] \in Elements(r)
      <3>1. n \in DOMAIN r /\ r[n] = s[Len(s)]
        BY <1>0, <1>2, <2>1, <2>5
      <3> QED
        BY <3>1 DEF Elements
    <2> QED
      BY <1>0, <1>2, <2>1, <2>3, <2>4, <2>5 DEF r
  <1> QED
    BY <1>0, <1>1, <1>2

\* add() keeps the cache within its size, and forgets nothing while it fits.
LEMMA LruAddProperties ==
  ASSUME NEW S, NEW s \in Seq(S), NEW t \in S
  PROVE  /\ lru_add(s, t) \in Seq(S) /\ Len(lru_add(s, t)) <= LRU_SIZE
         /\ t \in Elements(lru_add(s, t))
         /\ Elements(lru_add(s, t)) \subseteq Elements(s) \cup {t}
         /\ Len(touch(s, t)) <= LRU_SIZE => Elements(lru_add(s, t)) = Elements(s) \cup {t}
         /\ Distinct(s) => Distinct(lru_add(s, t))
  <1> DEFINE r == touch(s, t)
  <1>0. LRU_SIZE \in Nat /\ LRU_SIZE > 0
    BY TrackerAssumption
  <1>1. /\ r \in Seq(S) /\ r[Len(r)] = t /\ Elements(r) = Elements(s) \cup {t}
        /\ (Distinct(s) => Distinct(r))
    BY TouchProperties
  <1>2. Len(r) > 0
    <2>1. Len(r) = IF t \in Elements(s) THEN Len(s) ELSE Len(s) + 1
      BY TouchProperties, Zenon
    <2>2. Len(s) \in Nat /\ (t \in Elements(s) => Len(s) > 0)
      BY DEF Elements
    <2> QED
      BY <2>1, <2>2
  <1> HIDE DEF r
  <1>3. /\ newest(r, LRU_SIZE) \in Seq(S) /\ Len(newest(r, LRU_SIZE)) <= LRU_SIZE
        /\ Elements(newest(r, LRU_SIZE)) \subseteq Elements(r)
        /\ Len(r) <= LRU_SIZE => newest(r, LRU_SIZE) = r
        /\ Distinct(r) => Distinct(newest(r, LRU_SIZE))
        /\ LRU_SIZE > 0 /\ Len(r) > 0 => r[Len(r)] \in Elements(newest(r, LRU_SIZE))
    BY <1>0, <1>1, NewestProperties, Zenon
  <1>4. lru_add(s, t) = newest(r, LRU_SIZE)
    BY DEF lru_add, r
  <1> QED
    BY <1>0, <1>1, <1>2, <1>3, <1>4, Zenon DEF r

\* A rebuilt cache holds ids of the topic: all that fit, and always the last.
LEMMA RebuildProperties ==
  ASSUME NEW S, NEW ids \in Seq(S)
  PROVE  /\ rebuild(ids) \in Seq(S) /\ Len(rebuild(ids)) <= LRU_SIZE
         /\ Elements(rebuild(ids)) \subseteq Elements(ids)
         /\ Len(ids) <= LRU_SIZE => rebuild(ids) = ids
         /\ Distinct(ids) => Distinct(rebuild(ids))
         /\ Len(ids) > 0 => ids[Len(ids)] \in Elements(rebuild(ids))
  BY TrackerAssumption, NewestProperties DEF rebuild

\* So does a rebuild that was cut short, except for the last.
LEMMA PartialRebuildProperties ==
  ASSUME NEW S, NEW ids \in Seq(S), NEW c \in partial_rebuilds(ids)
  PROVE  /\ c \in Seq(S) /\ Len(c) <= LRU_SIZE
         /\ Elements(c) \subseteq Elements(ids)
         /\ Distinct(ids) => Distinct(c)
  <1>1. PICK n \in 0 .. Len(ids) : c = rebuild(SubSeq(ids, 1, n))
    BY DEF partial_rebuilds
  <1> DEFINE p == SubSeq(ids, 1, n)
  <1>2. /\ p \in Seq(S) /\ Len(p) = n /\ DOMAIN p = 1 .. n
        /\ \A i \in 1 .. n : p[i] = ids[i]
        /\ DOMAIN ids = 1 .. Len(ids) /\ Len(ids) \in Nat
    OBVIOUS
  <1>3. c = rebuild(p)
    BY <1>1
  <1> HIDE DEF p
  <1>4. Elements(p) \subseteq Elements(ids)
    BY <1>2 DEF Elements
  <1>5. Distinct(ids) => Distinct(p)
    BY <1>2 DEF Distinct
  <1>6. /\ rebuild(p) \in Seq(S) /\ Len(rebuild(p)) <= LRU_SIZE
        /\ Elements(rebuild(p)) \subseteq Elements(p)
        /\ Distinct(p) => Distinct(rebuild(p))
    BY <1>2, RebuildProperties, Zenon
  <1> QED
    BY <1>3, <1>4, <1>5, <1>6

-----------------------------------------------------------------------------
\* How much is forgotten.

\* The places of a sequence.
LEMMA IntervalFinite ==
  ASSUME NEW a \in Nat, NEW b \in Nat
  PROVE  /\ IsFiniteSet(a + 1 .. b)
         /\ Cardinality(a + 1 .. b) = IF b > a THEN b - a ELSE 0
         /\ IsFiniteSet(1 .. b) /\ Cardinality(1 .. b) = b
  <1>1. a + 1 \in Int /\ b \in Int /\ 1 \in Int
    OBVIOUS
  <1>2. /\ IsFiniteSet(a + 1 .. b)
        /\ Cardinality(a + 1 .. b) = IF a + 1 > b THEN 0 ELSE b - (a + 1) + 1
    BY <1>1, FS_Interval, Zenon
  <1>3. /\ IsFiniteSet(1 .. b)
        /\ Cardinality(1 .. b) = IF 1 > b THEN 0 ELSE b - 1 + 1
    BY <1>1, FS_Interval, Zenon
  <1>4. (IF a + 1 > b THEN 0 ELSE b - (a + 1) + 1) = IF b > a THEN b - a ELSE 0
    OBVIOUS
  <1>5. (IF 1 > b THEN 0 ELSE b - 1 + 1) = b
    OBVIOUS
  <1> QED
    BY <1>2, <1>3, <1>4, <1>5

\* A sequence without repetitions is no longer than one that has its elements.
LEMMA DistinctIsShort ==
  ASSUME NEW S, NEW s \in Seq(S), NEW r \in Seq(S),
         Distinct(s), Elements(s) \subseteq Elements(r)
  PROVE  Len(s) <= Len(r)
  <1>0. /\ Len(s) \in Nat /\ DOMAIN s = 1 .. Len(s)
        /\ Len(r) \in Nat /\ DOMAIN r = 1 .. Len(r)
    OBVIOUS
  <1> SUFFICES ASSUME Len(r) < Len(s) PROVE FALSE
    BY <1>0
  <1> DEFINE f == [i \in 1 .. Len(s) |-> CHOOSE j \in 1 .. Len(r) : r[j] = s[i]]
  <1>1. \A i \in 1 .. Len(s) : f[i] \in 1 .. Len(r) /\ r[f[i]] = s[i]
    <2> TAKE i \in 1 .. Len(s)
    <2>1. s[i] \in Elements(r)
      BY <1>0 DEF Elements
    <2>2. \E j \in 1 .. Len(r) : r[j] = s[i]
      BY <1>0, <2>1 DEF Elements
    <2> QED
      BY <2>2
  <1>2. f \in [1 .. Len(s) -> 1 .. Len(r)]
    BY <1>1
  <1> HIDE DEF f
  <1>3. /\ IsFiniteSet(1 .. Len(s)) /\ Cardinality(1 .. Len(s)) = Len(s)
        /\ IsFiniteSet(1 .. Len(r)) /\ Cardinality(1 .. Len(r)) = Len(r)
    BY <1>0, IntervalFinite
  <1>4. \E x, y \in 1 .. Len(s) : x # y /\ f[x] = f[y]
    BY <1>2, <1>3, FS_PigeonHole
  <1> QED
    BY <1>0, <1>1, <1>4 DEF Distinct

\* A cache whose ids are on a topic that fits in it evicts none for a new id
\* that makes the topic no longer than the cache.
LEMMA NoEviction ==
  ASSUME NEW S, NEW s \in Seq(S), NEW ids \in Seq(S), NEW t \in S,
         Distinct(s), Elements(s) \subseteq Elements(ids),
         Len(touch(ids, t)) <= LRU_SIZE
  PROVE  Elements(lru_add(s, t)) = Elements(s) \cup {t}
  <1>1. /\ touch(s, t) \in Seq(S) /\ Distinct(touch(s, t))
        /\ Elements(touch(s, t)) = Elements(s) \cup {t}
    BY TouchProperties
  <1>2. /\ touch(ids, t) \in Seq(S)
        /\ Elements(touch(ids, t)) = Elements(ids) \cup {t}
    BY TouchProperties, Zenon
  <1>3. Len(touch(s, t)) <= Len(touch(ids, t))
    BY <1>1, <1>2, DistinctIsShort
  <1>4. Len(touch(s, t)) <= LRU_SIZE
    BY <1>1, <1>2, <1>3, TrackerAssumption
  <1> QED
    BY <1>4, LruAddProperties

\* A sequence has finitely many elements.
LEMMA ElementsFinite ==
  ASSUME NEW S, NEW s \in Seq(S)
  PROVE  IsFiniteSet(Elements(s)) /\ Cardinality(Elements(s)) <= Len(s)
  <1>0. Len(s) \in Nat /\ DOMAIN s = 1 .. Len(s)
    OBVIOUS
  <1> DEFINE f == [i \in 1 .. Len(s) |-> s[i]]
  <1>1. f \in Surjection(1 .. Len(s), Elements(s))
    <2>1. \A i \in 1 .. Len(s) : s[i] \in Elements(s)
      BY <1>0 DEF Elements
    <2>2. f \in [1 .. Len(s) -> Elements(s)]
      BY <2>1
    <2>3. \A x \in Elements(s) : \E i \in 1 .. Len(s) : f[i] = x
      BY <1>0 DEF Elements
    <2> QED
      BY <2>2, <2>3 DEF Surjection
  <1>2. IsFiniteSet(1 .. Len(s)) /\ Cardinality(1 .. Len(s)) = Len(s)
    BY <1>0, IntervalFinite
  <1> QED
    BY <1>1, <1>2, FS_Surjection

\* A rebuild forgets no more than the topic exceeds the cache.
LEMMA RebuildForgets ==
  ASSUME NEW S, NEW ids \in Seq(S)
  PROVE  LET gone == Elements(ids) \ Elements(rebuild(ids))
         IN  /\ IsFiniteSet(gone)
             /\ Cardinality(gone) <= Cardinality(LRU_SIZE + 1 .. Len(ids))
  <1> DEFINE gone == Elements(ids) \ Elements(rebuild(ids))
  <1>0. /\ Len(ids) \in Nat /\ DOMAIN ids = 1 .. Len(ids)
        /\ LRU_SIZE \in Nat /\ LRU_SIZE > 0
    BY TrackerAssumption
  <1>1. CASE Len(ids) <= LRU_SIZE
    <2>1. gone = {}
      BY <1>1, RebuildProperties
    <2>2. LRU_SIZE + 1 .. Len(ids) = {}
      BY <1>0, <1>1
    <2>3. IsFiniteSet({}) /\ Cardinality({}) <= Cardinality({})
      BY FS_EmptySet
    <2> QED
      BY <2>1, <2>2, <2>3, Zenon
  <1>2. CASE Len(ids) > LRU_SIZE
    <2> DEFINE k == Len(ids) - LRU_SIZE
               old == SubSeq(ids, 1, k)
    <2>1. /\ old \in Seq(S) /\ Len(old) = k /\ DOMAIN old = 1 .. k
          /\ \A i \in 1 .. k : old[i] = ids[i]
      BY <1>0, <1>2
    <2>2. /\ Len(rebuild(ids)) = LRU_SIZE /\ rebuild(ids) \in Seq(S)
          /\ \A j \in 1 .. LRU_SIZE : rebuild(ids)[j] = ids[k + j]
      BY <1>0, <1>2, NewestStep DEF rebuild
    <2>3. gone \subseteq Elements(old)
      <3> SUFFICES ASSUME NEW x \in gone PROVE x \in Elements(old)
        OBVIOUS
      <3>1. PICK i \in 1 .. Len(ids) : x = ids[i]
        BY <1>0 DEF Elements
      <3>2. CASE i <= k
        <4>1. i \in 1 .. k
          BY <1>0, <3>2
        <4>2. i \in DOMAIN old /\ old[i] = ids[i]
          BY <2>1, <4>1, Zenon
        <4> QED
          BY <3>1, <4>2 DEF Elements
      <3>3. CASE i > k
        <4>1. i - k \in 1 .. LRU_SIZE /\ rebuild(ids)[i - k] = ids[i]
          BY <1>0, <2>2, <3>3
        <4>2. i - k \in DOMAIN rebuild(ids)
          BY <2>2, <4>1
        <4> QED
          BY <3>1, <4>1, <4>2 DEF Elements
      <3> QED
        BY <1>0, <3>2, <3>3
    <2>4. IsFiniteSet(Elements(old)) /\ Cardinality(Elements(old)) <= k
      BY <2>1, ElementsFinite
    <2>5. IsFiniteSet(gone) /\ Cardinality(gone) <= Cardinality(Elements(old))
      BY <2>3, <2>4, FS_Subset
    <2>6. /\ Cardinality(gone) \in Nat /\ Cardinality(Elements(old)) \in Nat
      BY <2>4, <2>5, FS_CardinalityType
    <2>7. Cardinality(LRU_SIZE + 1 .. Len(ids)) = k
      BY <1>0, <1>2, IntervalFinite
    <2> QED
      BY <1>0, <2>4, <2>5, <2>6, <2>7
  <1> QED
    BY <1>0, <1>1, <1>2

\* A set that two finite sets cover.
LEMMA Covered ==
  ASSUME NEW A, NEW B, NEW C, IsFiniteSet(A), IsFiniteSet(B), C \subseteq A \cup B
  PROVE  /\ IsFiniteSet(C) /\ Cardinality(C) <= Cardinality(A) + Cardinality(B)
         /\ Cardinality(A) \in Nat /\ Cardinality(B) \in Nat /\ Cardinality(C) \in Nat
  <1>1. /\ IsFiniteSet(A \cup B)
        /\ Cardinality(A \cup B) = Cardinality(A) + Cardinality(B) - Cardinality(A \cap B)
    BY FS_Union
  <1>2. IsFiniteSet(A \cap B)
    BY FS_Intersection
  <1>3. IsFiniteSet(C) /\ Cardinality(C) <= Cardinality(A \cup B)
    BY <1>1, FS_Subset
  <1>4. /\ Cardinality(A) \in Nat /\ Cardinality(B) \in Nat /\ Cardinality(C) \in Nat
        /\ Cardinality(A \cap B) \in Nat
    BY <1>2, <1>3, FS_CardinalityType
  <1> QED
    BY <1>1, <1>3, <1>4
=============================================================================
