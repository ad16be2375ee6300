------------------------- MODULE TimerManagerProofs -------------------------
(***************************************************************************)
(* Proofs about TimerManager, for any timers, callers, idle threads and    *)
(* intervals: the set stays ordered, no timer is lost, an idle thread      *)
(* wakes in time, and the whole implements TimerService.                   *)
(***************************************************************************)
EXTENDS TimerManager, FiniteSetTheorems, WellFoundedInduction, TLAPS

-----------------------------------------------------------------------------
(* The set: find(), insert() and erase() on an ordered sequence *)

ToSet(s) == {s[k] : k \in DOMAIN s}
InsertAt(s, p, t) == SubSeq(s, 1, p - 1) \o <<t>> \o SubSeq(s, p, Len(s))
RemoveAt(s, p) == SubSeq(s, 1, p - 1) \o SubSeq(s, p + 1, Len(s))

Ordered(next, s) == \A i, j \in DOMAIN s : i < j => Less(next, s[i], s[j])

LEMMA LeastNat ==
    ASSUME NEW T, T \subseteq Nat, T # {}
    PROVE  \E x \in T : \A y \in T : x <= y
<1> DEFINE R == OpToRel(<, Nat)
<1>1. PICK x \in T : \A y \in T : ~ (<<y, x>> \in R)
  <2> HIDE DEF R
  <2>1. IsWellFoundedOn(R, Nat)
    BY Zenon, NatLessThanWellFounded DEF R
  <2> QED
    BY Zenon, <2>1, WFMin
<1>2. \A y \in T : ~(y < x)
  BY Zenon, <1>1 DEF OpToRel
<1> QED
  BY <1>2

(* The comparator is a strict total order. *)
LEMMA Order ==
    ASSUME NEW next \in [Timers -> Nat]
    PROVE  /\ \A t \in Timers : ~Less(next, t, t)
           /\ \A t, u \in Timers : Less(next, t, u) => ~Less(next, u, t)
           /\ \A t, u \in Timers : t # u => Less(next, t, u) \/ Less(next, u, t)
           /\ \A t, u, v \in Timers : Less(next, t, u) /\ Less(next, u, v) => Less(next, t, v)
           /\ \A t, u \in Timers : Less(next, t, u) => next[t] <= next[u]
  BY TimerAssumption DEF Less

LEMMA Bound ==
    ASSUME NEW s \in Seq(Timers), NEW next, NEW t
    PROVE  LET p == LowerBound(next, s, t)
           IN  /\ p \in 1..Len(s) + 1
               /\ \A k \in 1..p - 1 : Less(next, s[k], t)
               /\ p <= Len(s) => ~Less(next, s[p], t)
  <1> DEFINE T == {p \in 1..Len(s) + 1 : p = Len(s) + 1 \/ ~Less(next, s[p], t)}
  <1>1. T \subseteq Nat /\ T # {}
    <2>1. Len(s) + 1 \in 1..Len(s) + 1 /\ 1..Len(s) + 1 \subseteq Nat
      OBVIOUS
    <2> QED
      BY Zenon, <2>1
  <1>2. PICK p \in T : \A q \in T : p <= q
    <2> HIDE DEF T
    <2> QED BY Zenon, <1>1, LeastNat
  <1>3. \A k \in 1..p - 1 : k \in 1..Len(s) + 1 /\ k # Len(s) + 1 /\ ~(p <= k)
    OBVIOUS
  <1>4. \A k \in 1..p - 1 : Less(next, s[k], t)
    BY Zenon, <1>2, <1>3
  <1>5. p <= Len(s) => p # Len(s) + 1
    OBVIOUS
  <1> QED
    BY Zenon, <1>4, <1>5 DEF LowerBound

(* find() finds what is there. *)
LEMMA Find ==
    ASSUME NEW next \in [Timers -> Nat], NEW s \in Seq(Timers), Ordered(next, s), NEW t \in Timers
    PROVE  /\ Found(next, s, t) <=> t \in ToSet(s)
           /\ Found(next, s, t) => LowerBound(next, s, t) \in 1..Len(s) /\ s[LowerBound(next, s, t)] = t
  <1> DEFINE p == LowerBound(next, s, t)
  <1>1. /\ p \in 1..Len(s) + 1
        /\ \A k \in 1..p - 1 : Less(next, s[k], t)
        /\ p <= Len(s) => ~Less(next, s[p], t)
    BY Zenon, Bound
  <1>2. Found(next, s, t) <=> p <= Len(s) /\ ~Less(next, t, s[p])
    BY Zenon DEF Found
  <1> HIDE DEF p
  <1>3. DOMAIN s = 1..Len(s) /\ \A k \in 1..Len(s) : s[k] \in Timers
    OBVIOUS
  <1>4. p <= Len(s) => p \in 1..Len(s)
    BY <1>1
  <1>5. Found(next, s, t) => p \in 1..Len(s) /\ s[p] = t
    BY Zenon, <1>1, <1>2, <1>3, <1>4, Order
  <1>6. ASSUME NEW k \in 1..Len(s), s[k] = t PROVE Found(next, s, t)
    <2>1. k \notin 1..p - 1
      BY Zenon, <1>1, <1>6, Order
    <2>2. p <= Len(s) /\ (p = k \/ p < k)
      BY <1>1, <2>1
    <2>3. ~(p < k)
      BY Zenon, <1>1, <1>3, <1>4, <1>6, <2>2 DEF Ordered
    <2> QED
      BY Zenon, <1>2, <1>6, <2>2, <2>3, Order
  <1> QED
    BY Zenon, <1>3, <1>5, <1>6 DEF ToSet, p

LEMMA Joined ==
    ASSUME NEW s \in Seq(Timers), NEW r \in Seq(Timers)
    PROVE  s \o r \in Seq(Timers) /\ Len(s \o r) = Len(s) + Len(r)
  <1>1. s \o r \in Seq(Timers)
    OBVIOUS
  <1>2. Len(s \o r) = Len(s) + Len(r)
    OBVIOUS
  <1> QED
    BY Zenon, <1>1, <1>2

LEMMA RemoveOne ==
    ASSUME NEW s \in Seq(Timers), NEW p \in 1..Len(s)
    PROVE  /\ RemoveAt(s, p) \in Seq(Timers) /\ DOMAIN RemoveAt(s, p) = 1..Len(s) - 1
           /\ \A k \in 1..Len(s) - 1 : RemoveAt(s, p)[k] = IF k < p THEN s[k] ELSE s[k + 1]
  <1> DEFINE front == SubSeq(s, 1, p - 1)
             rest == SubSeq(s, p + 1, Len(s))
  <1>1. /\ front \in Seq(Timers) /\ Len(front) = p - 1
        /\ \A j \in 1..p - 1 : front[j] = s[j]
    OBVIOUS
  <1>2. /\ rest \in Seq(Timers) /\ Len(rest) = Len(s) - p
        /\ \A j \in 1..Len(s) - p : rest[j] = s[p + j]
    OBVIOUS
  <1>3. RemoveAt(s, p) = front \o rest
    BY Zenon DEF RemoveAt
  <1> HIDE DEF front, rest
  <1>4. front \o rest \in Seq(Timers) /\ Len(front \o rest) = Len(s) - 1
    <2>1. front \o rest \in Seq(Timers) /\ Len(front \o rest) = Len(front) + Len(rest)
      BY Zenon, <1>1, <1>2, Joined
    <2>2. (p - 1) + (Len(s) - p) = Len(s) - 1
      OBVIOUS
    <2> QED BY Zenon, <1>1, <1>2, <2>1, <2>2
  <1>5. \A k \in 1..Len(s) - 1 : (front \o rest)[k] = IF k < p THEN front[k] ELSE rest[k - (p - 1)]
    BY <1>1, <1>2
  <1>6. \A k \in 1..Len(s) - 1 : ~(k < p) => rest[k - (p - 1)] = s[k + 1]
    <2> SUFFICES ASSUME NEW k \in 1..Len(s) - 1, ~(k < p) PROVE rest[k - (p - 1)] = s[k + 1]
      OBVIOUS
    <2>1. k - (p - 1) \in 1..Len(s) - p /\ p + (k - (p - 1)) = k + 1
      OBVIOUS
    <2> QED
      BY Zenon, <1>2, <2>1
  <1>7. \A k \in 1..Len(s) - 1 : k < p => front[k] = s[k]
    BY <1>1
  <1>8. DOMAIN (front \o rest) = 1..Len(s) - 1
    BY <1>4
  <1> QED
    BY Zenon, <1>3, <1>4, <1>5, <1>6, <1>7, <1>8

LEMMA InsertOne ==
    ASSUME NEW s \in Seq(Timers), NEW p \in 1..Len(s) + 1, NEW t \in Timers
    PROVE  /\ InsertAt(s, p, t) \in Seq(Timers) /\ DOMAIN InsertAt(s, p, t) = 1..Len(s) + 1
           /\ \A k \in 1..Len(s) + 1 : k < p => InsertAt(s, p, t)[k] = s[k]
           /\ \A k \in 1..Len(s) + 1 : k = p => InsertAt(s, p, t)[k] = t
           /\ \A k \in 1..Len(s) + 1 : ~(k < p) /\ k # p => InsertAt(s, p, t)[k] = s[k - 1]
  <1> DEFINE front == SubSeq(s, 1, p - 1)
             rest == SubSeq(s, p, Len(s))
             head == front \o <<t>>
  <1>1. /\ front \in Seq(Timers) /\ Len(front) = p - 1
        /\ \A j \in 1..p - 1 : front[j] = s[j]
    OBVIOUS
  <1>2. /\ rest \in Seq(Timers) /\ Len(rest) = Len(s) - p + 1
        /\ \A j \in 1..Len(s) - p + 1 : rest[j] = s[p + j - 1]
    OBVIOUS
  <1>3. InsertAt(s, p, t) = head \o rest
    BY Zenon DEF InsertAt
  <1>4. /\ head \in Seq(Timers) /\ Len(head) = p
        /\ \A j \in 1..p - 1 : head[j] = s[j]
        /\ head[p] = t
    <2> HIDE DEF front
    <2> QED BY <1>1
  <1> HIDE DEF head, rest
  <1>5. head \o rest \in Seq(Timers) /\ Len(head \o rest) = Len(s) + 1
    <2>1. head \o rest \in Seq(Timers) /\ Len(head \o rest) = Len(head) + Len(rest)
      BY Zenon, <1>2, <1>4, Joined
    <2>2. p + (Len(s) - p + 1) = Len(s) + 1
      OBVIOUS
    <2> QED BY Zenon, <1>2, <1>4, <2>1, <2>2
  <1>6. \A k \in 1..Len(s) + 1 : (head \o rest)[k] = IF k <= p THEN head[k] ELSE rest[k - p]
    BY <1>4, <1>2
  <1>7. \A k \in 1..Len(s) + 1 : ~(k <= p) => rest[k - p] = s[k - 1]
    <2> SUFFICES ASSUME NEW k \in 1..Len(s) + 1, ~(k <= p) PROVE rest[k - p] = s[k - 1]
      OBVIOUS
    <2>1. k - p \in 1..Len(s) - p + 1 /\ p + (k - p) - 1 = k - 1
      OBVIOUS
    <2> QED
      BY Zenon, <1>2, <2>1
  <1>8. DOMAIN (head \o rest) = 1..Len(s) + 1
    BY <1>5
  <1>9. \A k \in 1..Len(s) + 1 : (k <= p <=> k < p \/ k = p) /\ (k < p => k \in 1..p - 1 /\ k # p)
    OBVIOUS
  <1>10. /\ \A k \in 1..Len(s) + 1 : k < p => (head \o rest)[k] = s[k]
         /\ \A k \in 1..Len(s) + 1 : k = p => (head \o rest)[k] = t
         /\ \A k \in 1..Len(s) + 1 : ~(k < p) /\ k # p => (head \o rest)[k] = s[k - 1]
    BY Zenon, <1>4, <1>6, <1>7, <1>9
  <1> QED
    BY Zenon, <1>3, <1>5, <1>8, <1>10

LEMMA EraseSet ==
    ASSUME NEW next \in [Timers -> Nat], NEW s \in Seq(Timers), Ordered(next, s), NEW t \in Timers
    PROVE  LET r == Erase(next, s, t)
           IN  /\ r \in Seq(Timers) /\ Ordered(next, r)
               /\ ToSet(r) = ToSet(s) \ {t}
  <1> DEFINE p == LowerBound(next, s, t)
             r == RemoveAt(s, p)
  <1>1. CASE ~Found(next, s, t)
    BY Zenon, <1>1, Find DEF Erase
  <1>2. CASE Found(next, s, t)
    <2>1. p \in 1..Len(s) /\ s[p] = t
      BY Zenon, <1>2, Find
    <2>2. Erase(next, s, t) = r
      BY Zenon, <1>2 DEF Erase, RemoveAt
    <2> HIDE DEF p
    <2>3. /\ r \in Seq(Timers) /\ DOMAIN r = 1..Len(s) - 1
          /\ \A k \in 1..Len(s) - 1 : r[k] = IF k < p THEN s[k] ELSE s[k + 1]
      BY Zenon, <2>1, RemoveOne
    <2> HIDE DEF r
    <2> DEFINE Old(k) == IF k < p THEN k ELSE k + 1
    <2>4. /\ \A k \in 1..Len(s) - 1 : Old(k) \in 1..Len(s) /\ Old(k) # p /\ r[k] = s[Old(k)]
          /\ \A j, k \in 1..Len(s) - 1 : j < k => Old(j) < Old(k)
          /\ \A k \in 1..Len(s) : k # p => \E j \in 1..Len(s) - 1 : Old(j) = k
      <3>1. \A k \in 1..Len(s) - 1 : Old(k) \in 1..Len(s) /\ Old(k) # p /\ r[k] = s[Old(k)]
        <4> SUFFICES ASSUME NEW k \in 1..Len(s) - 1
                     PROVE  Old(k) \in 1..Len(s) /\ Old(k) # p /\ r[k] = s[Old(k)]
          BY Zenon
        <4>1. r[k] = s[Old(k)]
          BY Zenon, <2>3
        <4>2. Old(k) \in 1..Len(s) /\ Old(k) # p
          BY <2>1
        <4> QED BY Zenon, <4>1, <4>2
      <3>2. \A j, k \in 1..Len(s) - 1 : j < k => Old(j) < Old(k)
        BY <2>1
      <3>3. ASSUME NEW k \in 1..Len(s), k # p PROVE \E j \in 1..Len(s) - 1 : Old(j) = k
        <4>1. CASE k < p
          <5>1. k \in 1..Len(s) - 1 /\ Old(k) = k
            BY <2>1, <4>1
          <5> QED BY Zenon, <5>1
        <4>2. CASE k > p
          <5>1. k - 1 \in 1..Len(s) - 1 /\ Old(k - 1) = k
            BY <2>1, <4>2
          <5> QED BY Zenon, <5>1
        <4> QED
          BY <2>1, <3>3, <4>1, <4>2
      <3> QED
        BY Zenon, <3>1, <3>2, <3>3
    <2> HIDE DEF Old
    <2>5. DOMAIN s = 1..Len(s) /\ \A k \in 1..Len(s) : s[k] \in Timers
      OBVIOUS
    <2>6. \A k \in 1..Len(s) : k # p => s[k] # t
      <3> SUFFICES ASSUME NEW k \in 1..Len(s), k # p PROVE s[k] # s[p]
        BY Zenon, <2>1
      <3>1. k < p \/ p < k
        BY <2>1
      <3> QED
        BY Zenon, <2>1, <2>5, <3>1, Order DEF Ordered
    <2>7. Ordered(next, r)
      <3> SUFFICES ASSUME NEW j \in 1..Len(s) - 1, NEW k \in 1..Len(s) - 1, j < k
                   PROVE  Less(next, r[j], r[k])
        BY Zenon, <2>3 DEF Ordered
      <3>1. Less(next, s[Old(j)], s[Old(k)])
        BY Zenon, <2>4, <2>5 DEF Ordered
      <3> QED
        BY Zenon, <2>4, <3>1
    <2>8. ToSet(r) = ToSet(s) \ {t}
      <3>1. ToSet(r) = {r[k] : k \in 1..Len(s) - 1} /\ ToSet(s) = {s[k] : k \in 1..Len(s)}
        BY Zenon, <2>3, <2>5 DEF ToSet
      <3>2. \A k \in 1..Len(s) - 1 : r[k] \in ToSet(s) /\ r[k] # t
        BY Zenon, <2>4, <2>6, <3>1
      <3>3. \A k \in 1..Len(s) : s[k] # t => s[k] \in ToSet(r)
        BY Zenon, <2>1, <2>4, <3>1
      <3> QED
        BY Zenon, <3>1, <3>2, <3>3
    <2> QED
      BY Zenon, <2>2, <2>3, <2>7, <2>8
  <1> QED
    BY Zenon, <1>1, <1>2

LEMMA InsertSet ==
    ASSUME NEW next \in [Timers -> Nat], NEW s \in Seq(Timers), Ordered(next, s), NEW t \in Timers
    PROVE  LET r == Insert(next, s, t)
           IN  /\ r \in Seq(Timers) /\ Ordered(next, r)
               /\ \A u : u \in ToSet(r) <=> u \in ToSet(s) \/ u = t
  <1> DEFINE p == LowerBound(next, s, t)
             r == InsertAt(s, p, t)
  <1>1. CASE Found(next, s, t)
    <2>1. Insert(next, s, t) = s /\ t \in ToSet(s)
      BY Zenon, <1>1, Find DEF Insert
    <2> QED BY Zenon, <2>1
  <1>2. CASE ~Found(next, s, t)
    <2>1. /\ p \in 1..Len(s) + 1
          /\ \A k \in 1..p - 1 : Less(next, s[k], t)
          /\ p <= Len(s) => ~Less(next, s[p], t)
      BY Zenon, Bound
    <2>2. Insert(next, s, t) = r /\ t \notin ToSet(s)
      BY Zenon, <1>2, Find DEF Insert, InsertAt
    <2> HIDE DEF p
    <2>3. /\ r \in Seq(Timers) /\ DOMAIN r = 1..Len(s) + 1
          /\ \A k \in 1..Len(s) + 1 : k < p => r[k] = s[k]
          /\ \A k \in 1..Len(s) + 1 : k = p => r[k] = t
          /\ \A k \in 1..Len(s) + 1 : ~(k < p) /\ k # p => r[k] = s[k - 1]
      <3>1. p \in 1..Len(s) + 1
        BY Zenon, <2>1
      <3> QED
        BY Zenon, <3>1, InsertOne
    <2> HIDE DEF r
    <2>4. DOMAIN s = 1..Len(s) /\ \A k \in 1..Len(s) : s[k] \in Timers
      OBVIOUS
    <2>5. \A k \in 1..Len(s) : k < p => Less(next, s[k], t)
      BY <2>1
    <2>6. \A k \in 1..Len(s) : p <= k => Less(next, t, s[k])
      <3> SUFFICES ASSUME NEW k \in 1..Len(s), p <= k PROVE Less(next, t, s[k])
        BY Zenon
      <3>1. p \in 1..Len(s) /\ p <= Len(s) /\ (p = k \/ p < k)
        BY <2>1
      <3>2. s[p] # t
        BY Zenon, <2>2, <2>4, <3>1 DEF ToSet
      <3>3. Less(next, t, s[p])
        BY Zenon, <2>1, <2>4, <3>1, <3>2, Order
      <3>4. p < k => Less(next, s[p], s[k])
        BY Zenon, <2>4, <3>1 DEF Ordered
      <3> QED
        BY Zenon, <2>4, <3>1, <3>3, <3>4, Order
    <2>7. Ordered(next, r)
      <3> SUFFICES ASSUME NEW j \in 1..Len(s) + 1, NEW k \in 1..Len(s) + 1, j < k
                   PROVE  Less(next, r[j], r[k])
        BY Zenon, <2>3 DEF Ordered
      <3>1. \A a, b \in 1..Len(s) : a < b => Less(next, s[a], s[b])
        BY Zenon, <2>4 DEF Ordered
      <3>2. CASE k < p
        <4>1. j < p /\ j \in 1..Len(s) /\ k \in 1..Len(s)
          BY <2>1, <3>2
        <4> QED BY Zenon, <2>3, <3>1, <3>2, <4>1
      <3>3. CASE k = p
        <4>1. j < p /\ j \in 1..Len(s) /\ ~(k < p)
          BY <2>1, <3>3
        <4> QED BY Zenon, <2>3, <2>5, <3>3, <4>1
      <3>4. CASE j = p
        <4>1. k - 1 \in 1..Len(s) /\ p <= k - 1 /\ ~(k < p) /\ k # p /\ ~(j < p)
          BY <2>1, <3>4
        <4> QED BY Zenon, <2>3, <2>6, <3>4, <4>1
      <3>5. CASE j < p /\ p < k
        <4>1. j \in 1..Len(s) /\ k - 1 \in 1..Len(s) /\ p <= k - 1 /\ ~(k < p) /\ k # p
          BY <2>1, <3>5
        <4>2. r[j] = s[j] /\ r[k] = s[k - 1]
          BY Zenon, <2>3, <3>5, <4>1
        <4>3. Less(next, s[j], t) /\ Less(next, t, s[k - 1])
          BY Zenon, <2>5, <2>6, <3>5, <4>1
        <4> QED BY Zenon, <2>4, <4>1, <4>2, <4>3, Order
      <3>6. CASE p < j
        <4>1. /\ j - 1 \in 1..Len(s) /\ k - 1 \in 1..Len(s) /\ j - 1 < k - 1
              /\ ~(j < p) /\ j # p /\ ~(k < p) /\ k # p
          BY <2>1, <3>6
        <4> QED BY Zenon, <2>3, <3>1, <4>1
      <3> QED
        BY <2>1, <3>2, <3>3, <3>4, <3>5, <3>6
    <2>8. \A u : u \in ToSet(r) <=> u \in ToSet(s) \/ u = t
      <3>1. ToSet(r) = {r[k] : k \in 1..Len(s) + 1} /\ ToSet(s) = {s[k] : k \in 1..Len(s)}
        BY Zenon, <2>3, <2>4 DEF ToSet
      <3>2. \A k \in 1..Len(s) + 1 : ~(k < p) /\ k # p => k - 1 \in 1..Len(s)
        BY <2>1
      <3>3. \A k \in 1..Len(s) + 1 : k < p => k \in 1..Len(s)
        BY <2>1
      <3>4. \A k \in 1..Len(s) + 1 : r[k] \in ToSet(s) \cup {t}
        BY Zenon, <2>3, <3>1, <3>2, <3>3
      <3>5. ~(p < p) /\ r[p] = t
        <4>1. ~(p < p)
          BY <2>1
        <4> QED BY Zenon, <2>1, <2>3, <4>1
      <3>6. ASSUME NEW k \in 1..Len(s) PROVE s[k] \in ToSet(r)
        <4>1. k \in 1..Len(s) + 1 /\ k + 1 \in 1..Len(s) + 1 /\ k + 1 - 1 = k
          OBVIOUS
        <4>2. ~(k < p) => ~(k + 1 < p) /\ k + 1 # p
          BY <2>1
        <4>3. k < p => r[k] = s[k]
          BY Zenon, <2>3, <4>1
        <4>4. ~(k < p) => r[k + 1] = s[k]
          <5> SUFFICES ASSUME ~(k < p) PROVE r[k + 1] = s[k]
            BY Zenon
          <5>1. PICK j \in 1..Len(s) + 1 : j = k + 1 /\ k = j - 1
            BY <4>1
          <5>2. r[j] = s[j - 1]
            BY Zenon, <2>3, <4>2, <5>1
          <5> QED BY Zenon, <5>1, <5>2
        <4> QED BY Zenon, <3>1, <4>1, <4>3, <4>4
      <3> QED
        BY Zenon, <2>1, <3>1, <3>4, <3>5, <3>6
    <2> QED
      BY Zenon, <2>2, <2>3, <2>7, <2>8
  <1> QED
    BY Zenon, <1>1, <1>2

(* The first timer has the first deadline. *)
LEMMA HeadFirst ==
    ASSUME NEW next \in [Timers -> Nat], NEW s \in Seq(Timers), Ordered(next, s), s # <<>>
    PROVE  /\ Head(s) \in ToSet(s) /\ Head(s) \in Timers
           /\ \A t \in ToSet(s) : t \in Timers /\ next[Head(s)] <= next[t]
  <1>1. /\ DOMAIN s = 1..Len(s) /\ (\A k \in 1..Len(s) : s[k] \in Timers)
        /\ 1 \in 1..Len(s) /\ Head(s) = s[1]
    OBVIOUS
  <1>2. \A k \in 1..Len(s) : k = 1 \/ 1 < k
    OBVIOUS
  <1>3. \A k \in 1..Len(s) : next[s[1]] <= next[s[k]]
    <2> SUFFICES ASSUME NEW k \in 1..Len(s) PROVE next[s[1]] <= next[s[k]]
      OBVIOUS
    <2>1. CASE k = 1
      BY <2>1, <1>1
    <2>2. CASE 1 < k
      BY Zenon, <2>2, <1>1, Order DEF Ordered
    <2> QED BY Zenon, <1>2, <2>1, <2>2
  <1> QED
    BY Zenon, <1>1, <1>3 DEF ToSet

LEMMA Members ==
    ASSUME NEW s \in Seq(Timers)
    PROVE  ToSet(s) \subseteq Timers /\ (s = <<>> <=> ToSet(s) = {})
  <1>1. DOMAIN s = 1..Len(s) /\ (\A k \in 1..Len(s) : s[k] \in Timers)
    OBVIOUS
  <1>2. s = <<>> => 1..Len(s) = {}
    OBVIOUS
  <1>3. s # <<>> => 1 \in 1..Len(s)
    OBVIOUS
  <1> QED
    BY Zenon, <1>1, <1>2, <1>3 DEF ToSet

-----------------------------------------------------------------------------
(* all_expired_cbs(): the loops over the set *)

(* The loop that looks for expired timers ends, and has then found all.      *)
LEMMA ExpiredAll ==
    ASSUME now \in Nat, m_next_time \in [Timers -> Nat], m_timers \in Seq(Timers), Sorted
    PROVE  /\ ExpiredCnt \in 0..Len(m_timers)
           /\ Expired = {t \in ToSet(m_timers) : m_next_time[t] <= now}
  <1> DEFINE s == m_timers
             T == {n \in 0..Len(s) : n = Len(s) \/ m_next_time[s[n + 1]] > now}
  <1>1. T \subseteq Nat /\ T # {}
    <2>1. Len(s) \in 0..Len(s) /\ 0..Len(s) \subseteq Nat
      OBVIOUS
    <2> QED BY Zenon, <2>1
  <1>2. PICK n \in T : \A q \in T : n <= q
    <2> HIDE DEF T
    <2> QED BY Zenon, <1>1, LeastNat
  <1>3. DOMAIN s = 1..Len(s) /\ (\A k \in 1..Len(s) : s[k] \in Timers)
    OBVIOUS
  <1>4. \A k \in 1..n : m_next_time[s[k]] <= now
    <2> SUFFICES ASSUME NEW k \in 1..n PROVE m_next_time[s[k]] <= now
      BY Zenon
    <2>1. /\ k - 1 \in 0..Len(s) /\ k - 1 # Len(s) /\ ~(n <= k - 1) /\ k - 1 + 1 = k
          /\ k \in 1..Len(s)
      OBVIOUS
    <2>2. ~(m_next_time[s[k - 1 + 1]] > now)
      BY Zenon, <1>2, <2>1
    <2>3. m_next_time[s[k]] \in Nat
      BY Zenon, <1>3, <2>1
    <2>4. ~(m_next_time[s[k]] > now)
      BY Zenon, <2>1, <2>2
    <2> QED
      BY <2>3, <2>4
  <1>5. n < Len(s) => m_next_time[s[n + 1]] > now
    <2>1. n < Len(s) => n # Len(s)
      OBVIOUS
    <2> QED BY Zenon, <2>1
  <1>6. /\ ExpiredCnt \in 0..Len(s)
        /\ \A k \in 1..ExpiredCnt : m_next_time[s[k]] <= now
        /\ ExpiredCnt < Len(s) => m_next_time[s[ExpiredCnt + 1]] > now
    BY Zenon, <1>4, <1>5 DEF ExpiredCnt
  <1>7. \A k \in 1..Len(s) : k \notin 1..ExpiredCnt => m_next_time[s[k]] > now
    <2> SUFFICES ASSUME NEW k \in 1..Len(s), k \notin 1..ExpiredCnt
                 PROVE  m_next_time[s[k]] > now
      BY Zenon
    <2> DEFINE m == ExpiredCnt + 1
    <2>1. ExpiredCnt < Len(s) /\ m \in 1..Len(s) /\ (k = m \/ m < k)
      <3>1. ExpiredCnt \in 0..Len(s)
        BY Zenon, <1>6
      <3> QED BY <3>1
    <2>2. m_next_time[s[m]] > now
      BY Zenon, <1>6, <2>1
    <2> HIDE DEF m
    <2>3. m < k => m_next_time[s[m]] <= m_next_time[s[k]]
      BY Zenon, <1>3, <2>1, Order DEF Sorted
    <2>4. m_next_time[s[m]] \in Nat /\ m_next_time[s[k]] \in Nat
      BY Zenon, <1>3, <2>1
    <2> QED
      BY <2>1, <2>2, <2>3, <2>4
  <1>8. \A k \in 1..ExpiredCnt : k \in 1..Len(s)
    BY <1>6
  <1>9. \A k \in 1..Len(s) : m_next_time[s[k]] > now => ~(m_next_time[s[k]] <= now)
    <2>1. \A x \in Nat : x > now => ~(x <= now)
      OBVIOUS
    <2> QED BY Zenon, <1>3, <2>1
  <1>10. \A t \in Expired : t \in ToSet(s) /\ m_next_time[t] <= now
    BY Zenon, <1>3, <1>6, <1>8 DEF Expired, ToSet
  <1>11. \A k \in 1..Len(s) : m_next_time[s[k]] <= now => s[k] \in Expired
    BY Zenon, <1>7, <1>9 DEF Expired
  <1>12. \A t \in ToSet(s) : m_next_time[t] <= now => t \in Expired
    BY Zenon, <1>3, <1>11 DEF ToSet
  <1> QED
    BY Zenon, <1>6, <1>10, <1>12

(* The deadline of a timer that is not in the set may change. *)
LEMMA Rekey ==
    ASSUME NEW next \in [Timers -> Nat], NEW s \in Seq(Timers), Ordered(next, s),
           NEW other \in [Timers -> Nat], \A t \in ToSet(s) : other[t] = next[t]
    PROVE  Ordered(other, s)
  <1>1. DOMAIN s = 1..Len(s)
    OBVIOUS
  <1> SUFFICES ASSUME NEW i \in 1..Len(s), NEW j \in 1..Len(s), i < j
               PROVE  Less(other, s[i], s[j])
    BY Zenon, <1>1 DEF Ordered
  <1>2. Less(next, s[i], s[j])
    BY Zenon, <1>1 DEF Ordered
  <1>3. other[s[i]] = next[s[i]] /\ other[s[j]] = next[s[j]]
    BY Zenon, <1>1 DEF ToSet
  <1> QED
    BY Zenon, <1>2, <1>3 DEF Less

(* One round of the loop over the expired timers. *)
LEMMA Round ==
    ASSUME NEW set, set.next \in [Timers -> Nat], set.timers \in Seq(Timers),
           Ordered(set.next, set.timers),
           NEW t \in ToSet(set.timers), m_interval[t] + now \in Nat
    PROVE  LET r == ExpireOne(set, t)
           IN  /\ r.next = IF m_loop[t] THEN [set.next EXCEPT ![t] = m_interval[t] + now]
                           ELSE set.next
               /\ r.timers \in Seq(Timers) /\ Ordered(r.next, r.timers)
               /\ ToSet(r.timers) = IF m_loop[t] THEN ToSet(set.timers)
                                    ELSE ToSet(set.timers) \ {t}
  <1> DEFINE rest == Erase(set.next, set.timers, t)
             next == [set.next EXCEPT ![t] = m_interval[t] + now]
             r == ExpireOne(set, t)
  <1>1. t \in Timers
    BY Zenon, Members
  <1>2. /\ rest \in Seq(Timers) /\ Ordered(set.next, rest)
        /\ ToSet(rest) = ToSet(set.timers) \ {t}
    BY Zenon, <1>1, EraseSet
  <1>3. CASE ~m_loop[t]
    <2>1. r = [timers |-> rest, next |-> set.next]
      BY Zenon, <1>3 DEF ExpireOne
    <2>2. r.timers = rest /\ r.next = set.next
      BY <2>1
    <2> HIDE DEF r, rest
    <2> QED
      BY Zenon, <1>2, <1>3, <2>2 DEF r
  <1>4. CASE m_loop[t]
    <2>1. r = [timers |-> Insert(next, rest, t), next |-> next]
      BY Zenon, <1>4 DEF ExpireOne
    <2>2. r.timers = Insert(next, rest, t) /\ r.next = next
      BY <2>1
    <2> HIDE DEF r, rest
    <2>3. next \in [Timers -> Nat] /\ \A u \in Timers : u # t => next[u] = set.next[u]
      BY <1>1
    <2>4. \A u \in ToSet(rest) : u \in Timers /\ u # t
      BY Zenon, <1>2, Members
    <2> HIDE DEF next
    <2>5. Ordered(next, rest)
      BY Zenon, <1>2, <2>3, <2>4, Rekey
    <2>6. r.timers \in Seq(Timers) /\ Ordered(next, r.timers) /\ ToSet(r.timers) = ToSet(rest) \cup {t}
      <3> DEFINE q == Insert(next, rest, t)
      <3>1. q \in Seq(Timers) /\ Ordered(next, q) /\ ToSet(q) = ToSet(rest) \cup {t}
        <4>1. next \in [Timers -> Nat] /\ rest \in Seq(Timers)
          BY Zenon, <1>2, <2>3
        <4>2. q \in Seq(Timers)
          BY Zenon, <1>1, <2>5, <4>1, InsertSet
        <4>3. Ordered(next, q)
          BY Zenon, <1>1, <2>5, <4>1, InsertSet
        <4>4. ToSet(q) = ToSet(rest) \cup {t}
          <5>1. \A u : u \in ToSet(q) <=> u \in ToSet(rest) \/ u = t
            BY Zenon, <1>1, <2>5, <4>1, InsertSet
          <5> HIDE DEF q
          <5> QED BY Zenon, <5>1
        <4> QED BY Zenon, <4>2, <4>3, <4>4
      <3>2. r.timers = q
        BY Zenon, <2>2
      <3> HIDE DEF q
      <3> QED BY Zenon, <3>1, <3>2
    <2>7. ToSet(r.timers) = ToSet(set.timers)
      BY Zenon, <1>2, <2>6
    <2> QED
      BY Zenon, <1>4, <2>2, <2>6, <2>7 DEF r, next
  <1> QED
    BY Zenon, <1>3, <1>4

Round0 == [timers |-> m_timers, next |-> m_next_time]

(* The loop computes something. *)
LEMMA LoopExists ==
    ASSUME NEW n \in Nat
    PROVE  \E g : g = [k \in 0..n |-> IF k = 0 THEN Round0 ELSE ExpireOne(g[k - 1], m_timers[k])]
  <1> DEFINE Is(g, m) == g = [k \in 0..m |-> IF k = 0 THEN Round0
                                            ELSE ExpireOne(g[k - 1], m_timers[k])]
             T == {m \in Nat : ~\E g : Is(g, m)}
  <1> SUFFICES ASSUME T # {} PROVE FALSE
    BY Zenon
  <1>1. PICK m \in T : \A q \in T : m <= q
    <2>1. T \subseteq Nat
      BY Zenon
    <2> HIDE DEF T
    <2> QED BY Zenon, <2>1, LeastNat
  <1>2. m # 0
    <2> SUFFICES ASSUME m = 0 PROVE FALSE
      BY Zenon
    <2> DEFINE g == [k \in 0..0 |-> Round0]
    <2>1. \A k \in 0..0 : k = 0
      OBVIOUS
    <2>2. g = [k \in 0..0 |-> IF k = 0 THEN Round0 ELSE ExpireOne(g[k - 1], m_timers[k])]
      BY Zenon, <2>1
    <2>3. Is(g, 0)
      BY Zenon, <2>2
    <2> QED BY Zenon, <2>3
  <1>3. m - 1 \in Nat /\ ~(m <= m - 1)
    BY <1>2
  <1>4. PICK g : Is(g, m - 1)
    BY Zenon, <1>1, <1>3
  <1> DEFINE h == [k \in 0..m |-> IF k = m THEN ExpireOne(g[m - 1], m_timers[m]) ELSE g[k]]
  <1>5. ASSUME NEW k \in 0..m
        PROVE  h[k] = IF k = 0 THEN Round0 ELSE ExpireOne(h[k - 1], m_timers[k])
    <2>1. m - 1 \in 0..m /\ m - 1 # m /\ m - 1 \in 0..m - 1
      BY <1>2
    <2>2. h[m - 1] = g[m - 1]
      BY Zenon, <2>1
    <2>3. CASE k = m
      BY Zenon, <1>2, <2>2, <2>3
    <2>4. CASE k # m
      <3>1. k \in 0..m - 1 /\ (k # 0 => k - 1 \in 0..m /\ k - 1 # m)
        BY <2>4
      <3>2. h[k] = g[k] /\ (k # 0 => h[k - 1] = g[k - 1])
        BY Zenon, <2>4, <3>1
      <3>3. g[k] = IF k = 0 THEN Round0 ELSE ExpireOne(g[k - 1], m_timers[k])
        BY Zenon, <1>4, <3>1
      <3> QED BY Zenon, <3>2, <3>3
    <2> QED BY Zenon, <2>3, <2>4
  <1>6. h = [k \in 0..m |-> h[k]]
    BY Zenon
  <1> HIDE DEF h
  <1>7. h = [k \in 0..m |-> IF k = 0 THEN Round0 ELSE ExpireOne(h[k - 1], m_timers[k])]
    BY Zenon, <1>5, <1>6
  <1>8. Is(h, m)
    BY Zenon, <1>7
  <1> QED
    BY Zenon, <1>8

LEMMA LoopDef ==
    ASSUME ExpiredCnt \in Nat
    PROVE  \A k \in 0..ExpiredCnt :
              ExpireLoop[k] = IF k = 0 THEN Round0 ELSE ExpireOne(ExpireLoop[k - 1], m_timers[k])
  <1> DEFINE g == ExpireLoop
  <1>1. g = [k \in 0..ExpiredCnt |-> IF k = 0 THEN Round0 ELSE ExpireOne(g[k - 1], m_timers[k])]
    BY Zenon, LoopExists DEF ExpireLoop, Round0
  <1> HIDE DEF g
  <1>2. \A k \in 0..ExpiredCnt : g[k] = IF k = 0 THEN Round0 ELSE ExpireOne(g[k - 1], m_timers[k])
    BY Zenon, <1>1
  <1> QED
    BY Zenon, <1>2 DEF g

Rounds(k) == {m_timers[j] : j \in 1..k}

(* After k rounds the first k timers have left the set, except those with    *)
(* m_loop, which have their next deadline.                                   *)
LoopInv(k) ==
  /\ ExpireLoop[k].next \in [Timers -> Nat]
  /\ \A t \in Timers : ExpireLoop[k].next[t] =
        IF t \in Rounds(k) /\ m_loop[t] THEN m_interval[t] + now ELSE m_next_time[t]
  /\ ExpireLoop[k].timers \in Seq(Timers)
  /\ Ordered(ExpireLoop[k].next, ExpireLoop[k].timers)
  /\ ToSet(ExpireLoop[k].timers) = {t \in ToSet(m_timers) : t \in Rounds(k) => m_loop[t]}

LEMMA Looped ==
    ASSUME now \in Nat, m_next_time \in [Timers -> Nat], m_timers \in Seq(Timers), Sorted,
           \A t \in Timers : m_interval[t] \in Nat
    PROVE  LoopInv(ExpiredCnt)
  <1>1. ExpiredCnt \in 0..Len(m_timers) /\ ExpiredCnt \in Nat
    <2>1. ExpiredCnt \in 0..Len(m_timers)
      BY Zenon, ExpiredAll
    <2> QED BY <2>1
  <1> DEFINE T == {k \in 0..ExpiredCnt : ~LoopInv(k)}
  <1> SUFFICES ASSUME T # {} PROVE FALSE
    <2>1. ExpiredCnt \in 0..ExpiredCnt
      BY <1>1
    <2> QED BY Zenon, <2>1
  <1>2. PICK k \in T : \A q \in T : k <= q
    <2>1. 0..ExpiredCnt \subseteq Nat
      BY <1>1
    <2>2. T \subseteq Nat
      BY Zenon, <2>1
    <2> HIDE DEF T
    <2> QED BY Zenon, <2>2, LeastNat
  <1>3. ExpireLoop[k] = IF k = 0 THEN Round0 ELSE ExpireOne(ExpireLoop[k - 1], m_timers[k])
    BY Zenon, <1>1, <1>2, LoopDef
  <1>4. DOMAIN m_timers = 1..Len(m_timers) /\ \A j \in 1..Len(m_timers) : m_timers[j] \in Timers
    OBVIOUS
  <1>5. CASE k = 0
    <2>1. ExpireLoop[k] = Round0
      BY Zenon, <1>3, <1>5
    <2>2. ExpireLoop[k].timers = m_timers /\ ExpireLoop[k].next = m_next_time
      BY <2>1 DEF Round0
    <2>3. Rounds(k) = {}
      <3>1. 1..k = {}
        BY <1>5
      <3> QED BY Zenon, <3>1 DEF Rounds
    <2>4. Ordered(m_next_time, m_timers)
      BY Zenon DEF Ordered, Sorted
    <2>5. LoopInv(k)
      BY Zenon, <2>2, <2>3, <2>4 DEF LoopInv
    <2> QED BY Zenon, <1>2, <2>5
  <1>6. CASE k # 0
    <2> DEFINE l == ExpireLoop[k - 1]
               r == ExpireLoop[k]
               t == m_timers[k]
    <2>1. k - 1 \in 0..ExpiredCnt /\ ~(k <= k - 1) /\ k \in 1..Len(m_timers) /\ k \notin 1..k - 1
      BY <1>1, <1>6
    <2>2. LoopInv(k - 1)
      BY Zenon, <1>2, <2>1
    <2>3. t \in ToSet(m_timers) /\ t \in Timers
      BY Zenon, <1>4, <2>1 DEF ToSet
    <2>4. t \notin Rounds(k - 1)
      <3> SUFFICES ASSUME NEW j \in 1..k - 1 PROVE m_timers[j] # m_timers[k]
        BY Zenon DEF Rounds
      <3>1. j \in 1..Len(m_timers) /\ j < k
        BY <2>1
      <3> QED
        BY Zenon, <1>4, <2>1, <3>1, Order DEF Sorted
    <2>5. r = ExpireOne(l, t)
      BY Zenon, <1>3, <1>6
    <2>6. \A u : u \in Rounds(k) <=> u \in Rounds(k - 1) \/ u = t
      <3>1. 1..k = (1..k - 1) \cup {k}
        BY <2>1
      <3> QED BY Zenon, <3>1 DEF Rounds
    <2>7. /\ l.next \in [Timers -> Nat]
          /\ \A u \in Timers : l.next[u] =
                IF u \in Rounds(k - 1) /\ m_loop[u] THEN m_interval[u] + now ELSE m_next_time[u]
          /\ l.timers \in Seq(Timers)
          /\ Ordered(l.next, l.timers)
          /\ ToSet(l.timers) = {u \in ToSet(m_timers) : u \in Rounds(k - 1) => m_loop[u]}
      BY Zenon, <2>2 DEF LoopInv
    <2> HIDE DEF l, r, t
    <2>8. t \in ToSet(l.timers) /\ m_interval[t] + now \in Nat
      <3>1. t \in ToSet(l.timers)
        BY Zenon, <2>3, <2>4, <2>7
      <3>2. m_interval[t] \in Nat
        BY Zenon, <2>3
      <3>3. m_interval[t] + now \in Nat
        BY <3>2
      <3> QED BY Zenon, <3>1, <3>3
    <2>9. /\ r.next = IF m_loop[t] THEN [l.next EXCEPT ![t] = m_interval[t] + now] ELSE l.next
          /\ r.timers \in Seq(Timers) /\ Ordered(r.next, r.timers)
          /\ ToSet(r.timers) = IF m_loop[t] THEN ToSet(l.timers) ELSE ToSet(l.timers) \ {t}
      BY Zenon, <2>5, <2>7, <2>8, Round
    <2>10. /\ r.next \in [Timers -> Nat]
           /\ \A u \in Timers : r.next[u] = IF u = t /\ m_loop[t] THEN m_interval[t] + now ELSE l.next[u]
      <3>1. CASE m_loop[t]
        <4>1. r.next = [l.next EXCEPT ![t] = m_interval[t] + now]
          BY Zenon, <2>9, <3>1
        <4> QED BY <2>3, <2>7, <2>8, <3>1, <4>1
      <3>2. CASE ~m_loop[t]
        BY Zenon, <2>7, <2>9, <3>2
      <3> QED BY Zenon, <3>1, <3>2
    <2>11. \A u \in Timers : r.next[u] =
              IF u \in Rounds(k) /\ m_loop[u] THEN m_interval[u] + now ELSE m_next_time[u]
      <3> SUFFICES ASSUME NEW u \in Timers
                   PROVE  r.next[u] = IF u \in Rounds(k) /\ m_loop[u] THEN m_interval[u] + now
                                      ELSE m_next_time[u]
        BY Zenon
      <3>1. CASE u = t
        BY Zenon, <2>4, <2>6, <2>7, <2>10, <3>1
      <3>2. CASE u # t
        BY Zenon, <2>6, <2>7, <2>10, <3>2
      <3> QED BY Zenon, <3>1, <3>2
    <2>12. ToSet(r.timers) = {u \in ToSet(m_timers) : u \in Rounds(k) => m_loop[u]}
      <3>1. CASE m_loop[t]
        <4>1. ToSet(r.timers) = ToSet(l.timers)
          BY Zenon, <2>9, <3>1
        <4>2. \A u : (u \in Rounds(k) => m_loop[u]) <=> (u \in Rounds(k - 1) => m_loop[u])
          BY Zenon, <2>6, <3>1
        <4> QED BY Zenon, <2>7, <4>1, <4>2
      <3>2. CASE ~m_loop[t]
        <4>1. ToSet(r.timers) = ToSet(l.timers) \ {t}
          BY Zenon, <2>9, <3>2
        <4>2. \A u : (u \in Rounds(k) => m_loop[u]) <=> (u \in Rounds(k - 1) => m_loop[u]) /\ u # t
          BY Zenon, <2>6, <3>2
        <4> QED BY Zenon, <2>7, <4>1, <4>2
      <3> QED BY Zenon, <3>1, <3>2
    <2>13. LoopInv(k)
      BY Zenon, <2>9, <2>10, <2>11, <2>12 DEF LoopInv, r
    <2> QED BY Zenon, <1>2, <2>13
  <1> QED
    BY Zenon, <1>5, <1>6

-----------------------------------------------------------------------------
(* The inductive invariant *)

Labels == {"user", "add", "reset", "left", "enter", "wait", "leave", "check", "expire", "collect",
           "drain"}

PcInv == pc \in [Callers \cup Idlers -> Labels]

DataInv ==
  /\ now \in 0..MaxNow
  /\ m_interval \in [Timers -> Intervals \cup {0}]
  /\ m_loop \in [Timers -> BOOLEAN]
  /\ m_next_time \in [Timers -> Nat]
  /\ m_cb \in [Timers -> {"unset", "set", "null"}]

(* The set is ordered, and holds a timer from the return of add_timer() on.  *)
SetInv ==
  /\ m_timers \in Seq(Timers) /\ Sorted
  /\ \A t \in ToSet(m_timers) : t \in Known
  /\ \A t \in Known : m_cb[t] = "set" => t \in ToSet(m_timers)

(* One caller at a time adds a timer, and only it knows the timer. *)
CallerInv ==
  /\ DOMAIN arg = Callers
  /\ \A c \in Callers : pc[c] \in {"add", "reset"} => arg[c][1] \in Timers /\ arg[c][2] \in Intervals
  /\ \A c \in Callers : pc[c] = "add" => m_cb[arg[c][1]] = "set"
  /\ \A c \in Callers : pc[c] = "reset" => arg[c][1] \in Known
  /\ \A c, d \in Callers : pc[c] = "add" /\ pc[d] = "add" /\ arg[c][1] = arg[d][1] => c = d

Waiting == {i \in Idlers : pc[i] \in {"wait", "leave"}}

(* m_idle_cnt counts the threads in epoll_wait; callbacks wait for drain.    *)
IdlerInv ==
  /\ raced \in [Idlers -> BOOLEAN] /\ rt \in [Idlers -> BOOLEAN] /\ tickled \in BOOLEAN
  /\ until \in [Idlers -> Nat] /\ cbs \in [Idlers -> SUBSET Timers]
  /\ \A i \in Idlers : pc[i] # "drain" => cbs[i] = {}
  /\ m_idle_cnt = Cardinality(Waiting)

(* Somebody will look at the first deadline in time: a thread that is still  *)
(* to compute its wait, the reader of the pipe, or a thread whose wait ends  *)
(* by then.                                                                  *)
WakeInv ==
  \/ m_timers = <<>> \/ tickled
  \/ \E i \in Idlers : raced[i] \/ pc[i] \notin {"enter", "wait"}
  \/ \E i \in Idlers : until[i] <= Later(now, m_next_time[Head(m_timers)])

IInv == PcInv /\ DataInv /\ SetInv /\ CallerInv /\ IdlerInv /\ WakeInv

LEMMA Goes ==
    ASSUME PcInv, NEW t \in Callers \cup Idlers, NEW l \in Labels, Goto(t, l)
    PROVE  PcInv' /\ pc'[t] = l /\ \A u \in Callers \cup Idlers : u # t => pc'[u] = pc[u]
  BY DEF PcInv, Goto

LEMMA Apart ==
    ASSUME NEW c \in Callers, NEW i \in Idlers
    PROVE  c # i /\ c \in Callers \cup Idlers /\ i \in Callers \cup Idlers
  BY Zenon, TimerAssumption

LEMMA Nats ==
    ASSUME DataInv
    PROVE  now \in Nat /\ \A t \in Timers : m_interval[t] \in Nat
  <1>1. now \in Nat
    BY TimerAssumption DEF DataInv
  <1>2. Intervals \cup {0} \subseteq Nat
    BY TimerAssumption
  <1>3. \A t \in Timers : m_interval[t] \in Intervals \cup {0}
    BY Zenon DEF DataInv
  <1> QED
    BY Zenon, <1>1, <1>2, <1>3

(* Valid() is membership. *)
LEMMA ValidMember ==
    ASSUME DataInv, SetInv, NEW t \in Timers
    PROVE  Valid(t) <=> t \in ToSet(m_timers)
  <1>1. Ordered(m_next_time, m_timers)
    BY Zenon DEF SetInv, Sorted, Ordered
  <1> QED
    BY Zenon, <1>1, Find DEF Valid, DataInv, SetInv

(* A step that hides or shows no timer. *)
LEMMA KnownSame ==
    ASSUME \A t \in Timers : m_cb'[t] = "unset" <=> m_cb[t] = "unset",
           \A c \in Callers : pc'[c] = "add" <=> pc[c] = "add",
           \A c \in Callers : pc[c] = "add" => arg'[c] = arg[c]
    PROVE  Known' = Known
  BY Zenon DEF Known

LEMMA Initially == Init => IInv
  <1> SUFFICES ASSUME Init PROVE IInv
    BY Zenon
  <1>1. PcInv
    <2>1. "user" \in Labels /\ "left" \in Labels
      BY Zenon DEF Labels
    <2> QED BY Zenon, <2>1 DEF Init, PcInv
  <1>2. DataInv
    BY TimerAssumption DEF Init, DataInv
  <1>3. \A t \in Timers : m_cb[t] = "unset"
    BY Zenon DEF Init
  <1>4. SetInv
    <2>1. m_timers \in Seq(Timers) /\ ToSet(m_timers) = {} /\ DOMAIN m_timers = {}
      BY DEF Init, ToSet
    <2> QED BY Zenon, <1>3, <2>1 DEF SetInv, Sorted, Known
  <1>5. \A t \in Callers \cup Idlers : pc[t] = IF t \in Callers THEN "user" ELSE "left"
    BY Zenon DEF Init
  <1>6. CallerInv
    <2>1. \A c \in Callers : pc[c] = "user"
      BY Zenon, <1>5
    <2>2. DOMAIN arg = Callers
      BY Zenon DEF Init
    <2> QED BY <2>1, <2>2 DEF CallerInv
  <1>7. IdlerInv
    <2>1. \A i \in Idlers : pc[i] = "left"
      BY Zenon, <1>5, TimerAssumption
    <2>2. Waiting = {}
      BY <2>1 DEF Waiting
    <2>3. m_idle_cnt = Cardinality(Waiting)
      BY Zenon, <2>2, FS_EmptySet DEF Init
    <2> QED BY <2>3 DEF Init, IdlerInv
  <1>8. WakeInv
    BY Zenon DEF Init, WakeInv
  <1> QED
    BY Zenon, <1>1, <1>2, <1>4, <1>6, <1>7, <1>8 DEF IInv

-----------------------------------------------------------------------------
(* The idle threads *)

(* An idle thread that leaves the timers alone leaves them to the callers.   *)
LEMMA TimersStay ==
    ASSUME IInv, NEW i \in Idlers, NEW l \in Labels, Goto(i, l), UNCHANGED <<now, timerVars, arg>>
    PROVE  PcInv' /\ DataInv' /\ SetInv' /\ CallerInv'
  <1>1. /\ PcInv' /\ \A c \in Callers : pc'[c] = pc[c]
    BY Zenon, Goes, Apart DEF IInv
  <1>2. /\ now' = now /\ arg' = arg /\ m_timers' = m_timers /\ m_interval' = m_interval
        /\ m_loop' = m_loop /\ m_next_time' = m_next_time /\ m_cb' = m_cb
    BY Zenon DEF timerVars
  <1>3. Known' = Known
    BY Zenon, <1>1, <1>2, KnownSame
  <1>4. DataInv'
    BY Zenon, <1>2 DEF IInv, DataInv
  <1>5. SetInv'
    BY Zenon, <1>2, <1>3 DEF IInv, SetInv, Sorted
  <1>6. CallerInv'
    BY ZenonT(30), <1>1, <1>2, <1>3 DEF IInv, CallerInv
  <1> QED
    BY Zenon, <1>1, <1>4, <1>5, <1>6

LEMMA WaitingFinite == IsFiniteSet(Waiting) /\ Cardinality(Waiting) \in Nat /\ Waiting \subseteq Idlers
  <1>1. Waiting \subseteq Idlers
    BY Zenon DEF Waiting
  <1> QED
    BY Zenon, <1>1, TimerAssumption, FS_Subset, FS_CardinalityType

(* m_idle_cnt follows the thread. *)
LEMMA Counted ==
    ASSUME IInv, NEW i \in Idlers, NEW l \in Labels, Goto(i, l),
           m_idle_cnt' = IF i \in Waiting
                         THEN IF l \in {"wait", "leave"} THEN m_idle_cnt ELSE m_idle_cnt - 1
                         ELSE IF l \in {"wait", "leave"} THEN m_idle_cnt + 1 ELSE m_idle_cnt
    PROVE  m_idle_cnt' = Cardinality(Waiting')
  <1>1. pc'[i] = l /\ \A j \in Idlers : j # i => pc'[j] = pc[j]
    <2>1. PcInv /\ i \in Callers \cup Idlers /\ \A j \in Idlers : j \in Callers \cup Idlers
      BY Zenon DEF IInv
    <2> QED BY Zenon, <2>1, Goes
  <1>2. \A j : j \in Waiting' <=> j \in Idlers /\ pc'[j] \in {"wait", "leave"}
    BY Zenon DEF Waiting
  <1>3. \A j : j \in Waiting <=> j \in Idlers /\ pc[j] \in {"wait", "leave"}
    BY Zenon DEF Waiting
  <1>4. m_idle_cnt = Cardinality(Waiting)
    BY Zenon DEF IInv, IdlerInv
  <1>5. CASE l \in {"wait", "leave"}
    <2>1. Waiting' = Waiting \cup {i}
      BY Zenon, <1>1, <1>2, <1>3, <1>5
    <2>2. Cardinality(Waiting') = IF i \in Waiting THEN Cardinality(Waiting) ELSE Cardinality(Waiting) + 1
      BY Zenon, <2>1, WaitingFinite, FS_AddElement
    <2> QED BY Zenon, <1>4, <1>5, <2>2
  <1>6. CASE l \notin {"wait", "leave"}
    <2>1. Waiting' = Waiting \ {i}
      BY Zenon, <1>1, <1>2, <1>3, <1>6
    <2>2. Cardinality(Waiting') = IF i \in Waiting THEN Cardinality(Waiting) - 1 ELSE Cardinality(Waiting)
      BY Zenon, <2>1, WaitingFinite, FS_RemoveElement
    <2> QED BY Zenon, <1>4, <1>6, <2>2
  <1> QED
    BY Zenon, <1>5, <1>6

(* A thread that is awake looks at the timers before it waits. *)
LEMMA Awake ==
    ASSUME NEW i \in Idlers, pc'[i] \notin {"enter", "wait"}
    PROVE  WakeInv'
  BY Zenon DEF WakeInv

LEMMA ComputeLeftStep ==
    ASSUME IInv, NEW i \in Idlers, ComputeLeft(i)
    PROVE  IInv'
  <1>1. pc[i] = "left" /\ Goto(i, "enter") /\ "enter" \in Labels
    BY Zenon DEF ComputeLeft, Labels
  <1>2. /\ UNCHANGED <<now, timerVars, arg>> /\ UNCHANGED <<raced, tickled, m_idle_cnt, rt, cbs>>
        /\ until' = [until EXCEPT ![i] = now + WaitTime]
    BY Zenon DEF ComputeLeft
  <1>3. PcInv' /\ DataInv' /\ SetInv' /\ CallerInv'
    BY Zenon, <1>1, <1>2, TimersStay
  <1>4. i \notin Waiting
    BY <1>1 DEF Waiting
  <1>5. m_idle_cnt' = Cardinality(Waiting')
    <2>1. "enter" \notin {"wait", "leave"} /\ m_idle_cnt' = m_idle_cnt
      BY <1>2
    <2> QED BY Zenon, <1>1, <1>4, <2>1, Counted
  <1>6. pc'[i] = "enter" /\ \A j \in Idlers : j # i => pc'[j] = pc[j]
    BY Zenon, <1>1, Goes DEF IInv
  <1>7. WaitTime \in Nat /\ (m_timers # <<>> => now + WaitTime <= Later(now, m_next_time[Head(m_timers)]))
    <2>1. now \in Nat
      BY Zenon, Nats DEF IInv
    <2>2. CASE m_timers = <<>>
      BY <2>2, TimerAssumption DEF WaitTime, LeftTime
    <2>3. CASE m_timers # <<>>
      <3>1. m_next_time[Head(m_timers)] \in Nat
        <4>1. Head(m_timers) \in Timers
          BY <2>3 DEF IInv, SetInv
        <4> QED BY Zenon, <4>1 DEF IInv, DataInv
      <3> DEFINE d == m_next_time[Head(m_timers)]
      <3>2. LeftTime = IF now >= d THEN 0 ELSE d - now
        BY <2>1, <2>3, <3>1 DEF LeftTime
      <3> HIDE DEF d
      <3>3. d \in Nat
        BY Zenon, <3>1 DEF d
      <3>4. WaitTime \in Nat /\ now + WaitTime <= Later(now, d)
        BY <2>1, <3>2, <3>3, TimerAssumption DEF WaitTime, Later
      <3> QED BY Zenon, <3>4 DEF d
    <2> QED BY Zenon, <2>2, <2>3
  <1>8. now + WaitTime \in Nat
    <2>1. now \in Nat
      BY Zenon, Nats DEF IInv
    <2> QED BY <1>7, <2>1
  <1>9. until' \in [Idlers -> Nat] /\ until'[i] = now + WaitTime
    BY Zenon, <1>2, <1>8 DEF IInv, IdlerInv
  <1>10. \A j \in Idlers : pc'[j] # "drain" => cbs'[j] = {}
    <2>1. pc[i] # "drain"
      BY <1>1
    <2> QED BY Zenon, <1>2, <1>6, <2>1 DEF IInv, IdlerInv
  <1>11. IdlerInv'
    BY Zenon, <1>2, <1>5, <1>9, <1>10 DEF IInv, IdlerInv
  <1>12. WakeInv'
    <2>1. now' = now /\ m_timers' = m_timers /\ m_next_time' = m_next_time
      BY Zenon, <1>2 DEF timerVars
    <2>2. m_timers' # <<>> => until'[i] <= Later(now', m_next_time'[Head(m_timers')])
      BY Zenon, <1>7, <1>9, <2>1 DEF Later
    <2> QED BY Zenon, <2>2 DEF WakeInv
  <1> QED
    BY Zenon, <1>3, <1>11, <1>12 DEF IInv

LEMMA IdleEnterStep ==
    ASSUME IInv, NEW i \in Idlers, IdleEnter(i)
    PROVE  IInv'
  <1>1. pc[i] = "enter" /\ Goto(i, "wait") /\ "wait" \in Labels
    BY Zenon DEF IdleEnter, Labels
  <1>2. /\ UNCHANGED <<now, timerVars, arg>> /\ UNCHANGED <<raced, tickled, until, rt, cbs>>
        /\ m_idle_cnt' = m_idle_cnt + 1
    BY Zenon DEF IdleEnter
  <1>3. PcInv' /\ DataInv' /\ SetInv' /\ CallerInv'
    BY Zenon, <1>1, <1>2, TimersStay
  <1>4. i \notin Waiting
    BY <1>1 DEF Waiting
  <1>5. m_idle_cnt' = Cardinality(Waiting')
    BY Zenon, <1>1, <1>2, <1>4, Counted
  <1>6. pc'[i] = "wait" /\ \A j \in Idlers : j # i => pc'[j] = pc[j]
    BY Zenon, <1>1, Goes DEF IInv
  <1>7. \A j \in Idlers : pc'[j] # "drain" => cbs'[j] = {}
    <2>1. pc[i] # "drain"
      BY <1>1
    <2> QED BY Zenon, <1>2, <1>6, <2>1 DEF IInv, IdlerInv
  <1>8. IdlerInv'
    BY Zenon, <1>2, <1>5, <1>7 DEF IInv, IdlerInv
  <1>9. WakeInv'
    <2>1. now' = now /\ m_timers' = m_timers /\ m_next_time' = m_next_time
      BY Zenon, <1>2 DEF timerVars
    <2>2. \A j \in Idlers : pc[j] \notin {"enter", "wait"} => pc'[j] \notin {"enter", "wait"}
      BY Zenon, <1>1, <1>6
    <2> QED BY Zenon, <1>2, <2>1, <2>2 DEF IInv, WakeInv, Later
  <1> QED
    BY Zenon, <1>3, <1>8, <1>9 DEF IInv

(* The other steps of an idle thread, as far as the timers stay. *)
LEMMA AwakeStep ==
    ASSUME IInv, NEW i \in Idlers, NEW l \in Labels, Goto(i, l), l \notin {"enter", "wait"},
           UNCHANGED <<now, timerVars, arg>>,
           raced' \in [Idlers -> BOOLEAN], rt' \in [Idlers -> BOOLEAN], tickled' \in BOOLEAN,
           until' \in [Idlers -> Nat], cbs' \in [Idlers -> SUBSET Timers],
           \A j \in Idlers : j # i => cbs'[j] = cbs[j], l # "drain" => cbs'[i] = {},
           m_idle_cnt' = IF i \in Waiting
                         THEN IF l \in {"wait", "leave"} THEN m_idle_cnt ELSE m_idle_cnt - 1
                         ELSE IF l \in {"wait", "leave"} THEN m_idle_cnt + 1 ELSE m_idle_cnt
    PROVE  IInv'
  <1>1. PcInv' /\ DataInv' /\ SetInv' /\ CallerInv'
    BY Zenon, TimersStay
  <1>2. m_idle_cnt' = Cardinality(Waiting')
    BY Zenon, Counted
  <1>3. pc'[i] = l /\ \A j \in Idlers : j # i => pc'[j] = pc[j]
    BY Zenon, Goes DEF IInv
  <1>4. \A j \in Idlers : pc'[j] # "drain" => cbs'[j] = {}
    BY Zenon, <1>3 DEF IInv, IdlerInv
  <1>5. IdlerInv'
    BY Zenon, <1>2, <1>4 DEF IdlerInv
  <1>6. WakeInv'
    BY Zenon, <1>3, Awake
  <1> QED
    BY Zenon, <1>1, <1>5, <1>6 DEF IInv

LEMMA EpollWaitStep ==
    ASSUME IInv, NEW i \in Idlers, EpollWait(i)
    PROVE  IInv'
  <1>1. pc[i] = "wait" /\ Goto(i, "leave") /\ "leave" \in Labels
    BY Zenon DEF EpollWait, Labels
  <1>2. UNCHANGED <<now, timerVars, arg>> /\ UNCHANGED <<tickled, m_idle_cnt, cbs>>
    BY Zenon DEF EpollWait
  <1>3. i \in Waiting
    BY Zenon, <1>1 DEF Waiting
  <1>4. raced' \in [Idlers -> BOOLEAN] /\ rt' \in [Idlers -> BOOLEAN] /\ until' \in [Idlers -> Nat]
    <2>1. 0 \in Nat /\ FALSE \in BOOLEAN /\ tickled \in BOOLEAN
      BY DEF IInv, IdlerInv
    <2> QED BY Zenon, <2>1 DEF EpollWait, IInv, IdlerInv
  <1>5. cbs[i] = {} /\ "leave" \notin {"enter", "wait"}
    BY <1>1 DEF IInv, IdlerInv
  <1>6. cbs' \in [Idlers -> SUBSET Timers] /\ tickled' \in BOOLEAN
    BY Zenon, <1>2 DEF IInv, IdlerInv
  <1> QED
    BY Zenon, <1>1, <1>2, <1>3, <1>4, <1>5, <1>6, AwakeStep

LEMMA IdleLeaveStep ==
    ASSUME IInv, NEW i \in Idlers, IdleLeave(i)
    PROVE  IInv'
  <1>1. pc[i] = "leave" /\ Goto(i, "check") /\ "check" \in Labels
    BY Zenon DEF IdleLeave, Labels
  <1>2. /\ UNCHANGED <<now, timerVars, arg>> /\ UNCHANGED <<raced, tickled, until, rt, cbs>>
        /\ m_idle_cnt' = m_idle_cnt - 1
    BY Zenon DEF IdleLeave
  <1>3. i \in Waiting
    BY Zenon, <1>1 DEF Waiting
  <1>4. cbs[i] = {} /\ "check" \notin {"enter", "wait"} /\ "check" \notin {"wait", "leave"}
    BY <1>1 DEF IInv, IdlerInv
  <1>5. /\ cbs' \in [Idlers -> SUBSET Timers] /\ tickled' \in BOOLEAN
        /\ raced' \in [Idlers -> BOOLEAN] /\ rt' \in [Idlers -> BOOLEAN] /\ until' \in [Idlers -> Nat]
    BY Zenon, <1>2 DEF IInv, IdlerInv
  <1> QED
    BY Zenon, <1>1, <1>2, <1>3, <1>4, <1>5, AwakeStep

(* Steps between the wait and the next computation, if nothing is collected. *)
LEMMA DecideStep ==
    ASSUME IInv, NEW i \in Idlers, NEW l \in {"left", "expire", "collect", "drain"},
           pc[i] \in {"check", "expire"}, Goto(i, l), UNCHANGED <<now, timerVars, arg>>,
           UNCHANGED <<raced, tickled, m_idle_cnt, until, rt, cbs>>
    PROVE  IInv'
  <1>1. l \in Labels /\ l \notin {"enter", "wait"} /\ l \notin {"wait", "leave"}
    BY DEF Labels
  <1>2. i \notin Waiting /\ cbs[i] = {}
    BY DEF Waiting, IInv, IdlerInv
  <1>3. /\ cbs' \in [Idlers -> SUBSET Timers] /\ tickled' \in BOOLEAN
        /\ raced' \in [Idlers -> BOOLEAN] /\ rt' \in [Idlers -> BOOLEAN] /\ until' \in [Idlers -> Nat]
    BY Zenon DEF IInv, IdlerInv
  <1> QED
    BY Zenon, <1>1, <1>2, <1>3, AwakeStep

LEMMA IdleCheckStep ==
    ASSUME IInv, NEW i \in Idlers, IdleCheck(i)
    PROVE  IInv'
  <1> DEFINE l == IF rt[i] \/ LeftTime <= 0 THEN "expire" ELSE "left"
  <1>1. pc[i] = "check" /\ Goto(i, l) /\ l \in {"left", "expire", "collect", "drain"}
    BY Zenon DEF IdleCheck
  <1>2. UNCHANGED <<now, timerVars, arg>> /\ UNCHANGED <<raced, tickled, m_idle_cnt, until, rt, cbs>>
    BY Zenon DEF IdleCheck
  <1> HIDE DEF l
  <1> QED
    BY Zenon, <1>1, <1>2, DecideStep

LEMMA ExpireCheckStep ==
    ASSUME IInv, NEW i \in Idlers, ExpireCheck(i)
    PROVE  IInv'
  <1> DEFINE l == IF m_timers = <<>> THEN "drain" ELSE "collect"
  <1>1. pc[i] = "expire" /\ Goto(i, l) /\ l \in {"left", "expire", "collect", "drain"}
    BY Zenon DEF ExpireCheck
  <1>2. UNCHANGED <<now, timerVars, arg>> /\ UNCHANGED <<raced, tickled, m_idle_cnt, until, rt, cbs>>
    BY Zenon DEF ExpireCheck
  <1> HIDE DEF l
  <1> QED
    BY Zenon, <1>1, <1>2, DecideStep

LEMMA DrainPipeStep ==
    ASSUME IInv, NEW i \in Idlers, DrainPipe(i)
    PROVE  IInv'
  <1>1. pc[i] = "drain" /\ Goto(i, "left") /\ "left" \in Labels
    BY Zenon DEF DrainPipe, Labels
  <1>2. UNCHANGED <<now, timerVars, arg>> /\ UNCHANGED <<raced, m_idle_cnt, until>>
    BY Zenon DEF DrainPipe
  <1>3. i \notin Waiting /\ "left" \notin {"enter", "wait"} /\ "left" \notin {"wait", "leave"}
    BY <1>1 DEF Waiting
  <1>4. /\ cbs' \in [Idlers -> SUBSET Timers] /\ cbs'[i] = {}
        /\ \A j \in Idlers : j # i => cbs'[j] = cbs[j]
    <2>1. cbs' = [cbs EXCEPT ![i] = {}] /\ {} \in SUBSET Timers /\ cbs \in [Idlers -> SUBSET Timers]
      BY Zenon DEF DrainPipe, IInv, IdlerInv
    <2> QED BY Zenon, <2>1
  <1>5. tickled' \in BOOLEAN
    BY Zenon DEF DrainPipe
  <1>6. rt' \in [Idlers -> BOOLEAN]
    <2>1. FALSE \in BOOLEAN
      OBVIOUS
    <2> QED BY Zenon, <2>1 DEF DrainPipe, IInv, IdlerInv
  <1>7. raced' \in [Idlers -> BOOLEAN] /\ until' \in [Idlers -> Nat]
    BY Zenon, <1>2 DEF IInv, IdlerInv
  <1> QED
    BY Zenon, <1>1, <1>2, <1>3, <1>4, <1>5, <1>6, <1>7, AwakeStep

(* While every thread waits, time passes and the first deadline stays. *)
LEMMA TickStep ==
    ASSUME IInv, Tick
    PROVE  IInv'
  <1>1. /\ now < MaxNow /\ now' = now + 1
        /\ UNCHANGED timerVars /\ UNCHANGED <<raced, tickled, m_idle_cnt, pc, arg, until, rt, cbs>>
    BY Zenon DEF Tick
  <1>2. /\ m_timers' = m_timers /\ m_interval' = m_interval
        /\ m_loop' = m_loop /\ m_next_time' = m_next_time /\ m_cb' = m_cb
    BY Zenon, <1>1 DEF timerVars
  <1>3. now' \in 0..MaxNow
    BY <1>1, TimerAssumption DEF IInv, DataInv
  <1>4. Known' = Known
    BY Zenon, <1>1, <1>2, KnownSame
  <1>5. PcInv' /\ DataInv'
    BY Zenon, <1>1, <1>2, <1>3 DEF IInv, PcInv, DataInv
  <1>6. SetInv'
    BY Zenon, <1>2, <1>4 DEF IInv, SetInv, Sorted
  <1>7. CallerInv'
    BY Zenon, <1>1, <1>2, <1>4 DEF IInv, CallerInv
  <1>8. Waiting' = Waiting
    BY Zenon, <1>1 DEF Waiting
  <1>9. IdlerInv'
    BY Zenon, <1>1, <1>8 DEF IInv, IdlerInv
  <1>10. WakeInv'
    <2>1. ASSUME NEW i \in Idlers, until[i] <= Later(now, m_next_time[Head(m_timers)]), m_timers # <<>>
          PROVE  until'[i] <= Later(now', m_next_time'[Head(m_timers')])
      <3> DEFINE d == m_next_time[Head(m_timers)]
                 u == until[i]
      <3>1. Head(m_timers) \in Timers
        BY <2>1 DEF IInv, SetInv
      <3>2. d \in Nat /\ u \in Nat /\ now \in Nat
        BY Zenon, <3>1, Nats DEF IInv, DataInv, IdlerInv
      <3>3. u <= Later(now, d)
        BY Zenon, <2>1
      <3> HIDE DEF d, u
      <3>4. u <= Later(now + 1, d)
        BY <3>2, <3>3 DEF Later
      <3> QED BY Zenon, <1>1, <1>2, <3>4 DEF d, u, Later
    <2> QED BY Zenon, <1>1, <1>2, <2>1 DEF IInv, WakeInv
  <1> QED
    BY Zenon, <1>5, <1>6, <1>7, <1>9, <1>10 DEF IInv

(* all_expired_cbs() takes out the timers that are due, and no others. *)
LEMMA CollectFacts ==
    ASSUME IInv, NEW i \in Idlers, Collect(i)
    PROVE  /\ Expired = {t \in ToSet(m_timers) : m_next_time[t] <= now}
           /\ m_timers' \in Seq(Timers) /\ Sorted'
           /\ m_next_time' \in [Timers -> Nat]
           /\ \A t \in Timers : m_next_time'[t] =
                 IF t \in Expired /\ m_loop[t] THEN m_interval[t] + now ELSE m_next_time[t]
           /\ ToSet(m_timers') = {t \in ToSet(m_timers) : t \in Expired => m_loop[t]}
           /\ Known' = Known
  <1>1. /\ now \in Nat /\ (\A t \in Timers : m_interval[t] \in Nat)
        /\ m_next_time \in [Timers -> Nat] /\ m_timers \in Seq(Timers) /\ Sorted
    BY Zenon, Nats DEF IInv, DataInv, SetInv
  <1>2. Expired = {t \in ToSet(m_timers) : m_next_time[t] <= now}
    BY Zenon, <1>1, ExpiredAll
  <1>3. LoopInv(ExpiredCnt) /\ Rounds(ExpiredCnt) = Expired
    BY Zenon, <1>1, Looped DEF Rounds, Expired
  <1>4. m_timers' = ExpireLoop[ExpiredCnt].timers /\ m_next_time' = ExpireLoop[ExpiredCnt].next
    BY Zenon DEF Collect
  <1>5. /\ m_timers' \in Seq(Timers)
        /\ m_next_time' \in [Timers -> Nat]
        /\ \A t \in Timers : m_next_time'[t] =
              IF t \in Expired /\ m_loop[t] THEN m_interval[t] + now ELSE m_next_time[t]
        /\ ToSet(m_timers') = {t \in ToSet(m_timers) : t \in Expired => m_loop[t]}
        /\ Ordered(m_next_time', m_timers')
    BY Zenon, <1>3, <1>4 DEF LoopInv
  <1>6. Sorted'
    BY Zenon, <1>5 DEF Sorted, Ordered
  <1>7. Known' = Known
    <2>1. \A t \in Timers : m_cb'[t] = IF t \in Expired /\ ~m_loop[t] THEN "null" ELSE m_cb[t]
      BY Zenon DEF Collect
    <2>2. \A t \in Expired : t \in Known
      BY Zenon, <1>2 DEF IInv, SetInv
    <2>3. \A t \in Timers : m_cb'[t] = "unset" <=> m_cb[t] = "unset"
      <3>1. \A t \in Expired : m_cb[t] # "unset"
        BY Zenon, <2>2 DEF Known
      <3> QED BY Zenon, <2>1, <3>1
    <2>4. \A c \in Callers : pc'[c] = pc[c]
      <3>1. Goto(i, "drain") /\ "drain" \in Labels
        BY Zenon DEF Collect, Labels
      <3> QED BY Zenon, <3>1, Goes, Apart DEF IInv
    <2>5. arg' = arg
      BY Zenon DEF Collect
    <2> QED BY Zenon, <2>3, <2>4, <2>5, KnownSame
  <1> QED
    BY Zenon, <1>2, <1>5, <1>6, <1>7

LEMMA CollectStep ==
    ASSUME IInv, NEW i \in Idlers, Collect(i)
    PROVE  IInv'
  <1>1. pc[i] = "collect" /\ Goto(i, "drain") /\ "drain" \in Labels
    BY Zenon DEF Collect, Labels
  <1>2. UNCHANGED <<now, m_interval, m_loop, raced, tickled, m_idle_cnt, arg, until, rt>>
    BY Zenon DEF Collect
  <1>3. \A t \in Timers : m_cb'[t] = IF t \in Expired /\ ~m_loop[t] THEN "null" ELSE m_cb[t]
    BY Zenon DEF Collect
  <1>4. /\ m_timers' \in Seq(Timers) /\ Sorted' /\ m_next_time' \in [Timers -> Nat]
        /\ ToSet(m_timers') = {t \in ToSet(m_timers) : t \in Expired => m_loop[t]}
        /\ Known' = Known
    BY Zenon, CollectFacts
  <1>5. \A t \in Expired : t \in Known /\ t \in ToSet(m_timers)
    BY Zenon, CollectFacts DEF IInv, SetInv
  <1>6. PcInv' /\ (\A c \in Callers : pc'[c] = pc[c]) /\ pc'[i] = "drain"
        /\ \A j \in Idlers : j # i => pc'[j] = pc[j]
    <2>1. PcInv /\ i \in Callers \cup Idlers /\ \A j \in Idlers : j \in Callers \cup Idlers
      BY Zenon DEF IInv
    <2>2. PcInv' /\ pc'[i] = "drain" /\ \A u \in Callers \cup Idlers : u # i => pc'[u] = pc[u]
      BY Zenon, <1>1, <2>1, Goes
    <2> QED BY Zenon, <2>1, <2>2, Apart
  <1>7. DataInv'
    <2>1. m_cb' \in [Timers -> {"unset", "set", "null"}]
      <3>1. m_cb' = [t \in Timers |-> IF t \in Expired /\ ~m_loop[t] THEN "null" ELSE m_cb[t]]
        BY Zenon DEF Collect
      <3>2. \A t \in Timers : m_cb[t] \in {"unset", "set", "null"}
        BY Zenon DEF IInv, DataInv
      <3> QED BY Zenon, <3>1, <3>2
    <2> QED BY Zenon, <1>2, <1>4, <2>1 DEF IInv, DataInv
  <1>8. SetInv'
    <2>1. \A t \in ToSet(m_timers') : t \in Known'
      BY Zenon, <1>4 DEF IInv, SetInv
    <2>2. ASSUME NEW t \in Known', m_cb'[t] = "set" PROVE t \in ToSet(m_timers')
      <3>1. t \in Known /\ t \in Timers
        BY Zenon, <1>4 DEF Known
      <3>2. m_cb[t] = "set" /\ (t \in Expired => m_loop[t])
        BY Zenon, <1>3, <2>2, <3>1
      <3> QED BY Zenon, <1>4, <3>1, <3>2 DEF IInv, SetInv
    <2> QED BY Zenon, <1>4, <2>1, <2>2 DEF SetInv
  <1>9. CallerInv'
    <2>1. \A c \in Callers : pc[c] = "add" => m_cb'[arg[c][1]] = "set"
      <3> SUFFICES ASSUME NEW c \in Callers, pc[c] = "add" PROVE m_cb'[arg[c][1]] = "set"
        BY Zenon
      <3>1. arg[c][1] \in Timers /\ m_cb[arg[c][1]] = "set"
        BY Zenon DEF IInv, CallerInv
      <3>2. arg[c][1] \notin Known
        BY Zenon DEF Known
      <3> QED BY Zenon, <1>3, <1>5, <3>1, <3>2
    <2> QED BY ZenonT(30), <1>2, <1>4, <1>6, <2>1 DEF IInv, CallerInv
  <1>10. cbs' \in [Idlers -> SUBSET Timers] /\ \A j \in Idlers : j # i => cbs'[j] = cbs[j]
    <2>1. {t \in Expired : m_cb[t] = "set"} \in SUBSET Timers
      BY Zenon, <1>5 DEF Known
    <2>2. cbs' = [cbs EXCEPT ![i] = {t \in Expired : m_cb[t] = "set"}] /\ cbs \in [Idlers -> SUBSET Timers]
      BY Zenon DEF Collect, IInv, IdlerInv
    <2> QED BY Zenon, <2>1, <2>2
  <1>11. m_idle_cnt' = Cardinality(Waiting')
    <2>1. i \notin Waiting /\ "drain" \notin {"wait", "leave"}
      BY <1>1 DEF Waiting
    <2> QED BY Zenon, <1>1, <1>2, <2>1, Counted
  <1>12. IdlerInv'
    BY Zenon, <1>2, <1>6, <1>10, <1>11 DEF IInv, IdlerInv
  <1>13. WakeInv'
    <2>1. pc'[i] \notin {"enter", "wait"}
      BY <1>6
    <2> QED BY Zenon, <2>1, Awake
  <1> QED
    BY Zenon, <1>6, <1>7, <1>8, <1>9, <1>12, <1>13 DEF IInv

-----------------------------------------------------------------------------
(* The callers *)

(* A caller leaves the idle threads where they are. *)
LEMMA IdlersStay ==
    ASSUME IInv, NEW c \in Callers, NEW l \in Labels, Goto(c, l),
           UNCHANGED <<m_idle_cnt, until, rt, cbs>>,
           raced' \in [Idlers -> BOOLEAN], tickled' \in BOOLEAN
    PROVE  /\ PcInv' /\ IdlerInv'
           /\ pc'[c] = l /\ \A d \in Callers : d # c => pc'[d] = pc[d]
           /\ \A i \in Idlers : pc'[i] = pc[i]
  <1>1. PcInv /\ c \in Callers \cup Idlers /\ \A j \in Callers \cup Idlers : j \in Idlers => j # c
    BY Zenon, Apart DEF IInv
  <1>2. PcInv' /\ pc'[c] = l /\ \A u \in Callers \cup Idlers : u # c => pc'[u] = pc[u]
    BY Zenon, <1>1, Goes
  <1>3. (\A d \in Callers : d # c => pc'[d] = pc[d]) /\ \A i \in Idlers : pc'[i] = pc[i]
    BY Zenon, <1>1, <1>2
  <1>4. Waiting' = Waiting
    BY Zenon, <1>3 DEF Waiting
  <1>5. IdlerInv'
    BY Zenon, <1>3, <1>4 DEF IInv, IdlerInv
  <1> QED
    BY Zenon, <1>2, <1>3, <1>5

LEMMA IdlersStill ==
    ASSUME IInv, UNCHANGED <<pc, m_idle_cnt, until, rt, cbs>>,
           raced' \in [Idlers -> BOOLEAN], tickled' \in BOOLEAN
    PROVE  PcInv' /\ IdlerInv'
  <1>1. Waiting' = Waiting
    BY Zenon DEF Waiting
  <1> QED
    BY Zenon, <1>1 DEF IInv, IdlerInv, PcInv

(* The first deadline is not an earlier one: who was to look at it will. *)
LEMMA NotSooner ==
    ASSUME IInv, UNCHANGED <<now, until>>, \A i \in Idlers : pc'[i] = pc[i],
           tickled => tickled', \A i \in Idlers : raced[i] => raced'[i],
           m_next_time' = m_next_time, m_timers' \in Seq(Timers), Sorted',
           m_timers' # <<>> => Head(m_timers') \in ToSet(m_timers)
    PROVE  WakeInv'
  <1> SUFFICES ASSUME m_timers' # <<>>, ~tickled',
                      \A i \in Idlers : ~raced'[i] /\ pc'[i] \in {"enter", "wait"}
               PROVE  \E i \in Idlers : until'[i] <= Later(now', m_next_time'[Head(m_timers')])
    BY Zenon DEF WakeInv
  <1> DEFINE h == Head(m_timers')
             d == m_next_time[Head(m_timers)]
             e == m_next_time[h]
  <1>1. h \in ToSet(m_timers)
    BY Zenon
  <1>2. /\ m_timers # <<>> /\ m_timers \in Seq(Timers) /\ Ordered(m_next_time, m_timers)
        /\ m_next_time \in [Timers -> Nat]
    BY Zenon, <1>1, Members DEF IInv, SetInv, DataInv, Sorted, Ordered
  <1>3. Head(m_timers) \in Timers /\ h \in Timers /\ d <= e
    BY Zenon, <1>1, <1>2, HeadFirst
  <1>4. PICK i \in Idlers : until[i] <= Later(now, d)
    BY Zenon, <1>2 DEF IInv, WakeInv
  <1>5. until[i] \in Nat /\ now \in Nat /\ d \in Nat /\ e \in Nat
    BY Zenon, <1>2, <1>3, Nats DEF IInv, IdlerInv
  <1> HIDE DEF d, e
  <1>6. until[i] <= Later(now, e)
    BY <1>3, <1>4, <1>5 DEF Later
  <1>7. until'[i] <= Later(now', m_next_time'[Head(m_timers')])
    BY Zenon, <1>6 DEF e, Later
  <1> QED
    BY Zenon, <1>7

(* on_timer_refresh() wakes a thread that waits; without one, somebody is    *)
(* awake, or is told nothing.                                                *)
LEMMA Told ==
    ASSUME IInv, NEW needed, needed, Refresh(needed), NoteRace, \A i \in Idlers : pc'[i] = pc[i]
    PROVE  WakeInv'
  <1>1. CASE m_idle_cnt > 0
    BY Zenon, <1>1 DEF Refresh, WakeInv
  <1>2. CASE ~(m_idle_cnt > 0)
    <2>1. Cardinality(Waiting) = 0
      BY <1>2, WaitingFinite DEF IInv, IdlerInv
    <2>2. Waiting = {}
      BY Zenon, <2>1, WaitingFinite, FS_EmptySet
    <2>3. PICK i \in Idlers : TRUE
      BY Zenon, TimerAssumption
    <2>4. pc[i] # "wait"
      BY Zenon, <2>2 DEF Waiting
    <2>5. pc[i] = "enter" => raced'[i]
      BY Zenon DEF NoteRace
    <2>6. raced'[i] \/ pc'[i] \notin {"enter", "wait"}
      BY Zenon, <2>4, <2>5
    <2> QED BY Zenon, <2>6 DEF WakeInv
  <1> QED
    BY Zenon, <1>1, <1>2

LEMMA Inserted ==
    ASSUME IInv, NEW t \in Timers, UNCHANGED <<now, until, m_next_time>>,
           \A i \in Idlers : pc'[i] = pc[i], m_timers' \in Seq(Timers), Sorted',
           \A u \in ToSet(m_timers') : u \in ToSet(m_timers) \/ u = t,
           Refresh(Head(m_timers') = t), NoteRace
    PROVE  WakeInv'
  <1>1. CASE Head(m_timers') = t
    BY Zenon, <1>1, Told
  <1>2. CASE Head(m_timers') # t
    <2>1. tickled => tickled'
      BY Zenon DEF Refresh
    <2>2. \A i \in Idlers : raced[i] => raced'[i]
      BY Zenon DEF NoteRace
    <2>3. m_timers' # <<>> => Head(m_timers') \in ToSet(m_timers')
      <3>1. m_next_time' \in [Timers -> Nat] /\ Ordered(m_next_time', m_timers')
        BY Zenon DEF IInv, DataInv, Sorted, Ordered
      <3> QED BY Zenon, <3>1, HeadFirst
    <2>4. m_timers' # <<>> => Head(m_timers') \in ToSet(m_timers)
      BY Zenon, <1>2, <2>3
    <2>5. UNCHANGED <<now, until>> /\ m_next_time' = m_next_time
      BY Zenon
    <2> QED BY Zenon, <2>1, <2>2, <2>4, <2>5, NotSooner
  <1> QED
    BY Zenon, <1>1, <1>2

LEMMA ConstructStep ==
    ASSUME IInv, NEW c \in Callers, NEW t \in Timers, NEW interval \in Intervals, NEW loop \in BOOLEAN,
           Construct(c, t, interval, loop)
    PROVE  IInv' /\ Known' = Known
  <1>1. /\ pc[c] = "user" /\ m_cb[t] = "unset" /\ Goto(c, "add") /\ "add" \in Labels
        /\ UNCHANGED <<now, m_timers, raced, tickled, m_idle_cnt, until, rt, cbs>>
    BY Zenon DEF Construct, Labels
  <1>2. raced' \in [Idlers -> BOOLEAN] /\ tickled' \in BOOLEAN
    BY Zenon, <1>1 DEF IInv, IdlerInv
  <1>3. /\ PcInv' /\ IdlerInv'
        /\ pc'[c] = "add" /\ (\A d \in Callers : d # c => pc'[d] = pc[d])
        /\ \A i \in Idlers : pc'[i] = pc[i]
    BY Zenon, <1>1, <1>2, IdlersStay
  <1>4. /\ DataInv'
        /\ m_cb'[t] = "set"
        /\ \A u \in Timers : u # t => m_cb'[u] = m_cb[u] /\ m_next_time'[u] = m_next_time[u]
    <2>1. now + interval \in Nat
      <3>1. now \in Nat /\ interval \in Nat
        BY Zenon, Nats, TimerAssumption DEF IInv
      <3> QED BY <3>1
    <2>2. DataInv'
      BY <1>1, <2>1 DEF Construct, IInv, DataInv
    <2>3. m_cb'[t] = "set"
      BY Zenon DEF Construct, IInv, DataInv
    <2>4. \A u \in Timers : u # t => m_cb'[u] = m_cb[u] /\ m_next_time'[u] = m_next_time[u]
      BY Zenon DEF Construct, IInv, DataInv
    <2> QED BY Zenon, <2>2, <2>3, <2>4
  <1>5. /\ DOMAIN arg' = Callers /\ arg'[c][1] = t /\ arg'[c][2] = interval
        /\ \A d \in Callers : d # c => arg'[d] = arg[d]
    BY DEF Construct, IInv, CallerInv
  <1>6. Known' = Known
    <2>1. \A u : u \in Known' <=> u \in Timers /\ m_cb'[u] # "unset" /\ \A d \in Callers : pc'[d] = "add" => arg'[d][1] # u
      BY Zenon DEF Known
    <2>2. \A u : u \in Known <=> u \in Timers /\ m_cb[u] # "unset" /\ \A d \in Callers : pc[d] = "add" => arg[d][1] # u
      BY Zenon DEF Known
    <2>3. t \notin Known' /\ t \notin Known
      BY Zenon, <1>1, <1>3, <1>5, <2>1, <2>2
    <2>4. ASSUME NEW u \in Timers, u # t PROVE u \in Known' <=> u \in Known
      <3>1. m_cb'[u] = m_cb[u]
        BY Zenon, <1>4, <2>4
      <3>2. \A d \in Callers : (pc'[d] = "add" => arg'[d][1] # u) <=> (pc[d] = "add" => arg[d][1] # u)
        <4>1. pc[c] # "add"
          BY <1>1
        <4> QED BY Zenon, <1>3, <1>5, <2>4, <4>1
      <3> QED BY Zenon, <2>1, <2>2, <3>1, <3>2
    <2> QED BY Zenon, <2>1, <2>2, <2>3, <2>4
  <1>7. t \notin ToSet(m_timers)
    BY Zenon, <1>1 DEF IInv, SetInv, Known
  <1>8. SetInv'
    <2>1. m_timers' = m_timers /\ m_timers \in Seq(Timers) /\ Ordered(m_next_time, m_timers)
          /\ m_next_time \in [Timers -> Nat] /\ m_next_time' \in [Timers -> Nat]
      BY Zenon, <1>1, <1>4 DEF IInv, SetInv, DataInv, Sorted, Ordered
    <2>2. \A u \in ToSet(m_timers) : m_next_time'[u] = m_next_time[u]
      BY Zenon, <1>4, <1>7, <2>1, Members
    <2>3. Ordered(m_next_time', m_timers)
      BY Zenon, <2>1, <2>2, Rekey
    <2>4. Sorted'
      BY Zenon, <2>1, <2>3 DEF Sorted, Ordered
    <2>5. \A u \in Known' : u \in Timers /\ u # t
      BY Zenon, <1>1, <1>6 DEF Known
    <2>6. \A u \in Known' : m_cb'[u] = "set" => u \in ToSet(m_timers)
      BY Zenon, <1>4, <1>6, <2>5 DEF IInv, SetInv
    <2>7. \A u \in ToSet(m_timers) : u \in Known'
      BY Zenon, <1>6 DEF IInv, SetInv
    <2> QED BY Zenon, <2>1, <2>4, <2>6, <2>7 DEF SetInv
  <1>9. CallerInv'
    <2>1. \A d \in Callers : d # c /\ pc[d] = "add" => arg[d][1] \in Timers /\ arg[d][1] # t
      BY Zenon, <1>1 DEF IInv, CallerInv
    <2>2. \A d \in Callers : pc'[d] \in {"add", "reset"} => arg'[d][1] \in Timers /\ arg'[d][2] \in Intervals
      BY Zenon, <1>3, <1>5 DEF IInv, CallerInv
    <2>3. \A d \in Callers : pc'[d] = "add" => m_cb'[arg'[d][1]] = "set"
      <3> SUFFICES ASSUME NEW d \in Callers, pc'[d] = "add" PROVE m_cb'[arg'[d][1]] = "set"
        BY Zenon
      <3>1. CASE d = c
        BY Zenon, <1>4, <1>5, <3>1
      <3>2. CASE d # c
        <4>1. pc[d] = "add" /\ arg'[d] = arg[d]
          BY Zenon, <1>3, <1>5, <3>2
        <4>2. m_cb[arg[d][1]] = "set"
          BY Zenon, <4>1 DEF IInv, CallerInv
        <4>3. m_cb'[arg[d][1]] = m_cb[arg[d][1]]
          BY Zenon, <1>4, <2>1, <3>2, <4>1
        <4> QED BY Zenon, <4>1, <4>2, <4>3
      <3> QED BY Zenon, <3>1, <3>2
    <2>4. \A d \in Callers : pc'[d] = "reset" => arg'[d][1] \in Known'
      <3>1. pc'[c] # "reset"
        BY <1>3
      <3> QED BY Zenon, <1>3, <1>5, <1>6, <3>1 DEF IInv, CallerInv
    <2>5. \A d, e \in Callers : pc'[d] = "add" /\ pc'[e] = "add" /\ arg'[d][1] = arg'[e][1] => d = e
      <3> SUFFICES ASSUME NEW d \in Callers, NEW e \in Callers, pc'[d] = "add", pc'[e] = "add",
                          arg'[d][1] = arg'[e][1]
                   PROVE  d = e
        BY Zenon
      <3>1. ASSUME NEW f \in Callers, pc'[f] = "add", f # c
            PROVE  pc[f] = "add" /\ arg'[f] = arg[f] /\ arg'[f][1] # t
        BY Zenon, <1>3, <1>5, <2>1, <3>1
      <3>2. CASE d = c \/ e = c
        BY Zenon, <1>5, <3>1, <3>2
      <3>3. CASE d # c /\ e # c
        <4>1. pc[d] = "add" /\ pc[e] = "add" /\ arg[d][1] = arg[e][1]
          BY Zenon, <3>1, <3>3
        <4> QED BY Zenon, <4>1 DEF IInv, CallerInv
      <3> QED BY Zenon, <3>2, <3>3
    <2> QED BY Zenon, <1>5, <2>2, <2>3, <2>4, <2>5 DEF CallerInv
  <1>10. WakeInv'
    <2>1. m_timers # <<>> => Head(m_timers) \in ToSet(m_timers) /\ Head(m_timers) \in Timers
      BY Zenon, HeadFirst DEF IInv, SetInv, DataInv, Sorted, Ordered
    <2>2. m_timers # <<>> => m_next_time'[Head(m_timers)] = m_next_time[Head(m_timers)]
      BY Zenon, <1>4, <1>7, <2>1
    <2> QED BY Zenon, <1>1, <1>3, <2>2 DEF IInv, WakeInv, Later
  <1> QED
    BY Zenon, <1>3, <1>4, <1>6, <1>8, <1>9, <1>10 DEF IInv

(* A timer enters the set, for the first time or again. *)
LEMMA Enters ==
    ASSUME IInv, NEW t \in Timers, NEW s \in Seq(Timers), Ordered(m_next_time, s),
           UNCHANGED m_next_time, m_timers' = Insert(m_next_time, s, t)
    PROVE  /\ m_timers' \in Seq(Timers) /\ Sorted'
           /\ \A u : u \in ToSet(m_timers') <=> u \in ToSet(s) \/ u = t
  <1> DEFINE r == Insert(m_next_time, s, t)
  <1>1. m_next_time \in [Timers -> Nat]
    BY Zenon DEF IInv, DataInv
  <1>2. /\ r \in Seq(Timers) /\ Ordered(m_next_time, r)
        /\ \A u : u \in ToSet(r) <=> u \in ToSet(s) \/ u = t
    BY Zenon, <1>1, InsertSet
  <1>3. Sorted'
    BY Zenon, <1>2 DEF Sorted, Ordered
  <1> QED
    BY Zenon, <1>2, <1>3

LEMMA Returns ==
    ASSUME IInv, NEW c \in Callers, Return(c), UNCHANGED <<m_idle_cnt, until, rt, cbs>>,
           raced' \in [Idlers -> BOOLEAN], tickled' \in BOOLEAN
    PROVE  /\ PcInv' /\ IdlerInv'
           /\ pc'[c] = "user" /\ (\A d \in Callers : d # c => pc'[d] = pc[d])
           /\ (\A i \in Idlers : pc'[i] = pc[i])
           /\ DOMAIN arg' = Callers /\ \A d \in Callers : d # c => arg'[d] = arg[d]
  <1>1. Goto(c, "user") /\ "user" \in Labels /\ arg' = [arg EXCEPT ![c] = <<>>]
    BY Zenon DEF Return, Labels
  <1>2. DOMAIN arg' = Callers /\ \A d \in Callers : d # c => arg'[d] = arg[d]
    BY Zenon, <1>1 DEF IInv, CallerInv
  <1>3. /\ PcInv' /\ IdlerInv'
        /\ pc'[c] = "user" /\ (\A d \in Callers : d # c => pc'[d] = pc[d])
        /\ \A i \in Idlers : pc'[i] = pc[i]
    BY Zenon, <1>1, IdlersStay
  <1> QED
    BY Zenon, <1>2, <1>3

LEMMA RefreshType ==
    ASSUME NEW needed, Refresh(needed)
    PROVE  tickled' \in BOOLEAN /\ (tickled => tickled')
  BY Zenon DEF Refresh

LEMMA RaceType ==
    ASSUME NoteRace
    PROVE  raced' \in [Idlers -> BOOLEAN] /\ \A i \in Idlers : raced[i] => raced'[i]
  BY Zenon DEF NoteRace

LEMMA AddTimerFacts ==
    ASSUME IInv, NEW c \in Callers, AddTimer(c)
    PROVE  /\ PcInv' /\ IdlerInv' /\ CallerInv' /\ (\A i \in Idlers : pc'[i] = pc[i])
           /\ arg[c][1] \in Timers /\ arg[c][1] \notin Known /\ m_cb[arg[c][1]] = "set"
           /\ \A u : u \in Known' <=> u \in Known \/ u = arg[c][1]
  <1> DEFINE t == arg[c][1]
  <1>1. /\ pc[c] = "add" /\ Return(c) /\ NoteRace /\ Refresh(Head(m_timers') = t)
        /\ UNCHANGED <<now, m_interval, m_loop, m_next_time, m_cb, m_idle_cnt, until, rt, cbs>>
    BY Zenon DEF AddTimer
  <1>2. t \in Timers /\ m_cb[t] = "set" /\ t \notin Known
    BY Zenon, <1>1 DEF IInv, CallerInv, Known
  <1>3. UNCHANGED <<m_idle_cnt, until, rt, cbs>>
    BY Zenon, <1>1
  <1>4. tickled' \in BOOLEAN /\ raced' \in [Idlers -> BOOLEAN]
    BY Zenon, <1>1, RefreshType, RaceType
  <1>5. /\ PcInv' /\ IdlerInv'
        /\ pc'[c] = "user" /\ (\A d \in Callers : d # c => pc'[d] = pc[d])
        /\ (\A i \in Idlers : pc'[i] = pc[i])
        /\ DOMAIN arg' = Callers /\ \A d \in Callers : d # c => arg'[d] = arg[d]
    BY Zenon, <1>1, <1>3, <1>4, Returns
  <1>6. ASSUME NEW d \in Callers, pc'[d] \in {"add", "reset"}
        PROVE  d # c /\ pc'[d] = pc[d] /\ arg'[d] = arg[d]
    <2>1. pc'[c] \notin {"add", "reset"}
      BY <1>5
    <2> QED BY Zenon, <1>5, <1>6, <2>1
  <1>7. m_cb' = m_cb
    BY Zenon, <1>1
  <1>8. \A u : u \in Known' <=> u \in Known \/ u = t
    <2>1. \A u : u \in Known' <=> u \in Timers /\ m_cb'[u] # "unset" /\ \A d \in Callers : pc'[d] = "add" => arg'[d][1] # u
      BY Zenon DEF Known
    <2>2. \A u : u \in Known <=> u \in Timers /\ m_cb[u] # "unset" /\ \A d \in Callers : pc[d] = "add" => arg[d][1] # u
      BY Zenon DEF Known
    <2>3. \A d \in Callers : pc[d] = "add" /\ d # c => arg[d][1] # t
      BY Zenon, <1>1 DEF IInv, CallerInv
    <2>4. t \in Known'
      <3>1. m_cb'[t] # "unset"
        BY <1>2, <1>7
      <3>2. \A d \in Callers : pc'[d] = "add" => arg'[d][1] # t
        BY Zenon, <1>6, <2>3
      <3> QED BY Zenon, <1>2, <2>1, <3>1, <3>2
    <2>5. ASSUME NEW u, u # t PROVE u \in Known' <=> u \in Known
      <3>1. (\A d \in Callers : pc'[d] = "add" => arg'[d][1] # u) <=> \A d \in Callers : pc[d] = "add" => arg[d][1] # u
        <4>1. \A d \in Callers : pc'[d] = "add" => pc[d] = "add" /\ arg'[d] = arg[d]
          BY Zenon, <1>6
        <4>2. \A d \in Callers : pc[d] = "add" /\ d # c => pc'[d] = "add" /\ arg'[d] = arg[d]
          BY Zenon, <1>5
        <4> QED BY Zenon, <2>5, <4>1, <4>2
      <3> QED BY Zenon, <1>7, <2>1, <2>2, <3>1
    <2> QED BY Zenon, <2>4, <2>5
  <1>9. CallerInv'
    <2>1. \A d \in Callers : pc'[d] \in {"add", "reset"} => arg'[d][1] \in Timers /\ arg'[d][2] \in Intervals
      BY Zenon, <1>6 DEF IInv, CallerInv
    <2>2. \A d \in Callers : pc'[d] = "add" => m_cb'[arg'[d][1]] = "set"
      BY Zenon, <1>6, <1>7 DEF IInv, CallerInv
    <2>3. \A d \in Callers : pc'[d] = "reset" => arg'[d][1] \in Known'
      BY Zenon, <1>6, <1>8 DEF IInv, CallerInv
    <2>4. \A d, e \in Callers : pc'[d] = "add" /\ pc'[e] = "add" /\ arg'[d][1] = arg'[e][1] => d = e
      BY ZenonT(30), <1>6 DEF IInv, CallerInv
    <2> QED BY Zenon, <1>5, <2>1, <2>2, <2>3, <2>4 DEF CallerInv
  <1> QED
    BY Zenon, <1>2, <1>5, <1>8, <1>9

LEMMA AddTimerStep ==
    ASSUME IInv, NEW c \in Callers, AddTimer(c)
    PROVE  /\ IInv'
           /\ \A u : u \in ToSet(m_timers') <=> u \in ToSet(m_timers) \/ u = arg[c][1]
  <1> DEFINE t == arg[c][1]
  <1>1. /\ PcInv' /\ IdlerInv' /\ CallerInv' /\ (\A i \in Idlers : pc'[i] = pc[i])
        /\ t \in Timers /\ t \notin Known /\ m_cb[t] = "set"
        /\ \A u : u \in Known' <=> u \in Known \/ u = t
    BY Zenon, AddTimerFacts
  <1>2. /\ m_timers' = Insert(m_next_time, m_timers, t) /\ NoteRace /\ Refresh(Head(m_timers') = t)
        /\ UNCHANGED <<now, m_interval, m_loop, m_next_time, m_cb, m_idle_cnt, until, rt, cbs>>
    BY Zenon DEF AddTimer
  <1>3. UNCHANGED <<now, until, m_next_time>> /\ m_cb' = m_cb /\ UNCHANGED m_next_time
    BY Zenon, <1>2
  <1>4. DataInv'
    BY Zenon, <1>2 DEF IInv, DataInv
  <1>5. m_timers \in Seq(Timers) /\ Ordered(m_next_time, m_timers)
    BY Zenon DEF IInv, SetInv, Sorted, Ordered
  <1> HIDE DEF t
  <1>6. /\ m_timers' \in Seq(Timers) /\ Sorted'
        /\ \A u : u \in ToSet(m_timers') <=> u \in ToSet(m_timers) \/ u = t
    BY Zenon, <1>1, <1>2, <1>3, <1>5, Enters
  <1>7. SetInv'
    BY Zenon, <1>1, <1>3, <1>6 DEF IInv, SetInv
  <1>8. WakeInv'
    BY Zenon, <1>1, <1>2, <1>3, <1>6, Inserted
  <1> QED
    BY Zenon, <1>1, <1>4, <1>6, <1>7, <1>8 DEF IInv, t

(* A step of a caller that is not adding: the others go on as before. *)
LEMMA CallersStay ==
    ASSUME IInv, NEW c \in Callers, pc[c] # "add", pc'[c] # "add", Known' = Known,
           \A d \in Callers : d # c => pc'[d] = pc[d] /\ arg'[d] = arg[d], DOMAIN arg' = Callers,
           pc'[c] = "reset" => arg'[c][1] \in Known /\ arg'[c][2] \in Intervals,
           \A t \in Timers : t \notin Known => m_cb'[t] = m_cb[t]
    PROVE  CallerInv'
  <1>1. \A t \in Known : t \in Timers
    BY Zenon DEF Known
  <1>2. \A d \in Callers : pc'[d] \in {"add", "reset"} => arg'[d][1] \in Timers /\ arg'[d][2] \in Intervals
    BY Zenon, <1>1 DEF IInv, CallerInv
  <1>3. \A d \in Callers : pc'[d] = "add" => d # c /\ pc[d] = "add" /\ arg'[d] = arg[d]
    BY Zenon
  <1>4. ASSUME NEW d \in Callers, pc[d] = "add" PROVE m_cb'[arg[d][1]] = "set"
    <2>1. arg[d][1] \in Timers /\ arg[d][1] \notin Known /\ m_cb[arg[d][1]] = "set"
      BY Zenon, <1>4 DEF IInv, CallerInv, Known
    <2> QED BY Zenon, <2>1
  <1>5. \A d \in Callers : pc'[d] = "add" => m_cb'[arg'[d][1]] = "set"
    BY Zenon, <1>3, <1>4
  <1>6. \A d \in Callers : pc'[d] = "reset" => arg'[d][1] \in Known'
    BY Zenon DEF IInv, CallerInv
  <1>7. \A d, e \in Callers : pc'[d] = "add" /\ pc'[e] = "add" /\ arg'[d][1] = arg'[e][1] => d = e
    <2> SUFFICES ASSUME NEW d \in Callers, NEW e \in Callers, pc'[d] = "add", pc'[e] = "add",
                        arg'[d][1] = arg'[e][1]
                 PROVE  d = e
      BY Zenon
    <2>1. pc[d] = "add" /\ pc[e] = "add" /\ arg[d][1] = arg[e][1]
      BY Zenon, <1>3
    <2> QED BY Zenon, <2>1 DEF IInv, CallerInv
  <1> QED
    BY Zenon, <1>2, <1>5, <1>6, <1>7 DEF CallerInv

LEMMA ResetCheckStep ==
    ASSUME IInv, NEW c \in Callers, NEW t \in Timers, NEW interval \in Intervals,
           ResetCheck(c, t, interval)
    PROVE  IInv' /\ Known' = Known
  <1>1. /\ pc[c] = "user" /\ t \in Known /\ Goto(c, "reset") /\ "reset" \in Labels
        /\ arg' = [arg EXCEPT ![c] = <<t, interval>>]
        /\ UNCHANGED timerVars /\ UNCHANGED <<now, raced, tickled, m_idle_cnt, until, rt, cbs>>
    BY Zenon DEF ResetCheck, Labels
  <1>2. /\ m_timers' = m_timers /\ m_interval' = m_interval
        /\ m_loop' = m_loop /\ m_next_time' = m_next_time /\ m_cb' = m_cb
    BY Zenon, <1>1 DEF timerVars
  <1>3. raced' \in [Idlers -> BOOLEAN] /\ tickled' \in BOOLEAN
    BY Zenon, <1>1 DEF IInv, IdlerInv
  <1>4. /\ PcInv' /\ IdlerInv'
        /\ pc'[c] = "reset" /\ (\A d \in Callers : d # c => pc'[d] = pc[d])
        /\ \A i \in Idlers : pc'[i] = pc[i]
    <2>1. UNCHANGED <<m_idle_cnt, until, rt, cbs>>
      BY Zenon, <1>1
    <2> QED BY Zenon, <1>1, <1>3, <2>1, IdlersStay
  <1>5. /\ DOMAIN arg' = Callers /\ arg'[c] = <<t, interval>>
        /\ \A d \in Callers : d # c => arg'[d] = arg[d]
    BY Zenon, <1>1 DEF IInv, CallerInv
  <1>6. arg'[c][1] = t /\ arg'[c][2] = interval
    BY <1>5
  <1>7. pc[c] # "add" /\ pc'[c] # "add"
    BY <1>1, <1>4
  <1>8. Known' = Known
    <2>1. \A d \in Callers : pc'[d] = "add" <=> pc[d] = "add"
      BY Zenon, <1>4, <1>7
    <2>2. \A d \in Callers : pc[d] = "add" => arg'[d] = arg[d]
      BY Zenon, <1>5, <1>7
    <2> QED BY Zenon, <1>2, <2>1, <2>2, KnownSame
  <1>9. CallerInv'
    <2>1. pc'[c] = "reset" => arg'[c][1] \in Known /\ arg'[c][2] \in Intervals
      BY Zenon, <1>1, <1>6
    <2>2. \A d \in Callers : d # c => pc'[d] = pc[d] /\ arg'[d] = arg[d]
      BY Zenon, <1>4, <1>5
    <2>3. \A u \in Timers : u \notin Known => m_cb'[u] = m_cb[u]
      BY Zenon, <1>2
    <2>4. DOMAIN arg' = Callers
      BY Zenon, <1>5
    <2> QED BY Zenon, <1>7, <1>8, <2>1, <2>2, <2>3, <2>4, CallersStay
  <1>10. DataInv'
    BY Zenon, <1>1, <1>2 DEF IInv, DataInv
  <1>11. SetInv'
    BY Zenon, <1>2, <1>8 DEF IInv, SetInv, Sorted
  <1>12. WakeInv'
    BY Zenon, <1>1, <1>2, <1>4 DEF IInv, WakeInv, Later
  <1> QED
    BY Zenon, <1>4, <1>8, <1>9, <1>10, <1>11, <1>12 DEF IInv

LEMMA ResetTimerStep ==
    ASSUME IInv, NEW c \in Callers, ResetTimer(c)
    PROVE  /\ IInv' /\ Known' = Known /\ arg[c][1] \in Known
           /\ \A u : u \in ToSet(m_timers') <=> u \in ToSet(m_timers) \/ u = arg[c][1]
  <1> DEFINE t == arg[c][1]
             s == Erase(m_next_time, m_timers, t)
  <1>1. /\ pc[c] = "reset" /\ m_interval' = [m_interval EXCEPT ![t] = arg[c][2]]
        /\ m_timers' = Insert(m_next_time, s, t) /\ NoteRace /\ Return(c)
        /\ Refresh(Head(m_timers') = t)
        /\ UNCHANGED <<now, m_loop, m_next_time, m_cb, m_idle_cnt, until, rt, cbs>>
    BY Zenon DEF ResetTimer
  <1>2. t \in Timers /\ t \in Known /\ arg[c][2] \in Intervals
    BY Zenon, <1>1 DEF IInv, CallerInv, Known
  <1>3. /\ UNCHANGED <<m_idle_cnt, until, rt, cbs>> /\ UNCHANGED <<now, until, m_next_time>>
        /\ UNCHANGED m_next_time /\ now' = now /\ m_loop' = m_loop /\ m_cb' = m_cb
    BY Zenon, <1>1
  <1>4. tickled' \in BOOLEAN /\ raced' \in [Idlers -> BOOLEAN]
    BY Zenon, <1>1, RefreshType, RaceType
  <1>5. /\ PcInv' /\ IdlerInv'
        /\ pc'[c] = "user" /\ (\A d \in Callers : d # c => pc'[d] = pc[d])
        /\ (\A i \in Idlers : pc'[i] = pc[i])
        /\ DOMAIN arg' = Callers /\ \A d \in Callers : d # c => arg'[d] = arg[d]
    BY Zenon, <1>1, <1>3, <1>4, Returns
  <1>6. m_next_time \in [Timers -> Nat] /\ m_timers \in Seq(Timers) /\ Ordered(m_next_time, m_timers)
    BY Zenon DEF IInv, DataInv, SetInv, Sorted, Ordered
  <1> HIDE DEF t
  <1>7. s \in Seq(Timers) /\ Ordered(m_next_time, s) /\ ToSet(s) = ToSet(m_timers) \ {t}
    BY Zenon, <1>2, <1>6, EraseSet
  <1> HIDE DEF s
  <1>8. /\ m_timers' \in Seq(Timers) /\ Sorted'
        /\ \A u : u \in ToSet(m_timers') <=> u \in ToSet(s) \/ u = t
    BY Zenon, <1>1, <1>2, <1>3, <1>7, Enters
  <1>9. \A u : u \in ToSet(m_timers') <=> u \in ToSet(m_timers) \/ u = t
    BY Zenon, <1>7, <1>8
  <1>10. pc[c] # "add" /\ pc'[c] # "add" /\ pc'[c] # "reset"
    BY <1>1, <1>5
  <1>11. Known' = Known
    <2>1. \A d \in Callers : pc'[d] = "add" <=> pc[d] = "add"
      BY Zenon, <1>5, <1>10
    <2>2. \A d \in Callers : pc[d] = "add" => arg'[d] = arg[d]
      BY Zenon, <1>5, <1>10
    <2> QED BY Zenon, <1>3, <2>1, <2>2, KnownSame
  <1>12. CallerInv'
    BY Zenon, <1>3, <1>5, <1>10, <1>11, CallersStay
  <1>13. DataInv'
    <2>1. m_interval' \in [Timers -> Intervals \cup {0}]
      BY Zenon, <1>1, <1>2 DEF IInv, DataInv
    <2> QED BY Zenon, <1>3, <2>1 DEF IInv, DataInv
  <1>14. SetInv'
    BY Zenon, <1>2, <1>3, <1>8, <1>9, <1>11 DEF IInv, SetInv
  <1>15. WakeInv'
    BY Zenon, <1>1, <1>2, <1>3, <1>5, <1>8, <1>9, Inserted
  <1> QED
    BY Zenon, <1>2, <1>5, <1>9, <1>11, <1>12, <1>13, <1>14, <1>15 DEF IInv, t

(* Cancelled timers leave the set and lose their callbacks; known ones stay  *)
(* known.                                                                    *)
LEMMA Cancelled ==
    ASSUME IInv, NEW c \in Callers, pc[c] = "user", NEW S,
           UNCHANGED <<now, m_interval, m_loop, m_next_time, raced, m_idle_cnt, pc, arg, until, rt, cbs>>,
           S \subseteq ToSet(m_timers), m_timers' \in Seq(Timers), Sorted',
           \A u : u \in ToSet(m_timers') <=> u \in ToSet(m_timers) /\ u \notin S,
           m_cb' = [u \in Timers |-> IF u \in S THEN "null" ELSE m_cb[u]],
           NEW needed, Refresh(needed)
    PROVE  IInv' /\ Known' = Known
  <1>1. /\ now' = now /\ m_interval' = m_interval /\ m_loop' = m_loop /\ m_next_time' = m_next_time
        /\ raced' = raced /\ pc' = pc /\ arg' = arg
        /\ UNCHANGED <<pc, m_idle_cnt, until, rt, cbs>> /\ UNCHANGED <<now, until>>
    BY Zenon
  <1>2. tickled' \in BOOLEAN /\ (tickled => tickled') /\ raced' \in [Idlers -> BOOLEAN]
    BY Zenon, <1>1, RefreshType DEF IInv, IdlerInv
  <1>3. PcInv' /\ IdlerInv'
    BY Zenon, <1>1, <1>2, IdlersStill
  <1>4. \A u \in S : u \in Known /\ u \in Timers /\ m_cb[u] # "unset"
    BY Zenon DEF IInv, SetInv, Known
  <1>5. \A u \in Timers : m_cb'[u] = IF u \in S THEN "null" ELSE m_cb[u]
    BY Zenon
  <1>6. Known' = Known
    <2>1. \A u \in Timers : m_cb'[u] = "unset" <=> m_cb[u] = "unset"
      BY Zenon, <1>4, <1>5
    <2> QED BY Zenon, <1>1, <2>1, KnownSame
  <1>7. DataInv'
    <2>1. m_cb' \in [Timers -> {"unset", "set", "null"}]
      <3>1. \A u \in Timers : m_cb[u] \in {"unset", "set", "null"}
        BY Zenon DEF IInv, DataInv
      <3> QED BY Zenon, <3>1
    <2> QED BY Zenon, <1>1, <2>1 DEF IInv, DataInv
  <1>8. SetInv'
    <2>1. \A u \in ToSet(m_timers') : u \in Known'
      BY Zenon, <1>6 DEF IInv, SetInv
    <2>2. ASSUME NEW u \in Known', m_cb'[u] = "set" PROVE u \in ToSet(m_timers')
      <3>1. u \in Known /\ u \in Timers
        BY Zenon, <1>6 DEF Known
      <3>2. m_cb[u] = "set" /\ u \notin S
        BY Zenon, <1>5, <2>2, <3>1
      <3> QED BY Zenon, <3>1, <3>2 DEF IInv, SetInv
    <2> QED BY Zenon, <2>1, <2>2 DEF SetInv
  <1>9. CallerInv'
    <2>1. pc[c] # "add" /\ pc'[c] # "add" /\ pc'[c] # "reset"
      BY <1>1
    <2>2. DOMAIN arg' = Callers
      BY Zenon, <1>1 DEF IInv, CallerInv
    <2>3. \A u \in Timers : u \notin Known => m_cb'[u] = m_cb[u]
      BY Zenon, <1>4, <1>5
    <2> QED BY Zenon, <1>1, <1>6, <2>1, <2>2, <2>3, CallersStay
  <1>10. WakeInv'
    <2>1. m_timers' # <<>> => Head(m_timers') \in ToSet(m_timers)
      <3>1. m_next_time' \in [Timers -> Nat] /\ Ordered(m_next_time', m_timers')
        BY Zenon, <1>7 DEF DataInv, Sorted, Ordered
      <3> QED BY Zenon, <3>1, HeadFirst
    <2>2. \A i \in Idlers : pc'[i] = pc[i] /\ (raced[i] => raced'[i])
      BY Zenon, <1>1
    <2> QED BY Zenon, <1>1, <1>2, <2>1, <2>2, NotSooner
  <1> QED
    BY Zenon, <1>3, <1>6, <1>7, <1>8, <1>9, <1>10 DEF IInv

LEMMA CancelTimerStep ==
    ASSUME IInv, NEW c \in Callers, NEW t \in Timers, CancelTimer(c, t)
    PROVE  /\ IInv' /\ Known' = Known /\ t \in ToSet(m_timers)
           /\ \A u : u \in ToSet(m_timers') <=> u \in ToSet(m_timers) /\ u # t
  <1> DEFINE s == Erase(m_next_time, m_timers, t)
  <1>1. /\ pc[c] = "user" /\ Valid(t) /\ m_timers' = s /\ Refresh(First(t))
        /\ m_cb' = [m_cb EXCEPT ![t] = "null"]
        /\ UNCHANGED <<now, m_interval, m_loop, m_next_time, raced, m_idle_cnt, pc, arg, until, rt, cbs>>
    BY Zenon DEF CancelTimer
  <1>2. m_next_time \in [Timers -> Nat] /\ m_timers \in Seq(Timers) /\ Ordered(m_next_time, m_timers)
    BY Zenon DEF IInv, DataInv, SetInv, Sorted, Ordered
  <1>3. s \in Seq(Timers) /\ Ordered(m_next_time, s) /\ ToSet(s) = ToSet(m_timers) \ {t}
    BY Zenon, <1>2, EraseSet
  <1> HIDE DEF s
  <1>4. t \in ToSet(m_timers)
    BY Zenon, <1>1, ValidMember DEF IInv
  <1>5. m_timers' \in Seq(Timers) /\ Sorted'
    <2>1. m_next_time' = m_next_time
      BY Zenon, <1>1
    <2> QED BY Zenon, <1>1, <1>3, <2>1 DEF Sorted, Ordered
  <1>6. \A u : u \in ToSet(m_timers') <=> u \in ToSet(m_timers) /\ u \notin {t}
    BY Zenon, <1>1, <1>3
  <1>7. m_cb' = [u \in Timers |-> IF u \in {t} THEN "null" ELSE m_cb[u]]
    BY <1>1 DEF IInv, DataInv
  <1>8. {t} \subseteq ToSet(m_timers)
    BY Zenon, <1>4
  <1>9. IInv' /\ Known' = Known
    BY Zenon, <1>1, <1>5, <1>6, <1>7, <1>8, Cancelled
  <1> QED
    BY Zenon, <1>4, <1>6, <1>9

LEMMA CancelAllTimerStep ==
    ASSUME IInv, NEW c \in Callers, CancelAllTimer(c)
    PROVE  IInv' /\ Known' = Known /\ ToSet(m_timers') = {}
  <1>1. /\ pc[c] = "user" /\ m_timers' = <<>> /\ Refresh(TRUE)
        /\ m_cb' = [u \in Timers |-> IF Valid(u) THEN "null" ELSE m_cb[u]]
        /\ UNCHANGED <<now, m_interval, m_loop, m_next_time, raced, m_idle_cnt, pc, arg, until, rt, cbs>>
    BY Zenon DEF CancelAllTimer
  <1>2. \A u \in Timers : Valid(u) <=> u \in ToSet(m_timers)
    BY Zenon, ValidMember DEF IInv
  <1>3. m_cb' = [u \in Timers |-> IF u \in ToSet(m_timers) THEN "null" ELSE m_cb[u]]
    BY Zenon, <1>1, <1>2
  <1>4. m_timers' \in Seq(Timers) /\ ToSet(m_timers') = {} /\ DOMAIN m_timers' = {}
    BY <1>1 DEF ToSet
  <1>5. Sorted'
    BY Zenon, <1>4 DEF Sorted
  <1>6. \A u : u \in ToSet(m_timers') <=> u \in ToSet(m_timers) /\ u \notin ToSet(m_timers)
    BY Zenon, <1>4
  <1>7. ToSet(m_timers) \subseteq ToSet(m_timers)
    BY Zenon
  <1>8. IInv' /\ Known' = Known
    BY Zenon, <1>1, <1>3, <1>4, <1>5, <1>6, <1>7, Cancelled
  <1> QED
    BY Zenon, <1>4, <1>8

-----------------------------------------------------------------------------
(* Every step keeps the invariant *)

LEMMA NextStep == IInv /\ [Next]_vars => IInv'
  <1> SUFFICES ASSUME IInv, [Next]_vars PROVE IInv'
    BY Zenon
  <1>1. ASSUME NEW c \in Callers, CallerStep(c) PROVE IInv'
    BY Zenon, <1>1, ConstructStep, ResetCheckStep, CancelTimerStep, AddTimerStep, ResetTimerStep,
       CancelAllTimerStep DEF CallerStep
  <1>2. ASSUME NEW i \in Idlers, IdleStep(i) PROVE IInv'
    BY Zenon, <1>2, ComputeLeftStep, IdleEnterStep, EpollWaitStep, IdleLeaveStep, IdleCheckStep,
       ExpireCheckStep, CollectStep, DrainPipeStep DEF IdleStep
  <1>3. CASE UNCHANGED vars
    <2>1. /\ UNCHANGED <<now, m_timers, m_interval, m_loop, m_next_time, m_cb, raced, tickled>>
          /\ UNCHANGED <<m_idle_cnt, pc, arg, until, rt, cbs>>
      BY Zenon, <1>3 DEF vars, timerVars
    <2>2. Known' = Known /\ Waiting' = Waiting
      BY Zenon, <2>1 DEF Known, Waiting
    <2>3. PcInv' /\ DataInv' /\ CallerInv'
      BY Zenon, <2>1, <2>2 DEF IInv, PcInv, DataInv, CallerInv
    <2>4. SetInv' /\ IdlerInv' /\ WakeInv'
      BY Zenon, <2>1, <2>2 DEF IInv, SetInv, Sorted, IdlerInv, WakeInv, Later
    <2> QED BY Zenon, <2>3, <2>4 DEF IInv
  <1> QED
    BY Zenon, <1>1, <1>2, <1>3, TickStep DEF Next

(* The inductive invariant holds in every state. *)
THEOREM Invariance == Spec => []IInv
  BY Initially, NextStep, PTL DEF Spec

(* m_timers is always ordered by the deadlines its timers have now and free  *)
(* of duplicates: reset_timer() and all_expired_cbs() change no key of a     *)
(* timer that is in the set.                                                 *)
THEOREM StaysSorted == Spec => []Sorted
  <1>1. IInv => Sorted
    BY Zenon DEF IInv, SetInv
  <1> QED BY Invariance, <1>1, PTL

(* The variables keep their types, only known timers are in the set, and     *)
(* m_idle_cnt stays between 0 and the number of idle threads.                *)
THEOREM TypeCorrect == Spec => []TypeOK
  <1>1. IInv => TypeOK
    <2> SUFFICES ASSUME IInv PROVE TypeOK
      BY Zenon
    <2>1. m_timers \in Seq(Known)
      <3>1. m_timers \in Seq(Timers) /\ \A t \in ToSet(m_timers) : t \in Known
        BY Zenon DEF IInv, SetInv
      <3>2. \A k \in 1..Len(m_timers) : m_timers[k] \in Known
        <4>1. DOMAIN m_timers = 1..Len(m_timers)
          BY <3>1
        <4> QED BY Zenon, <3>1, <4>1 DEF ToSet
      <3> QED BY <3>1, <3>2
    <2>2. m_idle_cnt \in 0..Cardinality(Idlers)
      <3>1. Cardinality(Waiting) <= Cardinality(Idlers) /\ Cardinality(Idlers) \in Nat
        BY Zenon, WaitingFinite, TimerAssumption, FS_Subset, FS_CardinalityType
      <3>2. m_idle_cnt = Cardinality(Waiting) /\ Cardinality(Waiting) \in Nat
        BY Zenon, WaitingFinite DEF IInv, IdlerInv
      <3> QED BY <3>1, <3>2
    <2> QED
      BY Zenon, <2>1, <2>2 DEF IInv, DataInv, IdlerInv, TypeOK
  <1> QED BY Invariance, <1>1, PTL

(* From the return of add_timer() until its callback is handed over or       *)
(* cancelled a timer is in the set, whatever calls interleave with it.       *)
THEOREM NoneLost == Spec => []NoTimerLost
  <1>1. IInv => NoTimerLost
    <2> SUFFICES ASSUME IInv, NEW t \in Known, m_cb[t] = "set" PROVE Valid(t)
      BY Zenon DEF NoTimerLost
    <2>1. t \in Timers /\ t \in ToSet(m_timers)
      BY Zenon DEF IInv, SetInv, Known
    <2> QED BY Zenon, <2>1, ValidMember DEF IInv
  <1> QED BY Invariance, <1>1, PTL

(* When every idle thread waits, one of them wakes by the first deadline,    *)
(* for any number of threads and any callers; the exception is the timer     *)
(* nobody was told of.                                                       *)
THEOREM Woken == Spec => []WokenInTime
  <1>1. IInv => WokenInTime
    BY Zenon DEF IInv, WakeInv, WokenInTime
  <1> QED BY Invariance, <1>1, PTL

-----------------------------------------------------------------------------
(* TimerManager implements TimerService *)

LEMMA DeadlineIs ==
    Deadline = [t \in Timers |-> IF t \in ToSet(m_timers) THEN m_next_time[t] ELSE -1]
  <1>1. \A t \in Timers : Pending(t) <=> t \in ToSet(m_timers)
    BY Zenon DEF Pending, ToSet
  <1> QED
    BY Zenon, <1>1 DEF Deadline

LEMMA DeadlineWillBe ==
    Deadline' = [t \in Timers |-> IF t \in ToSet(m_timers') THEN m_next_time'[t] ELSE -1]
  <1>1. \A t \in Timers : Pending(t)' <=> t \in ToSet(m_timers')
    BY Zenon DEF Pending, ToSet
  <1>2. Deadline' = [t \in Timers |-> IF Pending(t)' THEN m_next_time'[t] ELSE -1]
    BY Zenon DEF Deadline
  <1> QED
    BY Zenon, <1>1, <1>2

Seen == <<now, Deadline, Phase, Handed>>

(* An idle thread that leaves the timers alone shows nothing. *)
LEMMA Unseen ==
    ASSUME IInv, NEW i \in Idlers, NEW l \in Labels, Goto(i, l), UNCHANGED <<now, timerVars, arg>>
    PROVE  Deadline' = Deadline /\ Phase' = Phase
  <1>1. \A c \in Callers : pc'[c] = pc[c]
    BY Zenon, Goes, Apart DEF IInv
  <1>2. m_timers' = m_timers /\ m_next_time' = m_next_time /\ m_cb' = m_cb /\ arg' = arg
    BY Zenon DEF timerVars
  <1>3. Known' = Known
    BY Zenon, <1>1, <1>2, KnownSame
  <1> QED
    BY Zenon, <1>2, <1>3 DEF Deadline, Pending, Phase

LEMMA QuietSeen ==
    ASSUME IInv, NEW i \in Idlers,
           \/ ComputeLeft(i) \/ IdleEnter(i) \/ EpollWait(i) \/ IdleLeave(i)
           \/ IdleCheck(i) \/ ExpireCheck(i)
    PROVE  UNCHANGED Seen
  <1>1. UNCHANGED <<now, timerVars, arg>> /\ cbs' = cbs /\ \E l \in Labels : Goto(i, l)
    <2>1. UNCHANGED <<now, timerVars, arg>> /\ cbs' = cbs
      BY Zenon DEF ComputeLeft, IdleEnter, EpollWait, IdleLeave, IdleCheck, ExpireCheck
    <2>2. \E l \in Labels : Goto(i, l)
      BY Zenon DEF ComputeLeft, IdleEnter, EpollWait, IdleLeave, IdleCheck, ExpireCheck, Labels
    <2> QED BY Zenon, <2>1, <2>2
  <1>2. PICK l \in Labels : Goto(i, l)
    BY Zenon, <1>1
  <1>3. Deadline' = Deadline /\ Phase' = Phase
    BY Zenon, <1>1, <1>2, Unseen
  <1>4. Handed' = Handed
    BY Zenon, <1>1 DEF Handed
  <1> QED
    BY Zenon, <1>1, <1>3, <1>4 DEF Seen

LEMMA DrainSeen ==
    ASSUME IInv, NEW i \in Idlers, DrainPipe(i)
    PROVE  Service!Take
  <1>1. Goto(i, "left") /\ "left" \in Labels /\ UNCHANGED <<now, timerVars, arg>>
    BY Zenon DEF DrainPipe, Labels
  <1>2. Deadline' = Deadline /\ Phase' = Phase /\ now' = now
    BY Zenon, <1>1, Unseen
  <1>3. \A j \in Idlers : cbs'[j] \subseteq cbs[j]
    <2>1. cbs' = [cbs EXCEPT ![i] = {}] /\ cbs \in [Idlers -> SUBSET Timers]
      BY Zenon DEF DrainPipe, IInv, IdlerInv
    <2> QED BY Zenon, <2>1
  <1>4. Handed' \subseteq Handed
    BY Zenon, <1>3 DEF Handed
  <1> QED
    BY Zenon, <1>2, <1>4 DEF Service!Take

LEMMA TickSeen ==
    ASSUME IInv, Tick
    PROVE  Service!Pass
  <1>1. /\ now' = now + 1 /\ UNCHANGED timerVars
        /\ UNCHANGED <<raced, tickled, m_idle_cnt, pc, arg, until, rt, cbs>>
    BY Zenon DEF Tick
  <1>2. /\ m_timers' = m_timers /\ m_next_time' = m_next_time /\ m_cb' = m_cb /\ arg' = arg
        /\ pc' = pc /\ cbs' = cbs
    BY Zenon, <1>1 DEF timerVars
  <1>3. Known' = Known
    BY Zenon, <1>2 DEF Known
  <1>4. Deadline' = Deadline /\ Phase' = Phase /\ Handed' = Handed
    BY Zenon, <1>2, <1>3 DEF Deadline, Pending, Phase, Handed
  <1> QED
    BY Zenon, <1>1, <1>4 DEF Service!Pass

LEMMA ConstructSeen ==
    ASSUME IInv, NEW c \in Callers, NEW t \in Timers, NEW interval \in Intervals, NEW loop \in BOOLEAN,
           Construct(c, t, interval, loop)
    PROVE  UNCHANGED Seen
  <1>1. IInv' /\ Known' = Known
    BY Zenon, ConstructStep
  <1>2. /\ m_cb[t] = "unset" /\ now' = now /\ m_timers' = m_timers /\ cbs' = cbs
        /\ \A u \in Timers : u # t => m_cb'[u] = m_cb[u] /\ m_next_time'[u] = m_next_time[u]
    BY Zenon DEF Construct, IInv, DataInv
  <1>3. t \notin Known /\ t \notin ToSet(m_timers)
    BY Zenon, <1>2 DEF IInv, SetInv, Known
  <1>4. Deadline' = Deadline
    <2>1. \A u \in Timers : u \in ToSet(m_timers) => m_next_time'[u] = m_next_time[u]
      BY Zenon, <1>2, <1>3
    <2> QED BY Zenon, <1>1, <1>2, <2>1, DeadlineIs, DeadlineWillBe
  <1>5. Phase' = Phase
    <2>1. \A u \in Timers : u \in Known => m_cb'[u] = m_cb[u]
      BY Zenon, <1>2, <1>3
    <2> QED BY Zenon, <1>1, <2>1 DEF Phase
  <1> QED
    BY Zenon, <1>2, <1>4, <1>5 DEF Seen, Handed

LEMMA ResetCheckSeen ==
    ASSUME IInv, NEW c \in Callers, NEW t \in Timers, NEW interval \in Intervals,
           ResetCheck(c, t, interval)
    PROVE  UNCHANGED Seen
  <1>1. Known' = Known
    BY Zenon, ResetCheckStep
  <1>2. now' = now /\ m_timers' = m_timers /\ m_next_time' = m_next_time /\ m_cb' = m_cb /\ cbs' = cbs
    BY Zenon DEF ResetCheck, timerVars
  <1> QED
    BY Zenon, <1>1, <1>2 DEF Seen, Deadline, Pending, Phase, Handed

LEMMA AddTimerSeen ==
    ASSUME IInv, NEW c \in Callers, AddTimer(c)
    PROVE  Service!Start(arg[c][1])
  <1> DEFINE t == arg[c][1]
  <1>1. IInv' /\ \A u : u \in ToSet(m_timers') <=> u \in ToSet(m_timers) \/ u = t
    BY Zenon, AddTimerStep
  <1>2. /\ t \in Timers /\ t \notin Known /\ m_cb[t] = "set"
        /\ \A u : u \in Known' <=> u \in Known \/ u = t
    BY Zenon, AddTimerFacts
  <1>3. now' = now /\ m_next_time' = m_next_time /\ m_cb' = m_cb /\ cbs' = cbs
    BY Zenon DEF AddTimer
  <1> HIDE DEF t
  <1>4. m_next_time[t] \in Nat
    BY Zenon, <1>2 DEF IInv, DataInv
  <1>5. Deadline'[t] = m_next_time[t] /\ Deadline' = [Deadline EXCEPT ![t] = m_next_time[t]]
    <2>1. Deadline = [u \in Timers |-> IF u \in ToSet(m_timers) THEN m_next_time[u] ELSE -1]
      BY Zenon, DeadlineIs
    <2>2. Deadline' = [u \in Timers |-> IF u \in ToSet(m_timers') THEN m_next_time[u] ELSE -1]
      BY Zenon, <1>1, <1>3, DeadlineWillBe
    <2> QED BY Zenon, <1>1, <1>2, <2>1, <2>2
  <1>6. Phase[t] = "new" /\ Phase' = [Phase EXCEPT ![t] = "live"]
    <2>1. Phase' = [u \in Timers |-> IF u \notin Known' THEN "new"
                                     ELSE IF m_cb[u] = "set" THEN "live" ELSE "dead"]
      BY Zenon, <1>3 DEF Phase
    <2> QED BY Zenon, <1>2, <2>1 DEF Phase
  <1>7. Handed' = Handed
    BY Zenon, <1>3 DEF Handed
  <1>8. Service!SetDeadline(t)
    BY Zenon, <1>4, <1>5 DEF Service!SetDeadline
  <1>9. Service!Start(t)
    BY Zenon, <1>3, <1>6, <1>7, <1>8 DEF Service!Start
  <1> QED
    BY Zenon, <1>9 DEF t

LEMMA ResetTimerSeen ==
    ASSUME IInv, NEW c \in Callers, ResetTimer(c)
    PROVE  UNCHANGED Seen \/ (arg[c][1] \in Timers /\ Service!Restart(arg[c][1]))
  <1> DEFINE t == arg[c][1]
  <1>1. /\ IInv' /\ Known' = Known /\ t \in Known
        /\ \A u : u \in ToSet(m_timers') <=> u \in ToSet(m_timers) \/ u = t
    BY Zenon, ResetTimerStep
  <1>2. now' = now /\ m_next_time' = m_next_time /\ m_cb' = m_cb /\ cbs' = cbs
    BY Zenon DEF ResetTimer
  <1> HIDE DEF t
  <1>3. t \in Timers /\ m_next_time[t] \in Nat
    BY Zenon, <1>1 DEF IInv, DataInv, Known
  <1>4. Phase' = Phase /\ Handed' = Handed
    BY Zenon, <1>1, <1>2 DEF Phase, Handed
  <1>5. Deadline = [u \in Timers |-> IF u \in ToSet(m_timers) THEN m_next_time[u] ELSE -1]
    BY Zenon, DeadlineIs
  <1>6. Deadline' = [u \in Timers |-> IF u \in ToSet(m_timers') THEN m_next_time[u] ELSE -1]
    BY Zenon, <1>1, <1>2, DeadlineWillBe
  <1>7. CASE t \in ToSet(m_timers)
    <2>1. \A u : u \in ToSet(m_timers') <=> u \in ToSet(m_timers)
      BY Zenon, <1>1, <1>7
    <2>2. Deadline' = Deadline
      BY Zenon, <1>5, <1>6, <2>1
    <2> QED BY Zenon, <1>2, <1>4, <2>2 DEF Seen
  <1>8. CASE t \notin ToSet(m_timers)
    <2>1. Deadline[t] = -1 /\ Deadline'[t] = m_next_time[t]
          /\ Deadline' = [Deadline EXCEPT ![t] = m_next_time[t]]
      BY Zenon, <1>1, <1>3, <1>5, <1>6, <1>8
    <2>2. m_cb[t] # "set"
      BY Zenon, <1>1, <1>8 DEF IInv, SetInv
    <2>3. Phase[t] = "dead"
      BY Zenon, <1>1, <1>3, <2>2 DEF Phase
    <2>4. Service!SetDeadline(t)
      BY Zenon, <1>3, <2>1 DEF Service!SetDeadline
    <2>5. t \notin Service!Pending
      BY Zenon, <2>1 DEF Service!Pending
    <2>6. Service!Restart(t)
      BY Zenon, <1>2, <1>4, <2>3, <2>4, <2>5 DEF Service!Restart
    <2> QED BY Zenon, <1>3, <2>6 DEF t
  <1> QED
    BY Zenon, <1>7, <1>8

LEMMA PendingIs ==
    ASSUME IInv
    PROVE  Service!Pending = ToSet(m_timers)
  <1>1. \A u \in Timers : Deadline[u] = IF u \in ToSet(m_timers) THEN m_next_time[u] ELSE -1
    BY Zenon, DeadlineIs
  <1>2. \A u \in Timers : m_next_time[u] # -1
    <2>1. \A u \in Timers : m_next_time[u] \in Nat
      BY Zenon DEF IInv, DataInv
    <2>2. \A n \in Nat : n # -1
      OBVIOUS
    <2> QED BY Zenon, <2>1, <2>2
  <1>3. \A u \in ToSet(m_timers) : u \in Timers
    BY Zenon, Members DEF IInv, SetInv
  <1> QED
    BY Zenon, <1>1, <1>2, <1>3 DEF Service!Pending

LEMMA CancelledSeen ==
    ASSUME IInv, IInv', NEW S, S \subseteq ToSet(m_timers), Known' = Known,
           UNCHANGED <<now, m_next_time, cbs>>,
           \A u : u \in ToSet(m_timers') <=> u \in ToSet(m_timers) /\ u \notin S,
           \A u \in Timers : m_cb'[u] = IF u \in S THEN "null" ELSE m_cb[u]
    PROVE  Service!Cancel(S)
  <1>1. Deadline = [u \in Timers |-> IF u \in ToSet(m_timers) THEN m_next_time[u] ELSE -1]
    BY Zenon, DeadlineIs
  <1>2. Deadline' = [u \in Timers |-> IF u \in ToSet(m_timers') THEN m_next_time[u] ELSE -1]
    BY Zenon, DeadlineWillBe
  <1>3. Deadline' = [u \in Timers |-> IF u \in S THEN -1 ELSE Deadline[u]]
    <2>1. \A u \in Timers : (IF u \in ToSet(m_timers') THEN m_next_time[u] ELSE -1)
                              = (IF u \in S THEN -1 ELSE Deadline[u])
      BY Zenon, <1>1
    <2> QED BY Zenon, <1>2, <2>1
  <1>4. \A u \in S : u \in Known
    BY Zenon DEF IInv, SetInv
  <1>5. Phase' = [u \in Timers |-> IF u \in S THEN "dead" ELSE Phase[u]]
    <2>1. Phase' = [u \in Timers |-> IF u \notin Known THEN "new"
                                     ELSE IF m_cb'[u] = "set" THEN "live" ELSE "dead"]
      BY Zenon DEF Phase
    <2>2. \A u \in Timers : (IF u \notin Known THEN "new"
                             ELSE IF m_cb'[u] = "set" THEN "live" ELSE "dead")
                              = (IF u \in S THEN "dead" ELSE Phase[u])
      <3> SUFFICES ASSUME NEW u \in Timers
                   PROVE  (IF u \notin Known THEN "new"
                           ELSE IF m_cb'[u] = "set" THEN "live" ELSE "dead")
                            = (IF u \in S THEN "dead" ELSE Phase[u])
        BY Zenon
      <3>1. CASE u \in S
        <4>1. m_cb'[u] # "set" /\ u \in Known
          BY <1>4, <3>1
        <4> QED BY Zenon, <3>1, <4>1
      <3>2. CASE u \notin S
        <4>1. m_cb'[u] = m_cb[u]
          BY Zenon, <3>2
        <4> QED BY Zenon, <3>2, <4>1 DEF Phase
      <3> QED BY Zenon, <3>1, <3>2
    <2> QED BY Zenon, <2>1, <2>2
  <1>6. Handed' = Handed /\ now' = now
    BY Zenon DEF Handed
  <1>7. S \subseteq Service!Pending
    BY Zenon, PendingIs
  <1> QED
    BY Zenon, <1>3, <1>5, <1>6, <1>7 DEF Service!Cancel

LEMMA CancelTimerSeen ==
    ASSUME IInv, NEW c \in Callers, NEW t \in Timers, CancelTimer(c, t)
    PROVE  Service!Cancel({t})
  <1>1. /\ IInv' /\ Known' = Known /\ t \in ToSet(m_timers)
        /\ \A u : u \in ToSet(m_timers') <=> u \in ToSet(m_timers) /\ u # t
    BY Zenon, CancelTimerStep
  <1>2. UNCHANGED <<now, m_next_time, cbs>>
    BY Zenon DEF CancelTimer
  <1>3. \A u \in Timers : m_cb'[u] = IF u \in {t} THEN "null" ELSE m_cb[u]
    BY DEF CancelTimer, IInv, DataInv
  <1>4. /\ {t} \subseteq ToSet(m_timers)
        /\ \A u : u \in ToSet(m_timers') <=> u \in ToSet(m_timers) /\ u \notin {t}
    BY Zenon, <1>1
  <1> QED
    BY Zenon, <1>1, <1>2, <1>3, <1>4, CancelledSeen

LEMMA CancelAllTimerSeen ==
    ASSUME IInv, NEW c \in Callers, CancelAllTimer(c)
    PROVE  Service!Cancel(ToSet(m_timers))
  <1>1. IInv' /\ Known' = Known /\ ToSet(m_timers') = {}
    BY Zenon, CancelAllTimerStep
  <1>2. UNCHANGED <<now, m_next_time, cbs>>
    BY Zenon DEF CancelAllTimer
  <1>3. \A u \in Timers : m_cb'[u] = IF u \in ToSet(m_timers) THEN "null" ELSE m_cb[u]
    BY Zenon, ValidMember DEF CancelAllTimer, IInv
  <1>4. /\ ToSet(m_timers) \subseteq ToSet(m_timers)
        /\ \A u : u \in ToSet(m_timers') <=> u \in ToSet(m_timers) /\ u \notin ToSet(m_timers)
    BY Zenon, <1>1
  <1> QED
    BY Zenon, <1>1, <1>2, <1>3, <1>4, CancelledSeen

(* all_expired_cbs() hands over what is due; loop timers come again. *)
LEMMA CollectSeen ==
    ASSUME IInv, NEW i \in Idlers, Collect(i)
    PROVE  Service!Expire({t \in Expired : m_loop[t]})
  <1> DEFINE again == {t \in Expired : m_loop[t]}
  <1>1. /\ Expired = {t \in ToSet(m_timers) : m_next_time[t] <= now}
        /\ m_next_time' \in [Timers -> Nat]
        /\ \A t \in Timers : m_next_time'[t] =
              IF t \in Expired /\ m_loop[t] THEN m_interval[t] + now ELSE m_next_time[t]
        /\ ToSet(m_timers') = {t \in ToSet(m_timers) : t \in Expired => m_loop[t]}
        /\ Known' = Known
    BY Zenon, CollectFacts
  <1>2. IInv'
    BY Zenon, CollectStep
  <1>3. \A t \in Timers : Deadline[t] = IF t \in ToSet(m_timers) THEN m_next_time[t] ELSE -1
    BY Zenon, DeadlineIs
  <1>4. Deadline' = [t \in Timers |-> IF t \in ToSet(m_timers') THEN m_next_time'[t] ELSE -1]
    BY Zenon, <1>2, DeadlineWillBe
  <1>5. \A t \in ToSet(m_timers) : t \in Timers /\ t \in Known
    BY Zenon, Members DEF IInv, SetInv
  <1>6. Service!Due = Expired
    <2>1. Service!Pending = ToSet(m_timers)
      BY Zenon, PendingIs
    <2>2. \A t \in ToSet(m_timers) : Deadline[t] = m_next_time[t]
      BY Zenon, <1>3, <1>5
    <2> QED BY Zenon, <1>1, <2>1, <2>2 DEF Service!Due
  <1>7. \A t \in Expired : t \in ToSet(m_timers) /\ t \in Timers /\ t \in Known
    BY Zenon, <1>1, <1>5
  <1>8. again \subseteq Service!Due
    BY Zenon, <1>6
  <1>9. Deadline' \in [Timers -> Nat \cup {-1}]
    <2>1. \A t \in Timers : (IF t \in ToSet(m_timers') THEN m_next_time'[t] ELSE -1) \in Nat \cup {-1}
      BY Zenon, <1>1
    <2> QED BY Zenon, <1>4, <2>1
  <1>10. \A t \in Timers : Deadline'[t] = IF t \in again THEN Deadline'[t]
                                          ELSE IF t \in Service!Due THEN -1 ELSE Deadline[t]
    <2> SUFFICES ASSUME NEW t \in Timers, t \notin again
                 PROVE  Deadline'[t] = IF t \in Expired THEN -1 ELSE Deadline[t]
      BY Zenon, <1>6
    <2>1. Deadline'[t] = IF t \in ToSet(m_timers') THEN m_next_time'[t] ELSE -1
      BY Zenon, <1>4
    <2>2. CASE t \in Expired
      <3>1. t \notin ToSet(m_timers')
        BY Zenon, <1>1, <2>2
      <3> QED BY Zenon, <2>1, <2>2, <3>1
    <2>3. CASE t \notin Expired
      <3>1. m_next_time'[t] = m_next_time[t] /\ (t \in ToSet(m_timers') <=> t \in ToSet(m_timers))
        BY Zenon, <1>1, <2>3
      <3> QED BY Zenon, <1>3, <2>1, <2>3, <3>1
    <2> QED BY Zenon, <2>2, <2>3
  <1>11. \A t \in again : Deadline'[t] # -1 /\ Deadline'[t] >= now
    <2> SUFFICES ASSUME NEW t \in again PROVE Deadline'[t] # -1 /\ Deadline'[t] >= now
      BY Zenon
    <2>1. t \in Timers /\ t \in ToSet(m_timers') /\ m_next_time'[t] = m_interval[t] + now
      BY Zenon, <1>1, <1>7
    <2>2. Deadline'[t] = m_interval[t] + now
      BY Zenon, <1>4, <2>1
    <2>3. m_interval[t] \in Nat /\ now \in Nat
      BY Zenon, <2>1, Nats DEF IInv
    <2> HIDE DEF again
    <2> QED BY <2>2, <2>3
  <1>12. Phase' = [t \in Timers |-> IF t \in Service!Due \ again THEN "dead" ELSE Phase[t]]
    <2>1. Phase' = [t \in Timers |-> IF t \notin Known THEN "new"
                                     ELSE IF m_cb'[t] = "set" THEN "live" ELSE "dead"]
      BY Zenon, <1>1 DEF Phase
    <2>2. \A t \in Timers : m_cb'[t] = IF t \in Expired /\ ~m_loop[t] THEN "null" ELSE m_cb[t]
      BY Zenon DEF Collect
    <2>3. \A t \in Timers : (IF t \notin Known THEN "new"
                             ELSE IF m_cb'[t] = "set" THEN "live" ELSE "dead")
                              = (IF t \in Service!Due \ again THEN "dead" ELSE Phase[t])
      <3> SUFFICES ASSUME NEW t \in Timers
                   PROVE  (IF t \notin Known THEN "new"
                           ELSE IF m_cb'[t] = "set" THEN "live" ELSE "dead")
                            = (IF t \in Expired \ again THEN "dead" ELSE Phase[t])
        BY Zenon, <1>6
      <3>1. CASE t \in Expired \ again
        <4>1. m_cb'[t] = "null" /\ t \in Known
          BY Zenon, <1>7, <2>2, <3>1
        <4>2. m_cb'[t] # "set"
          BY <4>1
        <4> QED BY Zenon, <3>1, <4>1, <4>2
      <3>2. CASE t \notin Expired \ again
        <4>1. m_cb'[t] = m_cb[t]
          BY Zenon, <2>2, <3>2
        <4> QED BY Zenon, <3>2, <4>1 DEF Phase
      <3> QED BY Zenon, <3>1, <3>2
    <2> QED BY Zenon, <2>1, <2>3
  <1>13. Handed' = Handed \cup {t \in Service!Due : Phase[t] = "live"}
    <2> DEFINE new == {t \in Expired : m_cb[t] = "set"}
    <2>1. cbs' = [cbs EXCEPT ![i] = new] /\ cbs \in [Idlers -> SUBSET Timers]
      BY Zenon DEF Collect, IInv, IdlerInv
    <2>2. cbs[i] = {}
      <3>1. pc[i] # "drain"
        BY DEF Collect
      <3> QED BY Zenon, <3>1 DEF IInv, IdlerInv
    <2>3. \A t \in Expired : Phase[t] = "live" <=> m_cb[t] = "set"
      <3>1. \A t \in Expired : Phase[t] = IF m_cb[t] = "set" THEN "live" ELSE "dead"
        BY Zenon, <1>7 DEF Phase
      <3>2. "live" # "dead"
        OBVIOUS
      <3> QED BY Zenon, <3>1, <3>2
    <2>4. new = {t \in Service!Due : Phase[t] = "live"}
      BY Zenon, <1>6, <2>3
    <2> HIDE DEF new
    <2>5. cbs'[i] = new /\ \A j \in Idlers : j # i => cbs'[j] = cbs[j]
      BY Zenon, <2>1
    <2>6. Handed' = Handed \cup new
      BY Zenon, <2>2, <2>5 DEF Handed
    <2> QED BY Zenon, <2>4, <2>6
  <1>14. now' = now
    BY Zenon DEF Collect
  <1> HIDE DEF again
  <1>15. Service!Expire(again)
    BY Zenon, <1>8, <1>9, <1>10, <1>11, <1>12, <1>13, <1>14 DEF Service!Expire
  <1> QED
    BY Zenon, <1>15 DEF again

LEMMA InitSeen == Init => Service!Init
  <1> SUFFICES ASSUME Init PROVE Service!Init
    BY Zenon
  <1>1. IInv /\ now = 0
    BY Zenon, Initially DEF Init
  <1>2. ToSet(m_timers) = {} /\ Known = {}
    <2>1. ToSet(m_timers) = {}
      BY DEF Init, ToSet
    <2> QED BY Zenon, <2>1 DEF Init, Known
  <1>3. Deadline = [t \in Timers |-> -1]
    BY Zenon, <1>1, <1>2, DeadlineIs
  <1>4. Phase = [t \in Timers |-> "new"]
    BY Zenon, <1>2 DEF Phase
  <1>5. Handed = {}
    BY Zenon DEF Init, Handed
  <1> QED
    BY Zenon, <1>1, <1>3, <1>4, <1>5 DEF Service!Init

LEMMA NextSeen == IInv /\ [Next]_vars => [Service!Next]_Seen
  <1> SUFFICES ASSUME IInv, [Next]_vars PROVE [Service!Next]_Seen
    BY Zenon
  <1>1. ASSUME NEW c \in Callers, CallerStep(c) PROVE [Service!Next]_Seen
    <2>1. CASE \E t \in Timers, interval \in Intervals, loop \in BOOLEAN : Construct(c, t, interval, loop)
      BY Zenon, <2>1, ConstructSeen
    <2>2. CASE \E t \in Timers, interval \in Intervals : ResetCheck(c, t, interval)
      BY Zenon, <2>2, ResetCheckSeen
    <2>3. CASE \E t \in Timers : CancelTimer(c, t)
      <3>1. PICK t \in Timers : CancelTimer(c, t)
        BY Zenon, <2>3
      <3>2. Service!Cancel({t}) /\ {t} \in SUBSET Timers
        BY Zenon, <3>1, CancelTimerSeen
      <3> QED BY Zenon, <3>2 DEF Service!Next
    <2>4. CASE AddTimer(c)
      <3>1. arg[c][1] \in Timers /\ Service!Start(arg[c][1])
        BY Zenon, <2>4, AddTimerFacts, AddTimerSeen
      <3> QED BY Zenon, <3>1 DEF Service!Next
    <2>5. CASE ResetTimer(c)
      <3>1. UNCHANGED Seen \/ (arg[c][1] \in Timers /\ Service!Restart(arg[c][1]))
        BY Zenon, <2>5, ResetTimerSeen
      <3> QED BY Zenon, <3>1 DEF Service!Next
    <2>6. CASE CancelAllTimer(c)
      <3>1. Service!Cancel(ToSet(m_timers)) /\ ToSet(m_timers) \in SUBSET Timers
        BY Zenon, <2>6, CancelAllTimerSeen, Members DEF IInv, SetInv
      <3> QED BY Zenon, <3>1 DEF Service!Next
    <2> QED BY Zenon, <1>1, <2>1, <2>2, <2>3, <2>4, <2>5, <2>6 DEF CallerStep
  <1>2. ASSUME NEW i \in Idlers, IdleStep(i) PROVE [Service!Next]_Seen
    <2>1. CASE \/ ComputeLeft(i) \/ IdleEnter(i) \/ EpollWait(i) \/ IdleLeave(i)
               \/ IdleCheck(i) \/ ExpireCheck(i)
      BY Zenon, <2>1, QuietSeen
    <2>2. CASE Collect(i)
      <3>1. Expired \subseteq Timers
        <4>1. Expired \subseteq ToSet(m_timers)
          BY Zenon, <2>2, CollectFacts
        <4> QED BY Zenon, <4>1, Members DEF IInv, SetInv
      <3>2. Service!Expire({t \in Expired : m_loop[t]}) /\ {t \in Expired : m_loop[t]} \in SUBSET Timers
        BY Zenon, <2>2, <3>1, CollectSeen
      <3> QED BY Zenon, <3>2 DEF Service!Next
    <2>3. CASE DrainPipe(i)
      BY Zenon, <2>3, DrainSeen DEF Service!Next
    <2> QED BY Zenon, <1>2, <2>1, <2>2, <2>3 DEF IdleStep
  <1>3. CASE Tick
    BY Zenon, <1>3, TickSeen DEF Service!Next
  <1>4. CASE UNCHANGED vars
    <2>1. UNCHANGED <<now, m_timers, m_next_time, m_cb, pc, arg, cbs>>
      BY Zenon, <1>4 DEF vars, timerVars
    <2>2. Known' = Known
      BY Zenon, <2>1 DEF Known
    <2> QED BY Zenon, <2>1, <2>2 DEF Seen, Deadline, Pending, Phase, Handed
  <1> QED
    BY Zenon, <1>1, <1>2, <1>3, <1>4 DEF Next

(* TimerManager implements TimerService for any callers and idle threads:    *)
(* every critical section of it is one step of the service or none.          *)
THEOREM Implements == Spec => ImplementsTimerService
  <1>1. Init => Service!Init
    BY InitSeen
  <1>2. IInv /\ [Next]_vars => [Service!Next]_<<now, Deadline, Phase, Handed>>
    BY Zenon, NextSeen DEF Seen
  <1> QED
    BY Invariance, <1>1, <1>2, PTL DEF Spec, ImplementsTimerService, Service!Spec
=============================================================================
