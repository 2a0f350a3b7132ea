---------------------------- MODULE AccountsProofs ----------------------------
(***************************************************************************)
(* Proofs about Accounts and the limiter of Visits under it, for any       *)
(* browsers, sign-ins and questions, any window, maximum and sweep.        *)
(*                                                                         *)
(* The limiter first: what is true of one key's grants, then its steps.    *)
(***************************************************************************)
EXTENDS Accounts, FiniteSetTheorems, TLAPS

-----------------------------------------------------------------------------
\* Grants of one key, against the clock n

Since(G, t) == {g \in G : t <= g.at}

Before(G, t, w) == {g \in G : t <= g.at /\ g.at < w}

Within(G, t) == {g \in G : t <= g.at /\ g.at < t + Window}

Past(G, n) == \A g \in G : g.at \in 0..n

\* A bucket counts the grants since its window began, with one; nothing came
\* after its window, and fewer than the maximum shortly before it.
Counted(G, b, n) ==
    /\ b \in [windowStart : 0..n, count : 1..MaxRequests]
    /\ b.count = Cardinality(Since(G, b.windowStart))
    /\ \E g \in G : g.at = b.windowStart
    /\ \A g \in G : g.at < b.windowStart + Window
    /\ \A t \in 0..n : b.windowStart < t + Window => Cardinality(Before(G, t, b.windowStart)) < MaxRequests

\* A key without a bucket, or with one whose window is over, had fewer grants
\* than the maximum within the last window.
Rested(G, n) ==
    /\ \A g \in G : g.at < n
    /\ \A t \in 0..n : n < t + Window => Cardinality(Since(G, t)) < MaxRequests

Sparse(G, n) == \A t \in 0..n : Cardinality(Within(G, t)) < 2 * MaxRequests

LEMMA WindowNat ==
  /\ Window \in Nat /\ Window > 0 /\ MaxRequests \in Nat /\ MaxRequests > 0
BY WindowAssumption

LEMMA PartsFinite ==
  ASSUME NEW G, IsFiniteSet(G)
  PROVE  \A t, w : /\ IsFiniteSet(Since(G, t)) /\ IsFiniteSet(Before(G, t, w)) /\ IsFiniteSet(Within(G, t))
                   /\ Cardinality(Since(G, t)) \in Nat /\ Cardinality(Before(G, t, w)) \in Nat
                   /\ Cardinality(Within(G, t)) \in Nat
<1>1. ASSUME NEW t, NEW w
      PROVE  Since(G, t) \subseteq G /\ Before(G, t, w) \subseteq G /\ Within(G, t) \subseteq G
  BY DEF Since, Before, Within
<1>2. QED
  BY <1>1, FS_Subset, FS_CardinalityType

LEMMA EmptyParts ==
  ASSUME NEW G, NEW n \in Nat, Past(G, n), NEW t \in Nat, t > n
  PROVE  Cardinality(Since(G, t)) = 0 /\ Cardinality(Within(G, t)) = 0
<1>1. Since(G, t) = {} /\ Within(G, t) = {}
  BY DEF Past, Since, Within
<1>2. QED
  BY <1>1, FS_EmptySet

\* Time passes.
LEMMA Later ==
  ASSUME NEW G, NEW n \in Nat, IsFiniteSet(G), Past(G, n)
  PROVE  /\ Past(G, n + 1)
         /\ \A b : Counted(G, b, n) => Counted(G, b, n + 1)
         /\ Rested(G, n) => Rested(G, n + 1)
         /\ Sparse(G, n) => Sparse(G, n + 1)
<1>1. Past(G, n + 1)
  BY DEF Past
<1>2. ASSUME NEW b, Counted(G, b, n) PROVE Counted(G, b, n + 1)
  <2>1. b.windowStart \in 0..n /\ b \in [windowStart : 0..(n + 1), count : 1..MaxRequests]
    BY <1>2 DEF Counted
  <2>2. Before(G, n + 1, b.windowStart) = {}
    BY <2>1 DEF Before, Past
  <2>3. Cardinality(Before(G, n + 1, b.windowStart)) < MaxRequests
    BY <2>2, FS_EmptySet, WindowNat
  <2>4. ASSUME NEW t \in 0..(n + 1), b.windowStart < t + Window
        PROVE  Cardinality(Before(G, t, b.windowStart)) < MaxRequests
    <3>1. t \in 0..n \/ t = n + 1
      OBVIOUS
    <3>2. QED
      BY <1>2, <2>3, <2>4, <3>1 DEF Counted
  <2>5. QED
    BY <1>2, <2>1, <2>4 DEF Counted
<1>3. ASSUME Rested(G, n) PROVE Rested(G, n + 1)
  <2>1. \A g \in G : g.at < n + 1
    BY <1>3 DEF Rested, Past
  <2>2. ASSUME NEW t \in 0..(n + 1), n + 1 < t + Window PROVE Cardinality(Since(G, t)) < MaxRequests
    <3>1. CASE t = n + 1
      BY <3>1, EmptyParts, WindowNat
    <3>2. CASE t \in 0..n
      BY <1>3, <2>2, <3>2, WindowNat DEF Rested
    <3>3. QED
      BY <3>1, <3>2
  <2>3. QED
    BY <2>1, <2>2 DEF Rested
<1>4. ASSUME Sparse(G, n) PROVE Sparse(G, n + 1)
  <2>1. Cardinality(Within(G, n + 1)) < 2 * MaxRequests
    <3>1. n + 1 \in Nat /\ n + 1 > n
      OBVIOUS
    <3>2. Cardinality(Within(G, n + 1)) = 0
      BY <3>1, EmptyParts
    <3>3. QED
      BY <3>2, WindowNat
  <2>2. \A t \in 0..(n + 1) : t \in 0..n \/ t = n + 1
    OBVIOUS
  <2>3. QED
    BY <1>4, <2>1, <2>2 DEF Sparse
<1>5. QED
  BY <1>1, <1>2, <1>3, <1>4

\* A bucket's window is over.
LEMMA Rests ==
  ASSUME NEW G, NEW n \in Nat, IsFiniteSet(G), Past(G, n), NEW b, Counted(G, b, n),
         b.windowStart + Window <= n
  PROVE  Rested(G, n)
<1> DEFINE w == b.windowStart
<1>1. w \in 0..n /\ b.count \in 1..MaxRequests /\ b.count = Cardinality(Since(G, w))
  BY DEF Counted
<1>2. ASSUME NEW g \in G PROVE g.at < n
  <2>1. g.at < w + Window /\ g.at \in 0..n
    BY DEF Counted, Past
  <2>2. QED
    BY <1>1, <2>1, WindowNat
<1>3. PICK g0 \in G : g0.at = w
  BY DEF Counted
<1>4. ASSUME NEW t \in 0..n, n < t + Window PROVE Cardinality(Since(G, t)) < MaxRequests
  <2>1. t > w
    BY <1>1, <1>4, WindowNat
  <2>2. Since(G, t) \subseteq Since(G, w)
    BY <1>1, <2>1 DEF Since, Past
  <2>3. g0 \in Since(G, w) /\ g0 \notin Since(G, t)
    BY <1>1, <1>3, <2>1 DEF Since
  <2>4. Cardinality(Since(G, t)) < Cardinality(Since(G, w))
    <3>1. IsFiniteSet(Since(G, w))
      BY PartsFinite
    <3>2. Since(G, t) # Since(G, w)
      BY <2>3
    <3>3. Cardinality(Since(G, w)) \in Nat /\ Cardinality(Since(G, t)) \in Nat
      BY PartsFinite
    <3> HIDE DEF w
    <3>4. Cardinality(Since(G, t)) <= Cardinality(Since(G, w)) /\ Cardinality(Since(G, t)) # Cardinality(Since(G, w))
      BY <2>2, <3>1, <3>2, FS_Subset
    <3>5. QED
      BY <3>3, <3>4
  <2>5. Cardinality(Since(G, t)) \in Nat
    BY PartsFinite
  <2> HIDE DEF w
  <2>6. QED
    BY <1>1, <2>4, <2>5, WindowNat
<1>5. QED
  BY <1>2, <1>4 DEF Rested

\* A grant is new: the parts of the grants that it is in grow by one.
Fresh(G, n, g) == IsFiniteSet(G) /\ Past(G, n) /\ g \notin G /\ g.at = n

Grown(G, n, g) ==
    /\ \A t \in 0..n : Cardinality(Since(G \cup {g}, t)) = Cardinality(Since(G, t)) + 1
    /\ \A t, w \in 0..n : Before(G \cup {g}, t, w) = Before(G, t, w)
    /\ \A t \in 0..n : Cardinality(Within(G \cup {g}, t)) =
         IF n < t + Window THEN Cardinality(Since(G, t)) + 1 ELSE Cardinality(Within(G, t))

LEMMA PartsGrow ==
  ASSUME NEW G, NEW n \in Nat, NEW g, Fresh(G, n, g)
  PROVE  Grown(G, n, g)
<1> USE DEF Fresh
<1>1. ASSUME NEW t \in 0..n PROVE Cardinality(Since(G \cup {g}, t)) = Cardinality(Since(G, t)) + 1
  <2>1. Since(G \cup {g}, t) = Since(G, t) \cup {g} /\ g \notin Since(G, t)
    BY DEF Since
  <2>2. QED
    BY <2>1, PartsFinite, FS_AddElement
<1>2. ASSUME NEW t \in 0..n, NEW w \in 0..n PROVE Before(G \cup {g}, t, w) = Before(G, t, w)
  BY DEF Before
<1>3. ASSUME NEW t \in 0..n
      PROVE  Within(G \cup {g}, t) = IF n < t + Window THEN Since(G \cup {g}, t) ELSE Within(G, t)
  <2>1. CASE n < t + Window
    <3>1. \A h \in G \cup {g} : h.at < t + Window
      BY <2>1, WindowNat DEF Past
    <3>2. QED
      BY <2>1, <3>1 DEF Within, Since
  <2>2. CASE ~ (n < t + Window)
    BY <2>2 DEF Within
  <2>3. QED
    BY <2>1, <2>2
<1>4. QED
  BY <1>1, <1>2, <1>3 DEF Grown

\* The first grant of a window.
LEMMA FirstGrant ==
  ASSUME NEW G, NEW n \in Nat, NEW g, Fresh(G, n, g), Rested(G, n), Sparse(G, n)
  PROVE  /\ Counted(G \cup {g}, [windowStart |-> n, count |-> 1], n)
         /\ Sparse(G \cup {g}, n)
<1> DEFINE b == [windowStart |-> n, count |-> 1]
<1>0. Grown(G, n, g) /\ IsFiniteSet(G) /\ Past(G, n) /\ g.at = n
  BY PartsGrow DEF Fresh
<1>1. Since(G, n) = {}
  BY <1>0 DEF Since, Rested, Past
<1>2. Cardinality(Since(G \cup {g}, n)) = 1
  BY <1>0, <1>1, FS_EmptySet DEF Grown
<1>3. ASSUME NEW t \in 0..n, n < t + Window PROVE Cardinality(Before(G \cup {g}, t, n)) < MaxRequests
  <2>1. Before(G \cup {g}, t, n) = Before(G, t, n) /\ Before(G, t, n) = Since(G, t)
    BY <1>0 DEF Grown, Before, Since, Rested
  <2>2. QED
    BY <1>3, <2>1 DEF Rested
<1>4. \A h \in G \cup {g} : h.at < n + Window
  BY <1>0, WindowNat DEF Past
<1>5. Counted(G \cup {g}, b, n)
  <2>1. b \in [windowStart : 0..n, count : 1..MaxRequests]
    BY WindowNat
  <2>2. b.windowStart = n /\ b.count = 1
    OBVIOUS
  <2> HIDE DEF b
  <2>3. \E h \in G \cup {g} : h.at = n
    BY <1>0
  <2>4. QED
    BY <1>2, <1>3, <1>4, <2>1, <2>2, <2>3 DEF Counted
<1>6. ASSUME NEW t \in 0..n PROVE Cardinality(Within(G \cup {g}, t)) < 2 * MaxRequests
  <2>1. CASE n < t + Window
    <3>1. Cardinality(Since(G, t)) < MaxRequests /\ Cardinality(Since(G, t)) \in Nat
      BY <1>0, <2>1, PartsFinite DEF Rested
    <3>2. Cardinality(Within(G \cup {g}, t)) = Cardinality(Since(G, t)) + 1
      BY <1>0, <2>1 DEF Grown
    <3>3. QED
      BY <3>1, <3>2, WindowNat
  <2>2. CASE ~ (n < t + Window)
    BY <1>0, <2>2 DEF Grown, Sparse
  <2>3. QED
    BY <2>1, <2>2
<1>7. QED
  BY <1>5, <1>6 DEF Sparse

\* Another one in it.
LEMMA NextGrant ==
  ASSUME NEW G, NEW n \in Nat, NEW g, Fresh(G, n, g), NEW b, Counted(G, b, n),
         n < b.windowStart + Window, b.count < MaxRequests, Sparse(G, n)
  PROVE  /\ Counted(G \cup {g}, [b EXCEPT !.count = @ + 1], n)
         /\ Sparse(G \cup {g}, n)
<1>0. Grown(G, n, g) /\ IsFiniteSet(G) /\ Past(G, n) /\ g.at = n
  BY PartsGrow DEF Fresh
<1> DEFINE c == [b EXCEPT !.count = @ + 1]
<1>1. b \in [windowStart : 0..n, count : 1..MaxRequests]
  BY DEF Counted
<1>2. /\ c \in [windowStart : 0..n, count : 1..MaxRequests]
      /\ c.windowStart = b.windowStart /\ c.count = b.count + 1
  BY <1>1, WindowNat
<1> HIDE DEF c
<1>3. c.count = Cardinality(Since(G \cup {g}, c.windowStart))
  <2>1. b.windowStart \in 0..n /\ b.count = Cardinality(Since(G, b.windowStart))
    BY <1>1 DEF Counted
  <2>2. QED
    BY <1>0, <1>2, <2>1 DEF Grown
<1>4. Counted(G \cup {g}, c, n)
  <2>1. \E h \in G \cup {g} : h.at = c.windowStart
    BY <1>0, <1>2 DEF Counted, Past
  <2>2. \A h \in G \cup {g} : h.at < c.windowStart + Window
    BY <1>0, <1>2 DEF Counted, Past
  <2>3. \A t \in 0..n : c.windowStart < t + Window => Cardinality(Before(G \cup {g}, t, c.windowStart)) < MaxRequests
    BY <1>0, <1>1, <1>2 DEF Counted, Grown
  <2>4. QED
    BY <1>2, <1>3, <2>1, <2>2, <2>3 DEF Counted
<1>5. ASSUME NEW t \in 0..n PROVE Cardinality(Within(G \cup {g}, t)) < 2 * MaxRequests
  <2>1. CASE n < t + Window
    <3> DEFINE w == b.windowStart
    <3>1. Cardinality(Within(G \cup {g}, t)) = Cardinality(Since(G, t)) + 1
      BY <1>0, <2>1 DEF Grown
    <3>2. Cardinality(Since(G, t)) <= Cardinality(Before(G, t, w)) + Cardinality(Since(G, w))
      <4>1. Since(G, t) \subseteq Before(G, t, w) \cup Since(G, w)
        <5>1. w \in Nat /\ \A h \in G : h.at \in Nat
          BY <1>0, <1>1 DEF Past
        <5> HIDE DEF w
        <5>2. QED
          BY <5>1 DEF Since, Before
      <4>2. /\ IsFiniteSet(Before(G, t, w)) /\ IsFiniteSet(Since(G, w))
            /\ Before(G, t, w) \cap Since(G, w) = {}
        <5>1. w \in Nat /\ \A h \in G : h.at \in Nat
          BY <1>0, <1>1 DEF Past
        <5> HIDE DEF w
        <5>2. Before(G, t, w) \cap Since(G, w) = {}
          BY <5>1 DEF Since, Before
        <5>3. QED
          BY <1>0, <5>2, PartsFinite
      <4>3. /\ IsFiniteSet(Before(G, t, w) \cup Since(G, w))
            /\ Cardinality(Before(G, t, w) \cup Since(G, w)) = Cardinality(Before(G, t, w)) + Cardinality(Since(G, w))
        <5> HIDE DEF w
        <5>1. Cardinality({}) = 0
          BY FS_EmptySet
        <5>2. Cardinality(Before(G, t, w)) \in Nat /\ Cardinality(Since(G, w)) \in Nat
          BY <1>0, PartsFinite
        <5> DEFINE X == Before(G, t, w)
        <5> DEFINE Y == Since(G, w)
        <5>3. /\ IsFiniteSet(X) /\ IsFiniteSet(Y) /\ X \cap Y = {}
              /\ Cardinality(X) \in Nat /\ Cardinality(Y) \in Nat
          BY <4>2, <5>2
        <5> HIDE DEF X, Y
        <5>4. IsFiniteSet(X \cup Y) /\ Cardinality(X \cup Y) = Cardinality(X) + Cardinality(Y) - Cardinality({})
          BY <5>3, FS_Union
        <5>5. Cardinality(X \cup Y) = Cardinality(X) + Cardinality(Y)
          BY <5>1, <5>3, <5>4
        <5>6. QED
          BY <5>4, <5>5 DEF X, Y
      <4> HIDE DEF w
      <4>4. QED
        BY <4>1, <4>3, FS_Subset
    <3>3. Cardinality(Before(G, t, w)) < MaxRequests /\ Cardinality(Since(G, w)) < MaxRequests
      BY <1>1, <2>1, WindowNat DEF Counted
    <3>4. /\ Cardinality(Since(G, t)) \in Nat /\ Cardinality(Before(G, t, w)) \in Nat
          /\ Cardinality(Since(G, w)) \in Nat
      BY <1>0, PartsFinite
    <3> HIDE DEF w
    <3>5. QED
      BY <3>1, <3>2, <3>3, <3>4, WindowNat
  <2>2. CASE ~ (n < t + Window)
    BY <1>0, <2>2 DEF Grown, Sparse
  <2>3. QED
    BY <2>1, <2>2
<1>6. QED
  BY <1>4, <1>5 DEF Sparse, c

-----------------------------------------------------------------------------
\* The limiter's state

KeyInv(k) ==
    /\ Past(Grants(k), now)
    /\ \A g \in Grants(k) : g.nr \in 1..Cardinality(Grants(k))
    /\ k \in DOMAIN buckets => Counted(Grants(k), buckets[k], now)
    /\ k \notin DOMAIN buckets => Rested(Grants(k), now)
    /\ Sparse(Grants(k), now)

Keys == DOMAIN buckets \cup {g.key : g \in granted}

Lately(k, n) == {g \in Grants(k) : n < g.at + Window /\ g.at <= n}

LimitInv ==
    /\ now \in Nat /\ IsFiniteSet(granted)
    /\ \A k \in Keys : KeyInv(k)
    /\ \A r \in turnedAway : r.at \in 0..now /\ Cardinality(Lately(r.key, r.at)) >= MaxRequests

LEMMA LatelyFinite ==
  ASSUME NEW k, NEW n, IsFiniteSet(granted)
  PROVE  /\ IsFiniteSet(Grants(k)) /\ Cardinality(Grants(k)) \in Nat
         /\ IsFiniteSet(Lately(k, n)) /\ Cardinality(Lately(k, n)) \in Nat
<1>1. Grants(k) \subseteq granted /\ Lately(k, n) \subseteq granted
  BY DEF Grants, Lately
<1>2. QED
  BY <1>1, FS_Subset, FS_CardinalityType

\* It holds of every key there could be.
LEMMA AnyKey ==
  ASSUME LimitInv, NEW k
  PROVE  KeyInv(k)
<1>1. CASE k \notin Keys
  <2>1. Grants(k) = {} /\ k \notin DOMAIN buckets
    BY <1>1 DEF Keys, Grants
  <2>2. \A t : Since({}, t) = {} /\ Within({}, t) = {}
    BY DEF Since, Within
  <2>3. Cardinality({}) = 0
    BY FS_EmptySet
  <2>4. Rested({}, now) /\ Sparse({}, now) /\ Past({}, now)
    BY <2>2, <2>3, WindowNat DEF Rested, Sparse, Past
  <2>5. QED
    BY <2>1, <2>4 DEF KeyInv
<1>2. QED
  BY <1>1 DEF LimitInv

LEMMA OpenRests ==
  ASSUME LimitInv, NEW k, Open(k)
  PROVE  Rested(Grants(k), now)
<1>1. KeyInv(k) /\ now \in Nat /\ IsFiniteSet(Grants(k))
  BY AnyKey, LatelyFinite DEF LimitInv
<1>2. QED
  BY <1>1, Rests DEF KeyInv, Open, Elapsed

\* What Allow does to the buckets.
Lets(k) ==
    /\ k \in DOMAIN buckets'
    /\ Open(k) => buckets'[k] = [windowStart |-> now, count |-> 1]
    /\ ~ Open(k) => /\ k \in DOMAIN buckets /\ buckets'[k] = [buckets[k] EXCEPT !.count = @ + 1]
                    /\ buckets[k].count < MaxRequests /\ now < buckets[k].windowStart + Window
    /\ \A j : j # k /\ j \in DOMAIN buckets' => j \in DOMAIN buckets /\ buckets'[j] = buckets[j]
    /\ \A j : j # k /\ j \notin DOMAIN buckets' => Open(j)

LEMMA AllowBuckets ==
  ASSUME LimitInv, NEW k, Allow(k)
  PROVE  Lets(k)
<1> USE DEF Lets
<1>1. CASE Open(k)
  <2> DEFINE bs == [j \in DOMAIN buckets \cup {k} |->
                      IF j = k THEN [windowStart |-> now, count |-> 1] ELSE buckets[j]]
  <2>1. buckets' = Swept(bs)
    BY <1>1 DEF Allow, Opened
  <2>2. /\ DOMAIN bs = DOMAIN buckets \cup {k} /\ bs[k] = [windowStart |-> now, count |-> 1]
        /\ \A j \in DOMAIN buckets : j # k => bs[j] = buckets[j]
    OBVIOUS
  <2> HIDE DEF bs
  <2>3. ~ Elapsed(bs[k].windowStart)
    BY <2>2, WindowNat DEF Elapsed, LimitInv
  <2>4. CASE buckets' = bs
    BY <1>1, <2>2, <2>4 DEF Open
  <2>5. CASE buckets' = [j \in {i \in DOMAIN bs : ~ Elapsed(bs[i].windowStart)} |-> bs[j]]
    <3>1. DOMAIN buckets' = {i \in DOMAIN bs : ~ Elapsed(bs[i].windowStart)}
          /\ \A j \in DOMAIN buckets' : buckets'[j] = bs[j]
      BY <2>5
    <3>2. QED
      BY <1>1, <2>2, <2>3, <3>1 DEF Open
  <2>6. QED
    BY <2>1, <2>4, <2>5 DEF Swept
<1>2. CASE ~ Open(k)
  <2>1. k \in DOMAIN buckets /\ ~ Elapsed(buckets[k].windowStart) /\ ~ Full(buckets[k])
    BY <1>2 DEF Open, Allow, Allowed
  <2>2. buckets' = [buckets EXCEPT ![k].count = @ + 1]
    BY <1>2 DEF Allow
  <2>3. buckets[k] \in [windowStart : 0..now, count : 1..MaxRequests] /\ now \in Nat
    BY <2>1, AnyKey DEF KeyInv, Counted, LimitInv
  <2>4. buckets[k].count < MaxRequests /\ now < buckets[k].windowStart + Window
    BY <2>1, <2>3, WindowNat DEF Full, Elapsed
  <2>5. QED
    BY <1>2, <2>1, <2>2, <2>4 DEF Open
<1>3. QED
  BY <1>1, <1>2

LEMMA AllowKeeps ==
  ASSUME LimitInv, NEW k, Allow(k), now' = now
  PROVE  LimitInv'
<1>0. Lets(k)
  BY AllowBuckets
<1> DEFINE G == Grants(k)
<1> DEFINE g == [key |-> k, at |-> now, nr |-> Cardinality(G) + 1]
<1>1. granted' = granted \cup {g} /\ turnedAway' = turnedAway
  BY DEF Allow
<1>2. KeyInv(k) /\ now \in Nat /\ IsFiniteSet(G) /\ Cardinality(G) \in Nat /\ IsFiniteSet(granted)
  BY AnyKey, LatelyFinite DEF LimitInv
<1>3. g.key = k /\ g.at = now /\ g.nr = Cardinality(G) + 1
  OBVIOUS
<1>4. g \notin G
  BY <1>2, <1>3 DEF KeyInv
<1> HIDE DEF g
<1>5. Grants(k)' = G \cup {g}
  BY <1>1, <1>3 DEF Grants
<1>6. \A j : j # k => Grants(j)' = Grants(j)
  BY <1>1, <1>3 DEF Grants
<1> HIDE DEF G
<1>7. Past(G, now) /\ Sparse(G, now) /\ G = Grants(k)
  BY <1>2 DEF KeyInv, G
<1>8. Cardinality(G \cup {g}) = Cardinality(G) + 1 /\ Fresh(G, now, g)
  BY <1>2, <1>3, <1>4, <1>7, FS_AddElement DEF G, Fresh
<1>9. Counted(G \cup {g}, buckets'[k], now) /\ Sparse(G \cup {g}, now)
  <2>1. CASE Open(k)
    <3>1. Rested(G, now)
      BY <2>1, OpenRests DEF G
    <3>2. Counted(G \cup {g}, [windowStart |-> now, count |-> 1], now) /\ Sparse(G \cup {g}, now)
      BY <1>2, <1>8, <1>7, <3>1, FirstGrant
    <3>3. QED
      BY <1>0, <2>1, <3>2 DEF Lets
  <2>2. CASE ~ Open(k)
    <3> DEFINE b == buckets[k]
    <3>1. /\ k \in DOMAIN buckets /\ buckets'[k] = [b EXCEPT !.count = @ + 1]
          /\ b.count < MaxRequests /\ now < b.windowStart + Window
      BY <1>0, <2>2 DEF Lets
    <3>2. Counted(G, b, now)
      BY <1>2, <1>7, <3>1 DEF KeyInv
    <3> HIDE DEF b
    <3>3. Counted(G \cup {g}, [b EXCEPT !.count = @ + 1], now) /\ Sparse(G \cup {g}, now)
      BY <1>2, <1>8, <1>7, <3>1, <3>2, NextGrant
    <3>4. QED
      BY <3>1, <3>3
  <2>3. QED
    BY <2>1, <2>2
<1>10. Past(G \cup {g}, now)
  BY <1>2, <1>3, <1>7 DEF Past
<1>11. \A h \in G \cup {g} : h.nr \in 1..Cardinality(G \cup {g})
  BY <1>2, <1>3, <1>7, <1>8 DEF KeyInv
<1>12. KeyInv(k)'
  BY <1>0, <1>5, <1>9, <1>10, <1>11 DEF KeyInv, Lets
<1>13. ASSUME NEW j, j # k PROVE KeyInv(j)'
  <2>1. KeyInv(j) /\ Grants(j)' = Grants(j)
    BY <1>6, <1>13, AnyKey
  <2>2. j \in DOMAIN buckets' => j \in DOMAIN buckets /\ buckets'[j] = buckets[j]
    BY <1>0, <1>13 DEF Lets
  <2>3. j \notin DOMAIN buckets' => Rested(Grants(j), now)
    BY <1>0, <1>13, OpenRests DEF Lets
  <2>4. QED
    BY <2>1, <2>2, <2>3 DEF KeyInv
<1>14. \A j \in Keys' : KeyInv(j)'
  BY <1>12, <1>13
<1>15. ASSUME NEW r \in turnedAway PROVE Cardinality(Lately(r.key, r.at)') >= MaxRequests
  <2>1. Lately(r.key, r.at) \subseteq Lately(r.key, r.at)'
    BY <1>1 DEF Lately, Grants
  <2>2. IsFiniteSet(granted')
    BY <1>1, <1>2, FS_AddElement
  <2>3. IsFiniteSet(Lately(r.key, r.at)') /\ Cardinality(Lately(r.key, r.at)') \in Nat
    <3>1. Lately(r.key, r.at)' \subseteq granted'
      BY DEF Lately, Grants
    <3>2. QED
      BY <2>2, <3>1, FS_Subset, FS_CardinalityType
  <2>4. Cardinality(Lately(r.key, r.at)) <= Cardinality(Lately(r.key, r.at)')
    BY <2>1, <2>3, FS_Subset
  <2>5. Cardinality(Lately(r.key, r.at)) >= MaxRequests /\ Cardinality(Lately(r.key, r.at)) \in Nat
    BY <1>2, LatelyFinite DEF LimitInv
  <2>6. QED
    BY <2>3, <2>4, <2>5, WindowNat
<1>16. IsFiniteSet(granted')
  BY <1>1, <1>2, FS_AddElement
<1>17. \A r \in turnedAway' : r.at \in 0..now' /\ Cardinality(Lately(r.key, r.at)') >= MaxRequests
  BY <1>1, <1>15 DEF LimitInv
<1>18. QED
  BY <1>2, <1>14, <1>16, <1>17 DEF LimitInv, Lately, Grants


LEMMA LimitUnchanged ==
  ASSUME LimitInv, UNCHANGED <<buckets, granted, turnedAway>>, now' \in {now, now + 1}
  PROVE  LimitInv'
<1>1. \A k : Grants(k)' = Grants(k)
  BY DEF Grants
<1>2. \A k, n : Lately(k, n)' = Lately(k, n)
  BY DEF Lately, Grants
<1>3. now \in Nat
  BY DEF LimitInv
<1>4. ASSUME NEW k PROVE KeyInv(k)'
  <2>1. KeyInv(k) /\ IsFiniteSet(Grants(k))
    BY AnyKey, LatelyFinite DEF LimitInv
  <2>2. CASE now' = now
    BY <1>1, <2>1, <2>2 DEF KeyInv
  <2>3. CASE now' = now + 1
    <3> DEFINE G == Grants(k)
    <3>1. G' = G /\ KeyInv(k) /\ IsFiniteSet(G) /\ Past(G, now)
      BY <1>1, <2>1 DEF KeyInv
    <3>2. /\ Past(G, now + 1) /\ (\A b : Counted(G, b, now) => Counted(G, b, now + 1))
          /\ Rested(G, now) => Rested(G, now + 1)
          /\ Sparse(G, now) => Sparse(G, now + 1)
      <4> HIDE DEF G
      <4>1. QED
        BY <1>3, <3>1, Later
    <3>3. QED
      BY <2>3, <3>1, <3>2 DEF KeyInv
  <2>4. QED
    BY <2>2, <2>3
<1>5. ASSUME NEW r \in turnedAway' PROVE r.at \in 0..now' /\ Cardinality(Lately(r.key, r.at)') >= MaxRequests
  <2>1. r.at \in 0..now /\ Cardinality(Lately(r.key, r.at)) >= MaxRequests
    BY DEF LimitInv
  <2>2. QED
    BY <1>2, <1>3, <2>1
<1>6. now' \in Nat /\ IsFiniteSet(granted')
  BY <1>3 DEF LimitInv
<1>7. QED
  BY <1>4, <1>5, <1>6 DEF LimitInv, Lately, Grants

\* Whoever is turned away was let in as often as allowed in the current window.
LEMMA RefuseKeeps ==
  ASSUME LimitInv, NEW k, Refuse(k), now' = now
  PROVE  LimitInv'
<1>1. /\ k \in DOMAIN buckets /\ ~ Elapsed(buckets[k].windowStart) /\ Full(buckets[k])
      /\ turnedAway' = turnedAway \cup {[key |-> k, at |-> now]} /\ UNCHANGED <<buckets, granted>>
  BY DEF Refuse, Allowed, Open
<1>2. KeyInv(k) /\ now \in Nat /\ IsFiniteSet(granted)
  BY AnyKey DEF LimitInv
<1> DEFINE b == buckets[k]
<1> DEFINE G == Grants(k)
<1>3. Counted(G, b, now) /\ Past(G, now)
  BY <1>1, <1>2 DEF KeyInv
<1>4. b.windowStart \in 0..now /\ b.count \in 1..MaxRequests /\ b.count = Cardinality(Since(G, b.windowStart))
  BY <1>3 DEF Counted
<1>5. b.count >= MaxRequests /\ now < b.windowStart + Window
  BY <1>1, <1>2, <1>4, WindowNat DEF Full, Elapsed
<1>6. Since(G, b.windowStart) \subseteq Lately(k, now)
  <2>1. ASSUME NEW g \in Since(G, b.windowStart) PROVE now < g.at + Window /\ g.at <= now /\ g \in Grants(k)
    <3>1. g \in Grants(k) /\ b.windowStart <= g.at /\ g.at \in 0..now
      BY <1>3 DEF Since, Past
    <3> HIDE DEF b, G
    <3>2. QED
      BY <1>2, <1>4, <1>5, <3>1, WindowNat
  <2>2. QED
    BY <2>1 DEF Lately
<1> HIDE DEF b, G
<1>7. Cardinality(Lately(k, now)) >= MaxRequests
  <2>1. IsFiniteSet(Lately(k, now)) /\ Cardinality(Lately(k, now)) \in Nat
    BY <1>2, LatelyFinite
  <2>2. Cardinality(Since(G, b.windowStart)) <= Cardinality(Lately(k, now))
    BY <1>6, <2>1, FS_Subset
  <2>3. QED
    BY <1>4, <1>5, <2>1, <2>2, WindowNat
<1>8. /\ (\A j : Grants(j)' = Grants(j)) /\ (\A j : KeyInv(j)') /\ \A j, n : Lately(j, n)' = Lately(j, n)
  <2>1. \A j : KeyInv(j)
    BY AnyKey
  <2>2. QED
    BY <1>1, <2>1 DEF Grants, KeyInv, Lately
<1>9. ASSUME NEW r \in turnedAway' PROVE r.at \in 0..now' /\ Cardinality(Lately(r.key, r.at)') >= MaxRequests
  <2>1. CASE r \in turnedAway
    BY <1>8, <2>1 DEF LimitInv
  <2>2. CASE r = [key |-> k, at |-> now]
    <3>1. r.key = k /\ r.at = now
      BY <2>2
    <3>2. QED
      BY <1>2, <1>7, <1>8, <3>1
  <2>3. QED
    BY <1>1, <2>1, <2>2
<1>10. QED
  BY <1>1, <1>2, <1>8, <1>9 DEF LimitInv, Lately, Grants

LEMMA NextLimit == LimitInv /\ [Next]_vars => LimitInv'
<1> SUFFICES ASSUME LimitInv, [Next]_vars PROVE LimitInv'
  OBVIOUS
<1>1. \/ \E k : (Allow(k) \/ Refuse(k)) /\ now' = now
      \/ UNCHANGED <<buckets, granted, turnedAway>> /\ now' \in {now, now + 1}
  BY DEF Next, vars, visitVars, VisitNext, Pass, Visit, Arrive, Ask
<1>2. QED
  BY <1>1, AllowKeeps, RefuseKeeps, LimitUnchanged

LEMMA InitLimit == Init => LimitInv
<1> SUFFICES ASSUME Init PROVE LimitInv
  OBVIOUS
<1>1. DOMAIN buckets = {} /\ granted = {} /\ turnedAway = {} /\ now = 0
  BY DEF Init, VisitInit
<1>2. QED
  BY <1>1, FS_EmptySet DEF LimitInv, Keys

\* In no stretch of one window's length does the limiter let a key in twice its
\* maximum, and whom it turns away it let in as often as allowed in the last
\* window, for every window, maximum and sweep threshold.
THEOREM LimitExact == Spec => []LimitIsExact
<1>1. ASSUME LimitInv PROVE LimitIsExact
  <2>1. ASSUME NEW k, NEW t \in 0..now
        PROVE  Cardinality({g \in Grants(k) : t <= g.at /\ g.at < t + Window}) < 2 * MaxRequests
    BY <1>1, AnyKey DEF KeyInv, Sparse, Within
  <2>2. ASSUME NEW r \in turnedAway
        PROVE  Cardinality({g \in Grants(r.key) : r.at < g.at + Window /\ g.at <= r.at}) >= MaxRequests
    BY <1>1 DEF LimitInv, Lately
  <2>3. QED
    BY <2>1, <2>2 DEF LimitIsExact
<1>2. QED
  BY <1>1, InitLimit, NextLimit, PTL DEF Spec


-----------------------------------------------------------------------------
\* Sign-ins

LinksOf(L, subject) == {l \in L : l.provider = Google /\ l.subject = subject}

\* What a sign-in at r knows of the tables U and L.
GoogleKnows(r, U, L) ==
    /\ r.pc # "verify"
    /\ r.pc = "join" => r.user \in U
    /\ r.pc = "relink" => LinksOf(L, r.req.subject) # {}
    /\ r.pc \in {"owner", "resolved", "done"} => \E l \in LinksOf(L, r.req.subject) : r.user.id = l.user

PasswordKnows(r, U) ==
    /\ r.pc \notin {"owner", "relink"}
    /\ r.pc \in {"link", "join", "verify", "resolved", "done"} => r.user \in U /\ r.user.email = r.req.email
    /\ r.pc \in {"resolved", "done"} => r.user.passwordHash = r.req.password

\* And what it was denied for.
DeniedFairly(r, U) ==
    r.pc = "denied" /\ r.faults = 0 =>
      r.req.provider = Credentials /\ \E u \in U : u.email = r.req.email /\ u.passwordHash # r.req.password

Knows(r, U, L) ==
    /\ r.pc # "idle" => r.req \in Asked
    /\ r.pc # "idle" /\ r.req.provider = Google => GoogleKnows(r, U, L)
    /\ r.pc # "idle" /\ r.req.provider = Credentials => PasswordKnows(r, U)
    /\ r.pc = "winner" => \E u \in U : u.email = r.req.email
    /\ DeniedFairly(r, U)

\* One user per email, one link per identity, and no link without its user.
TablesInv(U, L) ==
    /\ \A u, v \in U : u.email = v.email => u = v
    /\ \A l, m \in L : l.provider = m.provider /\ l.subject = m.subject => l = m
    /\ \A l \in L : \E u \in U : u.id = l.user

AccountInv ==
    /\ TypeOK
    /\ TablesInv(users, links)
    /\ \A s \in SignIns : Knows(signIn[s], users, links)

LEMMA Names == Google # Credentials
BY DEF Google, Credentials

\* Tables that only grow take nothing from what is known.
LEMMA KnowsStays ==
  ASSUME NEW r, NEW U, NEW L, NEW V, NEW M, U \subseteq V, L \subseteq M, Knows(r, U, L)
  PROVE  Knows(r, V, M)
<1>1. GoogleKnows(r, U, L) => GoogleKnows(r, V, M)
  BY DEF GoogleKnows, LinksOf
<1>2. PasswordKnows(r, U) => PasswordKnows(r, V)
  BY DEF PasswordKnows
<1>3. DeniedFairly(r, U) => DeniedFairly(r, V)
  BY DEF DeniedFairly
<1>4. QED
  BY <1>1, <1>2, <1>3 DEF Knows

\* A sign-in's step: the tables may grow, and the others know what they knew.
Moves(s, r) ==
    /\ signIn' = [signIn EXCEPT ![s] = r] /\ r \in SignInState
    /\ users \subseteq users' /\ users' \subseteq User /\ links \subseteq links' /\ links' \subseteq Link
    /\ TablesInv(users', links') /\ Knows(r, users', links')

LEMMA MovesKeep ==
  ASSUME AccountInv, NEW s \in SignIns, NEW r, Moves(s, r)
  PROVE  /\ signIn' \in [SignIns -> SignInState] /\ users' \subseteq User /\ links' \subseteq Link
         /\ TablesInv(users', links') /\ \A t \in SignIns : Knows(signIn'[t], users', links')
<1>1. signIn \in [SignIns -> SignInState] /\ \A t \in SignIns : Knows(signIn[t], users, links)
  BY DEF AccountInv, TypeOK
<1>2. \A t \in SignIns : Knows(signIn[t], users', links')
  BY <1>1, KnowsStays DEF Moves
<1>3. QED
  BY <1>1, <1>2 DEF Moves

\* A sign-in that moves, and its fields.
GoneTo(r, pc) == [r EXCEPT !.pc = pc]

GoneWith(r, pc, u) == [r EXCEPT !.pc = pc, !.user = u]

LEMMA StateFields ==
  ASSUME NEW r \in SignInState, NEW pc \in {"link", "owner", "user", "create", "winner", "join", "relink",
                                            "verify", "resolved", "done", "denied"}
  PROVE  /\ GoneTo(r, pc) \in SignInState
         /\ GoneTo(r, pc).pc = pc /\ GoneTo(r, pc).req = r.req /\ GoneTo(r, pc).user = r.user
         /\ GoneTo(r, pc).faults = r.faults /\ GoneTo(r, pc).guest = r.guest
         /\ \A u \in User \cup [id : SignIns] :
              /\ GoneWith(r, pc, u) \in SignInState
              /\ GoneWith(r, pc, u).pc = pc /\ GoneWith(r, pc, u).req = r.req /\ GoneWith(r, pc, u).user = u
              /\ GoneWith(r, pc, u).faults = r.faults
BY DEF SignInState, GoneTo, GoneWith

\* A step that writes no row.
LEMMA ReadsMove ==
  ASSUME AccountInv, NEW s \in SignIns, NEW r \in SignInState, signIn' = [signIn EXCEPT ![s] = r],
         UNCHANGED <<users, links>>, Knows(r, users, links)
  PROVE  Moves(s, r)
BY DEF Moves, AccountInv, TypeOK

\* What is known of a sign-in before its step.
LEMMA Known ==
  ASSUME AccountInv, NEW s \in SignIns, ~ At(s, "idle")
  PROVE  /\ signIn[s] \in SignInState /\ Req(s) \in Asked /\ Req(s).provider \in {Google, Credentials}
         /\ ByPassword(s) => PasswordKnows(signIn[s], users)
         /\ ~ ByPassword(s) => Req(s).provider = Google /\ GoogleKnows(signIn[s], users, links)
         /\ DeniedFairly(signIn[s], users)
BY AskedAssumption DEF AccountInv, TypeOK, Knows, At, Req, ByPassword

\* A sign-in that goes on to pc, by what it comes with.
LEMMA GoesKnowing ==
  ASSUME NEW r, r.req \in Asked, r.pc \notin {"idle", "winner", "denied"}, NEW U, NEW L,
         r.req.provider = Google => GoogleKnows(r, U, L),
         r.req.provider = Credentials => PasswordKnows(r, U)
  PROVE  Knows(r, U, L)
BY DEF Knows, DeniedFairly

LEMMA ReadLinkMoves ==
  ASSUME AccountInv, NEW s \in SignIns, ReadLink(s)
  PROVE  \E r : Moves(s, r)
<1> DEFINE o == signIn[s]
<1>1. /\ o \in SignInState /\ o.pc = "link" /\ o.req \in Asked /\ UNCHANGED <<users, links>>
      /\ o.req.provider \in {Google, Credentials} /\ o.req = Req(s)
      /\ ByPassword(s) => PasswordKnows(o, users)
  BY Known DEF ReadLink, At, Req
<1>2. ASSUME ByPassword(s), NEW pc \in {"join", "verify"}, Goto(s, pc) PROVE \E r : Moves(s, r)
  <2> DEFINE r == GoneTo(o, pc)
  <2>1. r \in SignInState /\ r.pc = pc /\ r.req = o.req /\ r.user = o.user
    BY <1>1, StateFields
  <2>2. signIn' = [signIn EXCEPT ![s] = r]
    BY <1>2 DEF Goto, Step, GoneTo
  <2> HIDE DEF r, o
  <2>3. PasswordKnows(r, users)
    BY <1>1, <1>2, <2>1 DEF PasswordKnows
  <2>4. r.req.provider # Google
    BY <1>1, <1>2, <2>1, Names DEF ByPassword
  <2>5. QED
    BY <1>1, <2>1, <2>2, <2>3, <2>4, GoesKnowing, ReadsMove
<1>3. ASSUME ~ ByPassword(s), Goto(s, "user") PROVE \E r : Moves(s, r)
  <2> DEFINE r == GoneTo(o, "user")
  <2>1. r \in SignInState /\ r.pc = "user" /\ r.req = o.req
    BY <1>1, StateFields
  <2>2. signIn' = [signIn EXCEPT ![s] = r]
    BY <1>3 DEF Goto, Step, GoneTo
  <2> HIDE DEF r, o
  <2>3. GoogleKnows(r, users, links) /\ r.req.provider = Google
    BY <1>1, <1>3, <2>1 DEF GoogleKnows, ByPassword
  <2>4. QED
    BY <1>1, <2>1, <2>2, <2>3, Names, GoesKnowing, ReadsMove
<1>4. ASSUME ~ ByPassword(s), NEW l \in LinkOf(Req(s).provider, SubjectOf(s)), With(s, "owner", [id |-> l.user])
      PROVE  \E r : Moves(s, r)
  <2> DEFINE u == [id |-> l.user]
  <2> DEFINE r == GoneWith(o, "owner", u)
  <2>1. l \in LinksOf(links, o.req.subject) /\ l \in Link
    BY <1>1, <1>4 DEF LinkOf, LinksOf, SubjectOf, ByPassword, AccountInv, TypeOK
  <2>2. u \in [id : SignIns] /\ u.id = l.user
    BY <2>1 DEF Link
  <2> HIDE DEF u
  <2>3. r \in SignInState /\ r.pc = "owner" /\ r.req = o.req /\ r.user = u
    BY <1>1, <2>2, StateFields
  <2>4. signIn' = [signIn EXCEPT ![s] = r]
    BY <1>4 DEF With, Step, GoneWith, u
  <2> HIDE DEF r, o
  <2>5. GoogleKnows(r, users, links) /\ r.req.provider = Google
    BY <1>1, <1>4, <2>1, <2>2, <2>3 DEF GoogleKnows, ByPassword
  <2>6. QED
    BY <1>1, <2>3, <2>4, <2>5, Names, GoesKnowing, ReadsMove
<1>5. QED
  BY <1>2, <1>3, <1>4 DEF ReadLink

\* A user with the asked email is in hand.
LEMMA UserInHand ==
  ASSUME AccountInv, NEW s \in SignIns, ~ At(s, "idle"), NEW u \in User, u.email = Req(s).email,
         users \subseteq users', users' \subseteq User, UNCHANGED links, TablesInv(users', links'),
         u \in users', With(s, AfterUser(s), u)
  PROVE  \E r : Moves(s, r)
<1> DEFINE o == signIn[s]
<1> DEFINE r == GoneWith(o, AfterUser(s), u)
<1>1. o \in SignInState /\ o.req \in Asked /\ o.req.provider \in {Google, Credentials} /\ o.req = Req(s)
  BY Known DEF Req
<1>2. AfterUser(s) \in {"link", "join"}
  BY DEF AfterUser
<1>3. r \in SignInState /\ r.pc = AfterUser(s) /\ r.req = o.req /\ r.user = u
  BY <1>1, <1>2, StateFields
<1>4. signIn' = [signIn EXCEPT ![s] = r]
  BY DEF With, Step, GoneWith
<1> HIDE DEF r, o
<1>5. r.req.provider = Google => GoogleKnows(r, users', links')
  BY <1>1, <1>2, <1>3, Names DEF GoogleKnows, AfterUser, ByPassword
<1>6. r.req.provider = Credentials => PasswordKnows(r, users')
  BY <1>1, <1>2, <1>3 DEF PasswordKnows
<1>7. Knows(r, users', links')
  BY <1>1, <1>2, <1>3, <1>5, <1>6, GoesKnowing
<1>8. links \subseteq links' /\ links' \subseteq Link
  BY DEF AccountInv, TypeOK
<1>9. QED
  BY <1>3, <1>4, <1>7, <1>8 DEF Moves

LEMMA ReadUserMoves ==
  ASSUME AccountInv, NEW s \in SignIns, ReadUser(s)
  PROVE  \E r : Moves(s, r)
<1>1. CASE Goto(s, "create")
  <2> DEFINE o == signIn[s]
  <2> DEFINE r == GoneTo(o, "create")
  <2>1. o \in SignInState /\ o.req \in Asked /\ UNCHANGED <<users, links>>
    BY Known DEF ReadUser, At, Req
  <2>2. r \in SignInState /\ r.pc = "create" /\ r.req = o.req
    BY <2>1, StateFields
  <2>3. signIn' = [signIn EXCEPT ![s] = r]
    BY <1>1 DEF Goto, Step, GoneTo
  <2> HIDE DEF r, o
  <2>4. GoogleKnows(r, users, links) /\ PasswordKnows(r, users)
    BY <2>2 DEF GoogleKnows, PasswordKnows
  <2>5. QED
    BY <2>1, <2>2, <2>3, <2>4, GoesKnowing, ReadsMove
<1>2. ASSUME NEW u \in UserByEmail(Req(s).email), With(s, AfterUser(s), u) PROVE \E r : Moves(s, r)
  <2>1. u \in users /\ u \in User /\ u.email = Req(s).email /\ ~ At(s, "idle") /\ UNCHANGED <<users, links>>
        /\ TablesInv(users', links')
    BY DEF UserByEmail, AccountInv, TypeOK, ReadUser, At, TablesInv
  <2>2. users' \subseteq User
    BY <2>1 DEF AccountInv, TypeOK
  <2>3. QED
    BY <1>2, <2>1, <2>2, UserInHand
<1>3. QED
  BY <1>1, <1>2 DEF ReadUser

LEMMA CandidateTyped ==
  ASSUME AccountInv, NEW s \in SignIns, ~ At(s, "idle")
  PROVE  /\ Candidate(s) \in User /\ Candidate(s).email = Req(s).email
         /\ ~ EmailTaken(Req(s).email) => TablesInv(users \cup {Candidate(s)}, links)
<1>1. Req(s) \in Asked
  BY Known
<1>2. Candidate(s) \in User /\ Candidate(s).email = Req(s).email
  BY <1>1 DEF Candidate, User
<1>3. QED
  BY <1>2 DEF EmailTaken, UserByEmail, TablesInv, AccountInv

LEMMA CreateUserMoves ==
  ASSUME AccountInv, NEW s \in SignIns, CreateUser(s)
  PROVE  \E r : Moves(s, r)
<1>0. ~ At(s, "idle") /\ UNCHANGED links
  BY DEF CreateUser, At
<1>1. CASE EmailTaken(Req(s).email)
  <2> DEFINE o == signIn[s]
  <2> DEFINE r == GoneTo(o, "winner")
  <2>1. o \in SignInState /\ o.req \in Asked /\ UNCHANGED <<users, links>> /\ o.req = Req(s)
    BY <1>0, <1>1, Known DEF CreateUser, At, Req
  <2>2. r \in SignInState /\ r.pc = "winner" /\ r.req = o.req
    BY <2>1, StateFields
  <2>3. signIn' = [signIn EXCEPT ![s] = r]
    BY <1>1 DEF CreateUser, Goto, Step, GoneTo
  <2> HIDE DEF r, o
  <2>4. Knows(r, users, links)
    BY <1>1, <2>1, <2>2 DEF Knows, GoogleKnows, PasswordKnows, DeniedFairly, EmailTaken, UserByEmail
  <2>5. QED
    BY <2>1, <2>2, <2>3, <2>4, ReadsMove
<1>2. CASE ~ EmailTaken(Req(s).email)
  <2> DEFINE c == Candidate(s)
  <2>1. users' = users \cup {c} /\ With(s, AfterUser(s), c)
    BY <1>2 DEF CreateUser
  <2>2. c \in User /\ c.email = Req(s).email /\ TablesInv(users \cup {c}, links)
    BY <1>0, <1>2, CandidateTyped
  <2> HIDE DEF c
  <2>3. users' \subseteq User /\ users \subseteq users' /\ c \in users'
    BY <2>1, <2>2 DEF AccountInv, TypeOK
  <2>4. TablesInv(users', links')
    BY <1>0, <2>1, <2>2
  <2>5. QED
    BY <1>0, <2>1, <2>2, <2>3, <2>4, UserInHand
<1>3. QED
  BY <1>1, <1>2

LEMMA ReadWinnerMoves ==
  ASSUME AccountInv, NEW s \in SignIns, ReadWinner(s)
  PROVE  \E r : Moves(s, r)
<1>1. EmailTaken(Req(s).email)
  BY DEF ReadWinner, At, AccountInv, Knows, EmailTaken, UserByEmail, Req
<1>2. PICK u \in UserByEmail(Req(s).email) : With(s, AfterUser(s), u) /\ UNCHANGED <<users, links>>
  BY <1>1 DEF ReadWinner
<1>3. u \in users /\ u \in User /\ u.email = Req(s).email /\ ~ At(s, "idle") /\ TablesInv(users', links')
  BY <1>2 DEF UserByEmail, AccountInv, TypeOK, ReadWinner, At, TablesInv
<1>4. users' \subseteq User
  BY <1>2 DEF AccountInv, TypeOK
<1>5. QED
  BY <1>2, <1>3, <1>4, UserInHand


LEMMA BeginMoves ==
  ASSUME AccountInv, NEW s \in SignIns, NEW q \in Asked, Begin(s, q)
  PROVE  \E r : Moves(s, r)
<1> DEFINE pc == IF q.provider = Google THEN "link" ELSE "user"
<1> DEFINE g == GuestOf(q.browser)
<1> DEFINE r == [Idle EXCEPT !.pc = pc, !.req = q, !.guest = g]
<1>1. g \in Guests \cup {NULL}
  BY AskedAssumption DEF GuestOf, AccountInv, TypeOK
<1>2. signIn' = [signIn EXCEPT ![s] = r] /\ UNCHANGED <<users, links>>
  BY DEF Begin, Step
<1> HIDE DEF g
<1>3. r \in SignInState /\ r.pc = pc /\ r.req = q
  BY <1>1 DEF Idle, SignInState
<1>4. q.provider \in {Google, Credentials} /\ pc \in {"link", "user"} /\ (pc = "link" => q.provider = Google)
  BY AskedAssumption
<1> HIDE DEF r, pc
<1>5. GoogleKnows(r, users, links) /\ (q.provider = Credentials => PasswordKnows(r, users))
  BY <1>3, <1>4, Names DEF GoogleKnows, PasswordKnows
<1>6. QED
  BY <1>2, <1>3, <1>4, <1>5, GoesKnowing, ReadsMove

LEMMA ReadOwnerMoves ==
  ASSUME AccountInv, NEW s \in SignIns, ReadOwner(s)
  PROVE  \E r : Moves(s, r)
<1> DEFINE o == signIn[s]
<1>1. /\ o \in SignInState /\ o.pc = "owner" /\ o.req \in Asked /\ o.req = Req(s) /\ o.req.provider = Google
      /\ GoogleKnows(o, users, links)
  BY Known DEF ReadOwner, At, Req, PasswordKnows, ByPassword
<1>2. PICK l \in LinksOf(links, o.req.subject) : o.user.id = l.user
  BY <1>1 DEF GoogleKnows
<1>3. l \in links /\ \E u \in users : u.id = l.user
  BY <1>2 DEF LinksOf, AccountInv, TablesInv
<1>4. UserById(o.user.id) # {}
  BY <1>2, <1>3 DEF UserById
<1>5. PICK u \in UserById(o.user.id) : With(s, "resolved", u) /\ UNCHANGED <<users, links>>
  BY <1>4 DEF ReadOwner
<1>6. u \in User /\ u.id = l.user
  BY <1>2, <1>5 DEF UserById, AccountInv, TypeOK
<1> DEFINE r == GoneWith(o, "resolved", u)
<1>7. r \in SignInState /\ r.pc = "resolved" /\ r.req = o.req /\ r.user = u
  BY <1>1, <1>6, StateFields
<1>8. signIn' = [signIn EXCEPT ![s] = r]
  BY <1>5 DEF With, Step, GoneWith
<1> HIDE DEF r, o
<1>9. GoogleKnows(r, users, links)
  BY <1>2, <1>6, <1>7 DEF GoogleKnows
<1>10. QED
  BY <1>1, <1>5, <1>7, <1>8, <1>9, Names, GoesKnowing, ReadsMove

\* A link that is new names a user of the table.
LEMMA NewLinkTables ==
  ASSUME AccountInv, NEW s \in SignIns, At(s, "join")
  PROVE  /\ signIn[s].user \in users
         /\ NewLink(s) \in Link
         /\ ~ Linked(s) => TablesInv(users, links \cup {NewLink(s)})
<1>1. /\ Req(s) \in Asked /\ Req(s).provider \in {Google, Credentials} /\ signIn[s].pc = "join"
      /\ ByPassword(s) => PasswordKnows(signIn[s], users)
      /\ ~ ByPassword(s) => GoogleKnows(signIn[s], users, links)
  BY Known DEF At
<1>2. signIn[s].user \in users
  BY <1>1 DEF PasswordKnows, GoogleKnows
<1>3. signIn[s].user \in User /\ signIn[s].user.id \in SignIns
  BY <1>2 DEF AccountInv, TypeOK, User
<1>4. /\ NewLink(s).provider = Req(s).provider /\ NewLink(s).subject = SubjectOf(s)
      /\ NewLink(s).user = signIn[s].user.id /\ NewLink(s) \in Link
  BY <1>1, <1>3 DEF NewLink, Link, SubjectOf
<1>5. ASSUME ~ Linked(s) PROVE TablesInv(users, links \cup {NewLink(s)})
  <2>1. ~ \E l \in links : l.provider = NewLink(s).provider /\ l.subject = NewLink(s).subject
    BY <1>4, <1>5 DEF Linked, LinkOf
  <2>2. TablesInv(users, links)
    BY DEF AccountInv
  <2>3. QED
    BY <1>2, <1>4, <2>1, <2>2 DEF TablesInv
<1>6. QED
  BY <1>2, <1>4, <1>5

LEMMA CreateLinkMoves ==
  ASSUME AccountInv, NEW s \in SignIns, CreateLink(s)
  PROVE  \E r : Moves(s, r)
<1> DEFINE o == signIn[s]
<1> DEFINE pc == IF ByPassword(s) THEN "verify" ELSE IF Linked(s) THEN "relink" ELSE "resolved"
<1> DEFINE r == GoneTo(o, pc)
<1>1. /\ o \in SignInState /\ o.pc = "join" /\ o.req \in Asked /\ o.req = Req(s)
      /\ o.req.provider \in {Google, Credentials}
      /\ ByPassword(s) => PasswordKnows(o, users)
      /\ users' = users /\ links' = IF Linked(s) THEN links ELSE links \cup {NewLink(s)}
  BY Known DEF CreateLink, At, Req
<1>2. o.user \in users /\ NewLink(s) \in Link /\ (~ Linked(s) => TablesInv(users, links \cup {NewLink(s)}))
  BY NewLinkTables DEF CreateLink
<1>3. /\ users \subseteq users' /\ users' \subseteq User /\ links \subseteq links' /\ links' \subseteq Link
      /\ TablesInv(users', links')
  BY <1>1, <1>2 DEF AccountInv, TypeOK
<1>4. r \in SignInState /\ r.pc = pc /\ r.req = o.req /\ r.user = o.user
  BY <1>1, StateFields
<1>5. signIn' = [signIn EXCEPT ![s] = r]
  BY DEF CreateLink, Goto, Step, GoneTo
<1>6. ASSUME ~ ByPassword(s), pc = "relink" PROVE LinksOf(links', r.req.subject) # {}
  <2>1. Linked(s) /\ links' = links /\ Req(s).provider = Google
    BY <1>1, <1>6 DEF ByPassword
  <2>2. QED
    BY <1>1, <1>4, <1>6, <2>1 DEF Linked, LinkOf, LinksOf, SubjectOf
<1>7. ASSUME ~ ByPassword(s), pc = "resolved"
      PROVE  NewLink(s) \in LinksOf(links', r.req.subject) /\ NewLink(s).user = r.user.id
  <2>1. ~ Linked(s) /\ Req(s).provider = Google
    BY <1>1, <1>7 DEF ByPassword
  <2>2. QED
    BY <1>1, <1>4, <1>7, <2>1 DEF NewLink, LinksOf, SubjectOf
<1>8. pc \in {"verify", "relink", "resolved"} /\ (ByPassword(s) <=> pc = "verify")
  OBVIOUS
<1> HIDE DEF r, o, pc
<1>9. r.req.provider = Google => GoogleKnows(r, users', links')
  BY <1>1, <1>4, <1>6, <1>7, <1>8, Names DEF GoogleKnows, ByPassword
<1>10. r.req.provider = Credentials => PasswordKnows(r, users')
  BY <1>1, <1>4, <1>8 DEF PasswordKnows, ByPassword
<1>11. Knows(r, users', links')
  BY <1>1, <1>4, <1>8, <1>9, <1>10, GoesKnowing
<1>12. QED
  BY <1>3, <1>4, <1>5, <1>11 DEF Moves

LEMMA ReadLinkAgainMoves ==
  ASSUME AccountInv, NEW s \in SignIns, ReadLinkAgain(s)
  PROVE  \E r : Moves(s, r)
<1> DEFINE o == signIn[s]
<1>1. /\ o \in SignInState /\ o.pc = "relink" /\ o.req \in Asked /\ o.req = Req(s) /\ o.req.provider = Google
      /\ GoogleKnows(o, users, links) /\ ~ ByPassword(s)
  BY Known DEF ReadLinkAgain, At, Req, PasswordKnows, ByPassword
<1>2. Linked(s)
  BY <1>1 DEF GoogleKnows, LinksOf, Linked, LinkOf, SubjectOf
<1>3. PICK l \in LinkOf(Google, Req(s).subject) : With(s, "owner", [id |-> l.user]) /\ UNCHANGED <<users, links>>
  BY <1>2 DEF ReadLinkAgain
<1> DEFINE u == [id |-> l.user]
<1>4. l \in LinksOf(links, o.req.subject) /\ l \in Link
  BY <1>1, <1>3 DEF LinkOf, LinksOf, AccountInv, TypeOK
<1>5. u \in [id : SignIns] /\ u.id = l.user
  BY <1>4 DEF Link
<1> HIDE DEF u
<1> DEFINE r == GoneWith(o, "owner", u)
<1>6. r \in SignInState /\ r.pc = "owner" /\ r.req = o.req /\ r.user = u
  BY <1>1, <1>5, StateFields
<1>7. signIn' = [signIn EXCEPT ![s] = r]
  BY <1>3 DEF With, Step, GoneWith, u
<1> HIDE DEF r, o
<1>8. GoogleKnows(r, users, links)
  BY <1>4, <1>5, <1>6 DEF GoogleKnows
<1>9. QED
  BY <1>1, <1>3, <1>6, <1>7, <1>8, Names, GoesKnowing, ReadsMove

LEMMA VerifyMoves ==
  ASSUME AccountInv, NEW s \in SignIns, Verify(s)
  PROVE  \E r : Moves(s, r)
<1> DEFINE o == signIn[s]
<1>1. /\ o \in SignInState /\ o.pc = "verify" /\ o.req \in Asked /\ o.req = Req(s)
      /\ o.req.provider = Credentials /\ PasswordKnows(o, users) /\ UNCHANGED <<users, links>>
  BY Known DEF Verify, At, Req, GoogleKnows, ByPassword, Deny
<1>2. o.user \in users /\ o.user.email = o.req.email
  BY <1>1 DEF PasswordKnows
<1>3. CASE o.user.passwordHash = o.req.password
  <2> DEFINE r == GoneTo(o, "resolved")
  <2>1. r \in SignInState /\ r.pc = "resolved" /\ r.req = o.req /\ r.user = o.user
    BY <1>1, StateFields
  <2>2. signIn' = [signIn EXCEPT ![s] = r]
    BY <1>1, <1>3 DEF Verify, Goto, Step, GoneTo
  <2> HIDE DEF r, o
  <2>3. PasswordKnows(r, users)
    BY <1>2, <1>3, <2>1 DEF PasswordKnows
  <2>4. QED
    BY <1>1, <2>1, <2>2, <2>3, Names, GoesKnowing, ReadsMove
<1>4. CASE o.user.passwordHash # o.req.password
  <2> DEFINE r == GoneTo(o, "denied")
  <2>1. r \in SignInState /\ r.pc = "denied" /\ r.req = o.req /\ r.user = o.user
    BY <1>1, StateFields
  <2>2. signIn' = [signIn EXCEPT ![s] = r]
    BY <1>1, <1>4 DEF Verify, Deny, Goto, Step, GoneTo
  <2> HIDE DEF r, o
  <2>3. PasswordKnows(r, users) /\ DeniedFairly(r, users)
    BY <1>1, <1>2, <1>4, <2>1 DEF PasswordKnows, DeniedFairly
  <2>4. Knows(r, users, links)
    BY <1>1, <2>1, <2>3, Names DEF Knows
  <2>5. QED
    BY <1>1, <2>1, <2>2, <2>4, ReadsMove
<1>5. QED
  BY <1>3, <1>4

LEMMA FinishMoves ==
  ASSUME AccountInv, NEW s \in SignIns, Finish(s)
  PROVE  (\E r : Moves(s, r)) /\ signIn[s].user.id \in SignIns
<1> DEFINE o == signIn[s]
<1> DEFINE r == GoneTo(o, "done")
<1>1. /\ o \in SignInState /\ o.pc = "resolved" /\ o.req \in Asked /\ o.req.provider \in {Google, Credentials}
      /\ o.req.provider = Credentials => PasswordKnows(o, users)
      /\ o.req.provider = Google => GoogleKnows(o, users, links)
      /\ UNCHANGED <<users, links>>
  BY Known, Names DEF Finish, At, Req, ByPassword
<1>2. r \in SignInState /\ r.pc = "done" /\ r.req = o.req /\ r.user = o.user
  BY <1>1, StateFields
<1>3. signIn' = [signIn EXCEPT ![s] = r]
  BY DEF Finish, Goto, Step, GoneTo
<1>4. users \subseteq User /\ links \subseteq Link
  BY DEF AccountInv, TypeOK
<1>5. o.user.id \in SignIns
  BY <1>1, <1>4 DEF GoogleKnows, PasswordKnows, LinksOf, Link, User
<1> HIDE DEF r
<1>6. r.req.provider = Google => GoogleKnows(r, users, links)
  BY <1>1, <1>2 DEF GoogleKnows
<1>7. r.req.provider = Credentials => PasswordKnows(r, users)
  BY <1>1, <1>2 DEF PasswordKnows
<1> HIDE DEF o
<1>8. \E x : Moves(s, x)
  BY <1>1, <1>2, <1>3, <1>6, <1>7, GoesKnowing, ReadsMove
<1>9. QED
  BY <1>5, <1>8 DEF o

LEMMA FaultMoves ==
  ASSUME AccountInv, NEW s \in SignIns, Fault(s)
  PROVE  \E r : Moves(s, r)
<1> DEFINE o == signIn[s]
<1> DEFINE r == [o EXCEPT !.pc = "denied", !.faults = 1]
<1>1. o \in SignInState /\ o.pc # "idle" /\ Req(s) \in Asked /\ Req(s) = o.req /\ ~ At(s, "idle")
  BY Known DEF Fault, At, Req
<1>2. signIn' = [signIn EXCEPT ![s] = r]
  <2>1. signIn \in [SignIns -> SignInState]
    BY DEF AccountInv, TypeOK
  <2>2. signIn' = [signIn EXCEPT ![s].pc = "denied", ![s].faults = 1]
    BY DEF Fault
  <2>3. QED
    BY <2>1, <2>2
<1>3. r \in SignInState /\ r.pc = "denied" /\ r.req = o.req /\ r.faults = 1
  BY <1>1 DEF SignInState
<1> HIDE DEF r, o
<1>4. Knows(r, users', links')
  BY <1>1, <1>3 DEF Knows, GoogleKnows, PasswordKnows, DeniedFairly
<1>5. /\ users \subseteq users' /\ users' \subseteq User /\ links \subseteq links' /\ links' \subseteq Link
      /\ TablesInv(users', links')
  <2>1. users \subseteq User /\ links \subseteq Link /\ TablesInv(users, links)
    BY DEF AccountInv, TypeOK
  <2>2. CASE UNCHANGED <<users, links>>
    BY <2>1, <2>2
  <2>3. CASE ~ EmailTaken(Req(s).email) /\ users' = users \cup {Candidate(s)} /\ UNCHANGED links
    BY <1>1, <2>1, <2>3, CandidateTyped
  <2>4. CASE At(s, "join") /\ ~ Linked(s) /\ links' = links \cup {NewLink(s)} /\ UNCHANGED users
    BY <2>1, <2>4, NewLinkTables
  <2>5. QED
    BY <2>2, <2>3, <2>4 DEF Fault
<1>6. QED
  BY <1>2, <1>3, <1>4, <1>5 DEF Moves


\* What a sign-in leaves of the rest: the token is its own user, the empty one or
\* what it was, and the merge is of the guest it came with.
LEMMA StepMoves ==
  ASSUME AccountInv, NEW s \in SignIns, SignInStep(s)
  PROVE  \E r : Moves(s, r)
BY BeginMoves, ReadLinkMoves, ReadOwnerMoves, ReadUserMoves, CreateUserMoves, ReadWinnerMoves,
   CreateLinkMoves, ReadLinkAgainMoves, VerifyMoves, FinishMoves, FaultMoves DEF SignInStep

LEMMA StepTokens ==
  ASSUME AccountInv, NEW s \in SignIns, SignInStep(s)
  PROVE  /\ token' \in [Browsers -> SignIns \cup {NULL, NoUser}]
         /\ merged' \subseteq Guests \X SignIns
<1>1. token \in [Browsers -> SignIns \cup {NULL, NoUser}] /\ merged \subseteq Guests \X SignIns
  BY DEF AccountInv, TypeOK
<1>2. CASE UNCHANGED <<token, merged>>
  BY <1>1, <1>2
<1>3. CASE NoAccount(s) /\ UNCHANGED merged
  BY <1>1, <1>3 DEF NoAccount
<1>4. CASE Finish(s)
  <2>1. signIn[s].user.id \in SignIns /\ signIn[s].guest \in Guests \cup {NULL}
    BY <1>4, FinishMoves DEF AccountInv, TypeOK, SignInState
  <2>2. token' \in [Browsers -> SignIns \cup {NULL, NoUser}]
    BY <1>1, <1>4, <2>1 DEF Finish
  <2>3. merged' \subseteq Guests \X SignIns
    BY <1>1, <1>4, <2>1 DEF Finish
  <2>4. QED
    BY <2>2, <2>3
<1>5. QED
  BY <1>2, <1>3, <1>4 DEF SignInStep, Begin, ReadLink, ReadOwner, ReadUser, CreateUser, ReadWinner,
     CreateLink, ReadLinkAgain, Verify, Fault, Deny

LEMMA VisitTyped ==
  ASSUME AccountInv, LimitInv, VisitNext
  PROVE  /\ cookie' \in [Browsers -> [guest : Guests, until : Nat] \cup {NULL}]
         /\ minted' \subseteq Guests /\ answers' \subseteq [browser : Browsers, guest : Guests]
<1>1. /\ cookie \in [Browsers -> [guest : Guests, until : Nat] \cup {NULL}]
      /\ minted \subseteq Guests /\ answers \subseteq [browser : Browsers, guest : Guests]
      /\ now + CookieLife \in Nat
  BY WindowAssumption DEF AccountInv, TypeOK, LimitInv
<1>2. CASE Pass
  BY <1>1, <1>2 DEF Pass
<1>3. ASSUME NEW b \in Browsers, Visit(b)
      PROVE  /\ cookie' = cookie /\ minted' \subseteq Guests
             /\ answers' \subseteq [browser : Browsers, guest : Guests]
  BY <1>1, <1>3 DEF Visit
<1>4. ASSUME NEW a \in answers, Arrive(a)
      PROVE  /\ cookie' \in [Browsers -> [guest : Guests, until : Nat] \cup {NULL}]
             /\ minted' = minted /\ answers' \subseteq answers
  <2> DEFINE c == [guest |-> a.guest, until |-> now + CookieLife]
  <2>1. c \in [guest : Guests, until : Nat]
    BY <1>1
  <2>2. cookie' = [cookie EXCEPT ![a.browser] = c]
    BY <1>4 DEF Arrive
  <2> HIDE DEF c
  <2>3. QED
    BY <1>1, <1>4, <2>1, <2>2 DEF Arrive
<1>5. QED
  BY <1>1, <1>2, <1>3, <1>4 DEF VisitNext

LEMMA NextAccount ==
  ASSUME AccountInv, LimitInv, [Next]_vars
  PROVE  AccountInv'
<1>1. TypeOK /\ TablesInv(users, links) /\ \A s \in SignIns : Knows(signIn[s], users, links)
  BY DEF AccountInv
<1>2. CASE VisitNext /\ UNCHANGED accountVars
  <2>1. TypeOK'
    BY <1>1, <1>2, VisitTyped DEF TypeOK, accountVars
  <2>2. QED
    BY <1>1, <1>2, <2>1 DEF AccountInv, accountVars
<1>3. ASSUME NEW s \in SignIns, SignInStep(s), UNCHANGED visitVars PROVE AccountInv'
  <2>1. PICK r : Moves(s, r)
    BY <1>3, StepMoves
  <2>2. /\ signIn' \in [SignIns -> SignInState] /\ users' \subseteq User /\ links' \subseteq Link
        /\ TablesInv(users', links') /\ \A t \in SignIns : Knows(signIn'[t], users', links')
    BY <2>1, MovesKeep
  <2>3. /\ token' \in [Browsers -> SignIns \cup {NULL, NoUser}]
        /\ merged' \subseteq Guests \X SignIns
    BY <1>3, StepTokens
  <2>4. TypeOK'
    BY <1>1, <1>3, <2>2, <2>3 DEF TypeOK, visitVars
  <2>5. QED
    BY <2>2, <2>4 DEF AccountInv
<1>4. ASSUME UNCHANGED <<cookie, minted, answers, accountVars>> PROVE AccountInv'
  <2>1. TypeOK'
    BY <1>1, <1>4 DEF TypeOK, accountVars
  <2>2. QED
    BY <1>1, <1>4, <2>1 DEF AccountInv, accountVars
<1>5. QED
  BY <1>2, <1>3, <1>4 DEF Next, Ask, vars, visitVars

LEMMA InitAccount == Init => AccountInv
<1> SUFFICES ASSUME Init PROVE AccountInv
  OBVIOUS
<1>1. Idle \in SignInState /\ Idle.pc = "idle"
  BY DEF Idle, SignInState
<1>2. TypeOK
  BY <1>1 DEF Init, VisitInit, TypeOK
<1>3. \A s \in SignIns : Knows(signIn[s], users, links)
  BY <1>1 DEF Init, Knows, DeniedFairly
<1>4. QED
  BY <1>2, <1>3 DEF AccountInv, TablesInv, Init

\* The tables keep their unique constraints and every link its user, and a
\* sign-in knows at each step what the statements before it established.
THEOREM AccountInvariant == Spec => [](AccountInv /\ LimitInv)
<1>1. Init => AccountInv /\ LimitInv
  BY InitAccount, InitLimit
<1>2. AccountInv /\ LimitInv /\ [Next]_vars => (AccountInv /\ LimitInv)'
  BY NextAccount, NextLimit
<1>3. QED
  BY <1>1, <1>2, PTL DEF Spec

\* Rows, cookies, tokens and sign-ins on their way are always of their types.
THEOREM AccountsTypeCorrect == Spec => []TypeOK
<1>1. AccountInv => TypeOK
  BY DEF AccountInv
<1>2. QED
  BY <1>1, AccountInvariant, PTL

\* However many first sign-ins race, one external identity ends at one user, one
\* email at one user and one password, and no two users share an email.
THEOREM OneAccount == Spec => []OneAccountPerPerson
<1>1. ASSUME AccountInv PROVE OneAccountPerPerson
  <2>1. ASSUME NEW s \in Signed
        PROVE  /\ ByPassword(s) => PasswordKnows(signIn[s], users)
               /\ ~ ByPassword(s) => GoogleKnows(signIn[s], users, links)
               /\ s \in SignIns /\ signIn[s].pc = "done"
    BY <1>1, Known DEF Signed, At
  <2>2. ASSUME NEW s \in Signed, NEW t \in Signed, ~ ByPassword(s), ~ ByPassword(t),
               Req(s).subject = Req(t).subject
        PROVE  signIn[s].user.id = signIn[t].user.id
    <3>1. PICK l \in LinksOf(links, Req(s).subject) : signIn[s].user.id = l.user
      BY <2>1, <2>2 DEF GoogleKnows, Req
    <3>2. PICK m \in LinksOf(links, Req(t).subject) : signIn[t].user.id = m.user
      BY <2>1, <2>2 DEF GoogleKnows, Req
    <3>3. l = m
      BY <1>1, <2>2, <3>1, <3>2 DEF LinksOf, AccountInv, TablesInv
    <3>4. QED
      BY <3>1, <3>2, <3>3
  <2>3. ASSUME NEW s \in Signed, NEW t \in Signed, ByPassword(s), ByPassword(t), Req(s).email = Req(t).email
        PROVE  signIn[s].user.id = signIn[t].user.id /\ Req(s).password = Req(t).password
    <3>1. /\ signIn[s].user \in users /\ signIn[s].user.email = Req(s).email
          /\ signIn[s].user.passwordHash = Req(s).password
      BY <2>1, <2>3 DEF PasswordKnows, Req
    <3>2. /\ signIn[t].user \in users /\ signIn[t].user.email = Req(t).email
          /\ signIn[t].user.passwordHash = Req(t).password
      BY <2>1, <2>3 DEF PasswordKnows, Req
    <3>3. signIn[s].user = signIn[t].user
      BY <1>1, <2>3, <3>1, <3>2 DEF AccountInv, TablesInv
    <3>4. QED
      BY <3>1, <3>2, <3>3
  <2>4. \A u, v \in users : u.email = v.email => u = v
    BY <1>1 DEF AccountInv, TablesInv
  <2>5. QED
    BY <2>2, <2>3, <2>4 DEF OneAccountPerPerson
<1>2. QED
  BY <1>1, AccountInvariant, PTL

\* A sign-in none of whose own statements failed is denied only for a password
\* that is not that of the account with its email: what the refetches of a lost
\* race look for is always there.
THEOREM DenialsAreFair == Spec => []DenialsHaveCause
<1>1. ASSUME AccountInv PROVE DenialsHaveCause
  <2>1. ASSUME NEW s \in SignIns, At(s, "denied"), signIn[s].faults = 0
        PROVE  ByPassword(s) /\ \E u \in UserByEmail(Req(s).email) : u.passwordHash # Req(s).password
    <3>1. DeniedFairly(signIn[s], users)
      BY <1>1, <2>1, Known DEF At
    <3>2. QED
      BY <2>1, <3>1 DEF DeniedFairly, At, ByPassword, Req, UserByEmail
  <2>2. QED
    BY <2>1 DEF DenialsHaveCause
<1>2. QED
  BY <1>1, AccountInvariant, PTL

=============================================================================
