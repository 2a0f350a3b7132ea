---------------------------- MODULE ScoringProofs ----------------------------
(***************************************************************************)
(* Proofs about Scoring, for any ledger, page size, cap and weights, and   *)
(* any number of writes while a request runs.  The first parts are about   *)
(* what the model computes with: sums over finite sets, which the          *)
(* community modules define by a recursive fold, pages of a ledger, and    *)
(* tallies; then come types, verdicts, discretion, and the walk.           *)
(***************************************************************************)
EXTENDS Scoring, FiniteSetTheorems, SequenceTheorems, WellFoundedInduction, TLAPS

----------------------------------------------------------------------------
(* Sums.  Induction is by a smallest counterexample: a set of numbers that  *)
(* is not empty has a smallest element.                                     *)

LEMMA SmallestOf ==
  ASSUME NEW T \in SUBSET Nat, T # {}
  PROVE  \E x \in T : \A y \in T : x <= y
<1>1. PICK x \in T : \A y \in T : ~ (<<y, x>> \in OpToRel(<, Nat))
  BY NatLessThanWellFounded, WFMin
<1>2. \A y \in T : <<y, x>> \in Nat \X Nat /\ (y < x => <<y, x>> \in OpToRel(<, Nat))
  BY DEF OpToRel
<1>3. \A y \in T : x \in Nat /\ y \in Nat /\ ~ (y < x)
  BY <1>1, <1>2
<1>4. QED
  BY <1>3

(* The smallest of the finite sets that something goes wrong for. *)
LEMMA SmallestSet ==
  ASSUME NEW Bad, Bad # {}, \A s \in Bad : IsFiniteSet(s)
  PROVE  \E s \in Bad : \A t \in Bad : ~ (Cardinality(t) < Cardinality(s))
<1> DEFINE N == {Cardinality(s) : s \in Bad}
<1>1. N \in SUBSET Nat /\ N # {}
  BY FS_CardinalityType
<1>2. PICK n \in N : \A m \in N : n <= m
  <2> HIDE DEF N
  <2>1. QED
    BY <1>1, SmallestOf
<1>3. PICK s \in Bad : n = Cardinality(s)
  BY <1>2
<1>4. ASSUME NEW t \in Bad PROVE ~ (Cardinality(t) < Cardinality(s))
  <2>1. Cardinality(t) \in N /\ Cardinality(t) \in Nat /\ Cardinality(s) \in Nat
    BY <1>1
  <2>2. Cardinality(s) <= Cardinality(t)
    BY <1>2, <1>3, <2>1
  <2>3. QED
    BY <2>1, <2>2
<1>5. QED
  BY <1>4

LEMMA RemoveOne ==
  ASSUME NEW s, IsFiniteSet(s), NEW x \in s
  PROVE  /\ IsFiniteSet(s \ {x}) /\ Cardinality(s \ {x}) < Cardinality(s)
         /\ Cardinality(s \ {x}) = Cardinality(s) - 1
<1>1. IsFiniteSet(s \ {x}) /\ Cardinality(s \ {x}) = Cardinality(s) - 1
  BY FS_RemoveElement
<1>2. Cardinality(s) \in Nat
  BY FS_CardinalityType
<1>3. QED
  BY <1>1, <1>2

Some(s) == CHOOSE x \in s : TRUE

(* The table of the sums over the subsets of S, as the fold computes it. *)
Summed(g, f, S) ==
  g = [s \in SUBSET S |-> IF s = {} THEN 0 ELSE f[Some(s)] + g[s \ {Some(s)}]]

LEMMA SumIsFold ==
  ASSUME NEW f
  PROVE  SumFunction(f) = (CHOOSE g : Summed(g, f, DOMAIN f))[DOMAIN f]
  BY DEF SumFunction, SumFunctionOnSet, FoldFunctionOnSet, MapThenFoldSet, Summed, Some

LEMMA SummedAt ==
  ASSUME NEW S, NEW f, NEW g, Summed(g, f, S), NEW s \in SUBSET S
  PROVE  /\ s = {} => g[s] = 0
         /\ s # {} => Some(s) \in s /\ g[s] = f[Some(s)] + g[s \ {Some(s)}]
<1>1. g[s] = IF s = {} THEN 0 ELSE f[Some(s)] + g[s \ {Some(s)}]
  BY DEF Summed
<1>2. s # {} => Some(s) \in s
  BY DEF Some
<1>3. QED
  BY <1>1, <1>2

(* What is summed outside a set does not matter for it. *)
LEMMA SumsAgree ==
  ASSUME NEW S, NEW D \in SUBSET S, IsFiniteSet(D), NEW f, NEW e, \A x \in D : e[x] = f[x],
         NEW g, NEW h, Summed(g, f, S), Summed(h, e, D)
  PROVE  \A s \in SUBSET D : g[s] = h[s]
<1> DEFINE Bad == {s \in SUBSET D : g[s] # h[s]}
<1> SUFFICES ASSUME Bad # {} PROVE FALSE
  OBVIOUS
<1>1. \A s \in Bad : IsFiniteSet(s)
  BY FS_Subset
<1>2. PICK s \in Bad : \A t \in Bad : ~ (Cardinality(t) < Cardinality(s))
  <2> HIDE DEF Bad
  <2>1. QED
    BY <1>1, SmallestSet
<1>3. s \in SUBSET D /\ s \in SUBSET S /\ g[s] # h[s]
  OBVIOUS
<1>4. s # {}
  BY <1>3, SummedAt
<1>5. Some(s) \in s /\ g[s] = f[Some(s)] + g[s \ {Some(s)}] /\ h[s] = e[Some(s)] + h[s \ {Some(s)}]
  BY <1>3, <1>4, SummedAt
<1>6. s \ {Some(s)} \notin Bad
  BY <1>1, <1>2, <1>5, RemoveOne
<1>7. g[s \ {Some(s)}] = h[s \ {Some(s)}]
  BY <1>3, <1>6
<1>8. QED
  BY <1>3, <1>5, <1>7

LEMMA SumsExist ==
  ASSUME NEW S, IsFiniteSet(S), NEW f \in [S -> Int]
  PROVE  \E g \in [SUBSET S -> Int] : Summed(g, f, S)
<1> DEFINE Level(n) == {s \in SUBSET S : Cardinality(s) <= n}
           Next1(g, s) == IF s = {} THEN 0 ELSE f[Some(s)] + g[s \ {Some(s)}]
           Upto(g, n) == g \in [Level(n) -> Int] /\ \A s \in Level(n) : g[s] = Next1(g, s)
           Bad == {n \in Nat : ~ \E g : Upto(g, n)}
<1>1. \A s \in SUBSET S : IsFiniteSet(s) /\ Cardinality(s) \in Nat
  BY FS_Subset, FS_CardinalityType
<1>2. ASSUME NEW n \in Nat, n > 0, NEW g, Upto(g, n - 1) PROVE \E h : Upto(h, n)
  <2> DEFINE h == [s \in Level(n) |-> Next1(g, s)]
  <2>1. ASSUME NEW s \in Level(n), s # {}
        PROVE  Some(s) \in s /\ f[Some(s)] \in Int /\ s \ {Some(s)} \in Level(n - 1)
    <3>1. Some(s) \in s
      BY <2>1 DEF Some
    <3>2. Cardinality(s \ {Some(s)}) = Cardinality(s) - 1 /\ Cardinality(s) \in Nat
      BY <1>1, <3>1, RemoveOne
    <3>3. QED
      BY <3>1, <3>2
  <2>2. \A s \in Level(n) : Next1(g, s) \in Int
    BY <1>2, <2>1
  <2>3. h \in [Level(n) -> Int]
    BY <2>2
  <2>4. ASSUME NEW s \in Level(n - 1) PROVE s \in Level(n) /\ h[s] = g[s]
    <3>1. s \in Level(n)
      BY <1>1
    <3>2. h[s] = Next1(g, s)
      BY <3>1
    <3>3. g[s] = Next1(g, s)
      <4> HIDE DEF Next1, Level, h
      <4>1. QED
        BY <1>2
    <3>4. QED
      BY <3>1, <3>2, <3>3
  <2>5. ASSUME NEW s \in Level(n) PROVE h[s] = Next1(h, s)
    <3>1. h[s] = Next1(g, s)
      OBVIOUS
    <3>2. s # {} => h[s \ {Some(s)}] = g[s \ {Some(s)}]
      <4> HIDE DEF Level, h
      <4>1. QED
        BY <2>1, <2>4
    <3> HIDE DEF h, Level
    <3>3. QED
      BY <3>1, <3>2
  <2>6. QED
    BY <2>3, <2>5
<1>3. \E g : Upto(g, 0)
  <2> DEFINE h == [s \in Level(0) |-> 0]
  <2>1. \A s \in Level(0) : s = {}
    BY <1>1, FS_EmptySet
  <2>2. Upto(h, 0)
    BY <2>1
  <2>3. QED
    BY <2>2
<1>4. Bad = {}
  <2> SUFFICES ASSUME Bad # {} PROVE FALSE
    OBVIOUS
  <2>1. Bad \in SUBSET Nat
    OBVIOUS
  <2>2. PICK n \in Bad : \A m \in Bad : n <= m
    <3> HIDE DEF Bad
    <3>1. QED
      BY <2>1, SmallestOf
  <2> HIDE DEF Upto
  <2>3. n # 0
    BY <1>3
  <2>4. n - 1 \in Nat /\ n > 0 /\ n - 1 \notin Bad
    <3> HIDE DEF Bad
    <3>1. QED
      BY <2>1, <2>2, <2>3
  <2>5. PICK g : Upto(g, n - 1)
    BY <2>4
  <2>6. QED
    BY <1>2, <2>4, <2>5
<1>5. Cardinality(S) \in Nat
  BY FS_CardinalityType
<1>6. PICK g : Upto(g, Cardinality(S))
  BY <1>4, <1>5
<1>7. Level(Cardinality(S)) = SUBSET S
  BY FS_Subset
<1>8. g \in [SUBSET S -> Int] /\ \A s \in SUBSET S : g[s] = Next1(g, s)
  BY <1>6, <1>7
<1>9. Summed(g, f, S)
  BY <1>8 DEF Summed
<1>10. QED
  BY <1>8, <1>9

Part(f, D) == [x \in D |-> f[x]]

(* One table holds the sums over all the parts of S. *)
IsTable(g, f, S) ==
  /\ g \in [SUBSET S -> Int] /\ Summed(g, f, S)
  /\ \A D \in SUBSET S : SumFunction(Part(f, D)) = g[D]

LEMMA SumTable ==
  ASSUME NEW S, IsFiniteSet(S), NEW f \in [S -> Int]
  PROVE  \E g : IsTable(g, f, S)
<1>1. PICK g \in [SUBSET S -> Int] : Summed(g, f, S)
  BY SumsExist
<1>2. ASSUME NEW D \in SUBSET S PROVE SumFunction(Part(f, D)) = g[D]
  <2> DEFINE e == Part(f, D)
             h == CHOOSE k : Summed(k, e, D)
  <2>1. IsFiniteSet(D) /\ e \in [D -> Int] /\ DOMAIN e = D /\ \A x \in D : e[x] = f[x]
    BY FS_Subset DEF Part
  <2> HIDE DEF e
  <2>2. \E k : Summed(k, e, D)
    BY <2>1, SumsExist
  <2>3. Summed(h, e, D)
    BY <2>2
  <2>4. SumFunction(e) = h[D]
    BY <2>1, SumIsFold
  <2> HIDE DEF h
  <2>5. g[D] = h[D]
    BY <1>1, <2>1, <2>3, SumsAgree
  <2>6. QED
    BY <2>4, <2>5 DEF e
<1>3. QED
  BY <1>1, <1>2 DEF IsTable

(* The order in which a sum is taken does not matter. *)
AnyOrder(g, f, S) == \A s \in SUBSET S : \A x \in s : g[s] = f[x] + g[s \ {x}]

LEMMA SumAnyOrder ==
  ASSUME NEW S, IsFiniteSet(S), NEW f \in [S -> Int], NEW g, IsTable(g, f, S)
  PROVE  AnyOrder(g, f, S)
<1> DEFINE Bad == {s \in SUBSET S : \E x \in s : g[s] # f[x] + g[s \ {x}]}
<1> SUFFICES ASSUME Bad # {} PROVE FALSE
  BY DEF AnyOrder
<1>0. g \in [SUBSET S -> Int] /\ Summed(g, f, S)
  BY DEF IsTable
<1>1. \A s \in Bad : IsFiniteSet(s)
  BY FS_Subset
<1>2. PICK s \in Bad : \A t \in Bad : ~ (Cardinality(t) < Cardinality(s))
  <2> HIDE DEF Bad
  <2>1. QED
    BY <1>1, SmallestSet
<1>3. PICK x \in s : g[s] # f[x] + g[s \ {x}]
  OBVIOUS
<1> DEFINE c == Some(s)
           d == s \ {c}
           y == s \ {x}
<1>4. s \in SUBSET S /\ s # {} /\ IsFiniteSet(s)
  BY <1>1, <1>3
<1>5. c \in s /\ g[s] = f[c] + g[d]
  BY <1>0, <1>4, SummedAt
<1>6. c # x
  BY <1>3, <1>5
<1>7. d \notin Bad /\ y \notin Bad
  BY <1>1, <1>2, <1>3, <1>5, RemoveOne
<1>8. x \in d /\ c \in y /\ d \in SUBSET S /\ y \in SUBSET S /\ d \ {x} = y \ {c} /\ y \ {c} \in SUBSET S
  BY <1>3, <1>4, <1>5, <1>6
<1>9. g[d] = f[x] + g[d \ {x}] /\ g[y] = f[c] + g[y \ {c}]
  BY <1>7, <1>8
<1>10. f[x] \in Int /\ f[c] \in Int /\ g[y \ {c}] \in Int
  BY <1>0, <1>3, <1>4, <1>5, <1>8
<1> HIDE DEF c, d, y
<1>11. g[d] = f[x] + g[y \ {c}]
  BY <1>8, <1>9
<1>12. g[s] = f[c] + (f[x] + g[y \ {c}])
  BY <1>5, <1>11
<1>13. f[c] + (f[x] + g[y \ {c}]) = f[x] + (f[c] + g[y \ {c}])
  BY <1>10
<1>14. QED
  BY <1>3, <1>9, <1>12, <1>13 DEF y

LEMMA SumTakeOne ==
  ASSUME NEW S, IsFiniteSet(S), NEW f \in [S -> Int]
  PROVE  /\ SumFunction(f) \in Int
         /\ S = {} => SumFunction(f) = 0
         /\ \A x \in S : SumFunction(f) = f[x] + SumFunction(Part(f, S \ {x}))
<1>1. PICK g : IsTable(g, f, S)
  BY SumTable
<1>2. AnyOrder(g, f, S)
  BY <1>1, SumAnyOrder
<1>3. g \in [SUBSET S -> Int] /\ Summed(g, f, S) /\ \A D \in SUBSET S : SumFunction(Part(f, D)) = g[D]
  BY <1>1 DEF IsTable
<1>4. f = Part(f, S) /\ S \in SUBSET S
  BY DEF Part
<1>5. SumFunction(f) = g[S]
  BY <1>3, <1>4
<1>6. S = {} => g[S] = 0
  BY <1>3, <1>4, SummedAt
<1>7. ASSUME NEW x \in S PROVE g[S] = f[x] + SumFunction(Part(f, S \ {x}))
  <2>1. g[S] = f[x] + g[S \ {x}]
    BY <1>2, <1>4 DEF AnyOrder
  <2>2. S \ {x} \in SUBSET S
    OBVIOUS
  <2>3. QED
    BY <1>3, <2>1, <2>2
<1>8. QED
  BY <1>3, <1>4, <1>5, <1>6, <1>7

(* A sum over rows, taken source by source. *)
OfSource(R, src, s) == {i \in R : src[i] = s}
SourcesOf(R, src) == {src[i] : i \in R}
BySource(R, src, w) == [s \in SourcesOf(R, src) |-> Cardinality(OfSource(R, src, s)) * w[s]]
ByRow(R, src, w) == [i \in R |-> w[src[i]]]

LEMMA SourcesFinite ==
  ASSUME NEW R, IsFiniteSet(R), NEW src
  PROVE  IsFiniteSet(SourcesOf(R, src))
<1> DEFINE f == [i \in R |-> src[i]]
<1>1. f \in Surjection(R, SourcesOf(R, src))
  BY DEF Surjection, SourcesOf
<1> HIDE DEF f
<1>2. QED
  BY <1>1, FS_Surjection

LEMMA SumsTyped ==
  ASSUME NEW R, IsFiniteSet(R), NEW src, SourcesOf(R, src) \subseteq Sources, NEW w \in [Sources -> Int]
  PROVE  /\ BySource(R, src, w) \in [SourcesOf(R, src) -> Int] /\ IsFiniteSet(SourcesOf(R, src))
         /\ ByRow(R, src, w) \in [R -> Int]
         /\ \A s : IsFiniteSet(OfSource(R, src, s)) /\ Cardinality(OfSource(R, src, s)) \in Nat
<1>1. \A s : IsFiniteSet(OfSource(R, src, s)) /\ Cardinality(OfSource(R, src, s)) \in Nat
  <2> SUFFICES ASSUME NEW s
               PROVE  IsFiniteSet(OfSource(R, src, s)) /\ Cardinality(OfSource(R, src, s)) \in Nat
    OBVIOUS
  <2>1. OfSource(R, src, s) \in SUBSET R
    BY DEF OfSource
  <2>2. QED
    BY <2>1, FS_Subset, FS_CardinalityType
<1>2. \A s \in SourcesOf(R, src) : Cardinality(OfSource(R, src, s)) * w[s] \in Int
  BY <1>1
<1>3. ByRow(R, src, w) \in [R -> Int]
  BY DEF ByRow, SourcesOf
<1>4. QED
  BY <1>1, <1>2, <1>3, SourcesFinite DEF BySource

LEMMA TimesOneMore ==
  ASSUME NEW c \in Int, NEW w \in Int
  PROVE  (c + 1) * w = c * w + w /\ c * w \in Int
  OBVIOUS

LEMMA TakeRow ==
  ASSUME NEW R, IsFiniteSet(R), NEW src, SourcesOf(R, src) \subseteq Sources, NEW w \in [Sources -> Int],
         NEW i \in R, NEW Q, Q = R \ {i},
         SumFunction(BySource(Q, src, w)) = SumFunction(ByRow(Q, src, w))
  PROVE  SumFunction(BySource(R, src, w)) = SumFunction(ByRow(R, src, w))
<1> DEFINE z == src[i]
           wz == w[z]
           cr == Cardinality(OfSource(R, src, z))
           cq == Cardinality(OfSource(Q, src, z))
<1>1. z \in SourcesOf(R, src) /\ wz \in Int
  BY DEF SourcesOf
<1>2. IsFiniteSet(Q) /\ SourcesOf(Q, src) \subseteq SourcesOf(R, src)
  BY FS_RemoveElement DEF SourcesOf
<1>3. /\ BySource(R, src, w) \in [SourcesOf(R, src) -> Int] /\ IsFiniteSet(SourcesOf(R, src))
      /\ ByRow(R, src, w) \in [R -> Int]
  BY SumsTyped
<1>4. /\ BySource(Q, src, w) \in [SourcesOf(Q, src) -> Int] /\ IsFiniteSet(SourcesOf(Q, src))
      /\ ByRow(Q, src, w) \in [Q -> Int]
      /\ IsFiniteSet(OfSource(Q, src, z)) /\ cq \in Nat
  BY <1>2, SumsTyped
<1>5. cr = cq + 1
  <2>1. OfSource(R, src, z) = OfSource(Q, src, z) \cup {i} /\ i \notin OfSource(Q, src, z)
    BY DEF OfSource
  <2>2. QED
    BY <1>4, <2>1, FS_AddElement
<1>6. SumFunction(ByRow(R, src, w)) = wz + SumFunction(ByRow(Q, src, w))
  <2>1. SumFunction(ByRow(R, src, w)) = ByRow(R, src, w)[i] + SumFunction(Part(ByRow(R, src, w), R \ {i}))
    BY <1>3, SumTakeOne
  <2>2. ByRow(R, src, w)[i] = wz /\ Part(ByRow(R, src, w), R \ {i}) = ByRow(Q, src, w)
    BY DEF ByRow, Part
  <2>3. QED
    BY <2>1, <2>2
<1> DEFINE rest == Part(BySource(R, src, w), SourcesOf(R, src) \ {z})
<1>7. SumFunction(BySource(R, src, w)) = cr * wz + SumFunction(rest)
  <2>1. SumFunction(BySource(R, src, w)) = BySource(R, src, w)[z] + SumFunction(rest)
    BY <1>1, <1>3, SumTakeOne
  <2>2. BySource(R, src, w)[z] = cr * wz
    BY <1>1 DEF BySource
  <2>3. QED
    BY <2>1, <2>2
<1>8. SumFunction(BySource(Q, src, w)) \in Int
  BY <1>4, SumTakeOne
<1>9. \A s \in SourcesOf(R, src) \ {z} : OfSource(R, src, s) = OfSource(Q, src, s)
  BY DEF OfSource
<1>10. SourcesOf(R, src) \ {z} = SourcesOf(Q, src) \ {z}
  BY DEF SourcesOf
<1>11. rest = Part(BySource(Q, src, w), SourcesOf(Q, src) \ {z})
  BY <1>2, <1>9, <1>10 DEF Part, BySource
<1>12. SumFunction(BySource(R, src, w)) = wz + SumFunction(BySource(Q, src, w))
  <2>1. CASE z \in SourcesOf(Q, src)
    <3>1. SumFunction(BySource(Q, src, w)) = BySource(Q, src, w)[z] + SumFunction(rest)
      <4> DEFINE q == BySource(Q, src, w)
      <4>1. q \in [SourcesOf(Q, src) -> Int] /\ rest = Part(q, SourcesOf(Q, src) \ {z})
        BY <1>4, <1>11
      <4> HIDE DEF q, rest, z
      <4>2. SumFunction(q) = q[z] + SumFunction(Part(q, SourcesOf(Q, src) \ {z}))
        BY <1>4, <2>1, <4>1, SumTakeOne
      <4>3. SumFunction(q) = q[z] + SumFunction(rest)
        BY <4>1, <4>2
      <4>4. QED
        BY <4>3 DEF q
    <3>2. BySource(Q, src, w)[z] = cq * wz
      BY <2>1 DEF BySource
    <3>3. rest \in [SourcesOf(R, src) \ {z} -> Int] /\ IsFiniteSet(SourcesOf(R, src) \ {z})
      BY <1>3, FS_RemoveElement DEF Part
    <3>4. SumFunction(rest) \in Int
      BY <3>3, SumTakeOne
    <3> DEFINE a == SumFunction(BySource(R, src, w))
               b == SumFunction(BySource(Q, src, w))
               c == SumFunction(rest)
    <3>5. a = cr * wz + c /\ b = cq * wz + c
      BY <1>7, <3>1, <3>2
    <3> HIDE DEF a, b, c, cr, cq, wz
    <3>0. cq \in Int /\ wz \in Int
      BY <1>1, <1>4
    <3>6. (cq + 1) * wz = cq * wz + wz /\ cq * wz \in Int
      BY <3>0, TimesOneMore
    <3>7. b - c \in Int /\ b - c = cq * wz /\ b \in Int /\ c \in Int
      BY <3>4, <3>5, <3>6 DEF c
    <3>8. a = wz + b
      BY <1>5, <3>0, <3>5, <3>6, <3>7
    <3>9. QED
      BY <3>8 DEF a, b
  <2>2. CASE z \notin SourcesOf(Q, src)
    <3>1. OfSource(Q, src, z) = {}
      BY <2>2 DEF OfSource, SourcesOf
    <3>2. cq = 0
      BY <3>1, FS_EmptySet
    <3>3. cr * wz = wz
      <4> HIDE DEF cr, cq, wz
      <4>1. QED
        BY <1>1, <1>5, <3>2
    <3>4. SourcesOf(Q, src) \ {z} = SourcesOf(Q, src)
      BY <2>2
    <3>5. Part(BySource(Q, src, w), SourcesOf(Q, src)) = BySource(Q, src, w)
      BY DEF Part, BySource
    <3>6. rest = BySource(Q, src, w)
      BY <1>11, <3>4, <3>5
    <3>7. QED
      BY <1>7, <3>3, <3>6
  <2>3. QED
    BY <2>1, <2>2
<1>13. QED
  BY <1>6, <1>12

LEMMA SumBySource ==
  ASSUME NEW R, IsFiniteSet(R), NEW src, SourcesOf(R, src) \subseteq Sources, NEW w \in [Sources -> Int]
  PROVE  SumFunction(BySource(R, src, w)) = SumFunction(ByRow(R, src, w))
<1> DEFINE Bad == {Q \in SUBSET R : SumFunction(BySource(Q, src, w)) # SumFunction(ByRow(Q, src, w))}
<1> SUFFICES ASSUME Bad # {} PROVE FALSE
  OBVIOUS
<1>1. \A Q \in Bad : IsFiniteSet(Q)
  BY FS_Subset
<1>2. PICK Q \in Bad : \A t \in Bad : ~ (Cardinality(t) < Cardinality(Q))
  <2> HIDE DEF Bad
  <2>1. QED
    BY <1>1, SmallestSet
<1>3. Q \in SUBSET R /\ IsFiniteSet(Q) /\ SourcesOf(Q, src) \subseteq Sources
  BY <1>1 DEF SourcesOf
<1>4. CASE Q = {}
  <2>1. SourcesOf(Q, src) = {}
    BY <1>4 DEF SourcesOf
  <2>2. BySource(Q, src, w) \in [{} -> Int] /\ ByRow(Q, src, w) \in [{} -> Int]
    BY <1>3, <1>4, <2>1, SumsTyped
  <2>3. SumFunction(BySource(Q, src, w)) = 0 /\ SumFunction(ByRow(Q, src, w)) = 0
    BY <2>2, FS_EmptySet, SumTakeOne
  <2>4. QED
    BY <2>3
<1>5. CASE Q # {}
  <2>1. PICK i \in Q : TRUE
    BY <1>5
  <2> DEFINE P == Q \ {i}
  <2>2. P \notin Bad /\ P \in SUBSET R
    BY <1>2, <1>3, RemoveOne
  <2>3. SumFunction(BySource(P, src, w)) = SumFunction(ByRow(P, src, w))
    BY <2>2
  <2>4. SumFunction(BySource(Q, src, w)) = SumFunction(ByRow(Q, src, w))
    BY <1>3, <2>3, TakeRow
  <2>5. QED
    BY <2>4
<1>6. QED
  BY <1>4, <1>5

----------------------------------------------------------------------------
(* Pages.  A finite set of numbers has a largest one; what is on a page is   *)
(* the newest of what the walk has not read, and less than a page only if    *)
(* that is all of it.                                                        *)

LEMMA MaxOf ==
  ASSUME NEW T \in SUBSET Nat, T # {}, IsFiniteSet(T)
  PROVE  Max(T) \in T /\ \A y \in T : y <= Max(T)
<1> DEFINE Has(t) == \E x \in t : \A y \in t : y <= x
           Bad == {t \in SUBSET T : t # {} /\ ~ Has(t)}
<1>1. Bad = {}
  <2> SUFFICES ASSUME Bad # {} PROVE FALSE
    OBVIOUS
  <2>1. \A t \in Bad : IsFiniteSet(t)
    BY FS_Subset
  <2>2. PICK s \in Bad : \A t \in Bad : ~ (Cardinality(t) < Cardinality(s))
    <3> HIDE DEF Bad
    <3>1. QED
      BY <2>1, SmallestSet
  <2>3. PICK x \in s : TRUE
    OBVIOUS
  <2> DEFINE r == s \ {x}
  <2>4. r \notin Bad /\ r \in SUBSET T /\ x \in Nat
    BY <2>1, <2>2, RemoveOne
  <2>5. CASE r = {}
    <3>1. \A y \in s : y <= x
      BY <2>4, <2>5
    <3>2. QED
      BY <3>1
  <2>6. CASE r # {}
    <3>1. PICK m \in r : \A y \in r : y <= m
      BY <2>4, <2>6
    <3>2. m \in Nat
      BY <2>4
    <3>3. CASE x <= m
      <4>1. \A y \in s : y <= m
        BY <3>1, <3>3
      <4>2. QED
        BY <4>1
    <3>4. CASE ~ (x <= m)
      <4>1. \A y \in s : y <= x
        BY <2>4, <3>1, <3>2, <3>4
      <4>2. QED
        BY <4>1
    <3>5. QED
      BY <3>3, <3>4
  <2>7. QED
    BY <2>5, <2>6
<1>2. \E x \in T : \A y \in T : y <= x
  BY <1>1
<1>3. QED
  BY <1>2 DEF Max

LEMMA MinOf ==
  ASSUME NEW T \in SUBSET Nat, T # {}
  PROVE  Min(T) \in T /\ \A y \in T : Min(T) <= y
<1>1. \E x \in T : \A y \in T : x <= y
  BY SmallestOf
<1>2. QED
  BY <1>1 DEF Min

LEMMA Images ==
  ASSUME NEW R, IsFiniteSet(R), NEW F
  PROVE  IsFiniteSet({F[i] : i \in R})
<1> DEFINE f == [i \in R |-> F[i]]
<1>1. f \in Surjection(R, {F[i] : i \in R})
  BY DEF Surjection
<1> HIDE DEF f
<1>2. QED
  BY <1>1, FS_Surjection

Sequenced == ledger \in Seq(Attestation)

Unread(a, cursor) == {i \in RowsOf(a) : cursor = NULL \/ i < cursor}

LEMMA RowsFinite ==
  ASSUME Sequenced, NEW a
  PROVE  /\ RowsOf(a) \in SUBSET Nat /\ IsFiniteSet(RowsOf(a)) /\ RowsOf(a) \in SUBSET DOMAIN ledger
         /\ \A cursor : /\ Unread(a, cursor) \in SUBSET RowsOf(a) /\ Unread(a, cursor) \in SUBSET Nat
                        /\ IsFiniteSet(Unread(a, cursor))
<1>1. DOMAIN ledger = 1..Len(ledger) /\ Len(ledger) \in Nat
  BY DEF Sequenced
<1>2. IsFiniteSet(DOMAIN ledger)
  BY <1>1, FS_Interval
<1>3. RowsOf(a) \in SUBSET DOMAIN ledger
  BY DEF RowsOf
<1>4. RowsOf(a) \in SUBSET Nat
  BY <1>1, <1>3
<1>5. IsFiniteSet(RowsOf(a))
  BY <1>2, <1>3, FS_Subset
<1>6. \A cursor : Unread(a, cursor) \in SUBSET RowsOf(a)
  BY DEF Unread
<1>7. QED
  BY <1>3, <1>4, <1>5, <1>6, FS_Subset

OnPage(P, R, n) ==      \* P is a page of at most n of the rows in R
  /\ P \in SUBSET R /\ IsFiniteSet(P) /\ Cardinality(P) \in Nat /\ Cardinality(P) <= n
  /\ \A i \in R : \A j \in P : j < i => i \in P
  /\ Cardinality(P) # n => P = R

Newest(R, n) == {i \in R : Cardinality({j \in R : i < j}) < n}

LEMMA NewestRows ==
  ASSUME NEW R \in SUBSET Nat, IsFiniteSet(R), NEW n \in Nat \ {0}, NEW P, P = Newest(R, n)
  PROVE  OnPage(P, R, n)
<1> DEFINE Above(i) == {j \in R : i < j}
<1>1. \A i : Above(i) \in SUBSET R /\ IsFiniteSet(Above(i)) /\ Cardinality(Above(i)) \in Nat
  <2>1. \A i : Above(i) \in SUBSET R
    OBVIOUS
  <2>2. QED
    BY <2>1, FS_Subset, FS_CardinalityType
<1>2. P \in SUBSET R /\ P \in SUBSET Nat /\ IsFiniteSet(P) /\ Cardinality(P) \in Nat
  BY FS_Subset, FS_CardinalityType DEF Newest
<1>3. \A i : i \in P <=> i \in R /\ Cardinality(Above(i)) < n
  BY DEF Newest
<1>4. ASSUME NEW i \in R, NEW j \in P, j < i PROVE i \in P
  <2>1. Above(i) \subseteq Above(j)
    <3>1. j \in Nat /\ i \in Nat /\ j < i
      BY <1>2, <1>4
    <3>2. \A y \in R : y \in Nat /\ (i < y => j < y)
      BY <3>1
    <3>3. QED
      BY <3>2
  <2> HIDE DEF Above
  <2>2. Cardinality(Above(i)) <= Cardinality(Above(j))
    BY <1>1, <2>1, FS_Subset
  <2>3. QED
    BY <1>1, <1>3, <2>2
<1>5. Cardinality(P) <= n
  <2>1. CASE P = {}
    <3>1. Cardinality(P) = 0
      BY <2>1, FS_EmptySet
    <3>2. QED
      BY <3>1
  <2>2. CASE P # {}
    <3>1. PICK m \in P : \A y \in P : m <= y
      BY <1>2, <2>2, SmallestOf
    <3>0. ASSUME NEW y \in P, y # m PROVE y \in Above(m)
      <4>1. y \in R /\ y \in Nat /\ m \in Nat /\ m <= y
        BY <1>2, <3>1
      <4>2. m < y
        BY <3>0, <4>1
      <4>3. QED
        BY <4>1, <4>2
    <3>2. P \subseteq Above(m) \cup {m}
      BY <3>0
    <3>3. m \notin Above(m)
      BY <1>2
    <3>4. Cardinality(Above(m)) < n
      BY <1>3
    <3> HIDE DEF Above
    <3>5. IsFiniteSet(Above(m) \cup {m}) /\ Cardinality(Above(m) \cup {m}) = Cardinality(Above(m)) + 1
      BY <1>1, <3>3, FS_AddElement
    <3>6. Cardinality(P) <= Cardinality(Above(m) \cup {m})
      BY <3>2, <3>5, FS_Subset
    <3>7. QED
      BY <1>1, <1>2, <3>4, <3>5, <3>6
  <2>3. QED
    BY <2>1, <2>2
<1>6. ASSUME Cardinality(P) # n PROVE P = R
  <2> SUFFICES ASSUME R \ P # {} PROVE FALSE
    BY <1>2
  <2>1. R \ P \in SUBSET Nat /\ IsFiniteSet(R \ P)
    BY FS_Subset
  <2>2. PICK m \in R \ P : \A y \in R \ P : y <= m
    BY <2>1, MaxOf
  <2>3. Above(m) \subseteq P
    BY <2>1, <2>2
  <2> HIDE DEF Above
  <2>4. Cardinality(Above(m)) <= Cardinality(P)
    BY <1>2, <2>3, FS_Subset
  <2>5. Cardinality(Above(m)) < n
    BY <1>1, <1>2, <1>5, <1>6, <2>4
  <2>6. QED
    BY <1>3, <2>5
<1>7. QED
  BY <1>2, <1>4, <1>5, <1>6 DEF OnPage

LEMMA PageIsNewest ==
  ASSUME ScoringAssumption, Sequenced, NEW a, NEW cursor, NEW P, P = Page(a, cursor, PageSize)
  PROVE  OnPage(P, Unread(a, cursor), PageSize)
<1>1. Unread(a, cursor) \in SUBSET Nat /\ IsFiniteSet(Unread(a, cursor))
  BY RowsFinite
<1>2. PageSize \in Nat \ {0}
  BY DEF ScoringAssumption
<1>3. P = Newest(Unread(a, cursor), PageSize)
  BY DEF Page, Unread, Newest
<1> HIDE DEF Unread
<1>4. QED
  BY <1>1, <1>2, <1>3, NewestRows

(* The cursor is the oldest row of a full page: what the page left is below it. *)
LEMMA CursorIsOldest ==
  ASSUME ScoringAssumption, NEW R \in SUBSET Nat, NEW P, OnPage(P, R, PageSize),
         NEW c, c = NextCursor(P, PageSize)
  PROVE  /\ c \in Nat \cup {NULL}
         /\ c = NULL => P = R
         /\ c # NULL => c \in P /\ P = {i \in R : i >= c} /\ R \ P = {i \in R : i < c}
<1>1. PageSize \in Nat \ {0} /\ NULL \notin Nat
  BY DEF ScoringAssumption
<1>2. P \in SUBSET R /\ P \in SUBSET Nat /\ Cardinality(P) \in Nat
  BY DEF OnPage
<1>3. CASE Cardinality(P) = PageSize
  <2>1. P # {}
    BY <1>1, <1>3, FS_EmptySet
  <2>2. c = Min(P)
    BY <1>3 DEF NextCursor
  <2>3. c \in P /\ \A y \in P : c <= y
    BY <1>2, <2>1, <2>2, MinOf
  <2>4. c \in Nat /\ c # NULL
    BY <1>1, <1>2, <2>3
  <2>5. \A i \in R : i >= c => i \in P
    BY <1>2, <2>3, <2>4 DEF OnPage
  <2>6. P = {i \in R : i >= c}
    BY <1>2, <2>3, <2>4, <2>5
  <2>7. \A i \in R : i \in Nat /\ (i < c <=> ~ (i >= c))
    BY <2>4
  <2>9. R \ P = {i \in R : i < c}
    BY <2>6, <2>7
  <2>8. QED
    BY <2>3, <2>4, <2>6, <2>9
<1>4. CASE Cardinality(P) # PageSize
  BY <1>4 DEF NextCursor, OnPage
<1>5. QED
  BY <1>3, <1>4

----------------------------------------------------------------------------
(* Tallies. *)

RowsFrom(P, s) == {i \in P : ledger[i].source = s}
TimesFrom(P, s) == {ledger[i].time : i \in RowsFrom(P, s)}
Named(P) == {ledger[i].source : i \in P}
LatestIn(t, s) == IF s \in DOMAIN t THEN {t[s].latest} ELSE {}
CountIn(t, s) == IF s \in DOMAIN t THEN t[s].count ELSE 0
Counted == [count : Nat, latest : Nat]

LEMMA RowIs ==
  ASSUME Sequenced, NEW i \in DOMAIN ledger
  PROVE  ledger[i].agent \in Agents /\ ledger[i].source \in Sources /\ ledger[i].time \in Nat
<1>1. ledger[i] \in Attestation
  BY DEF Sequenced
<1>2. QED
  BY <1>1 DEF Attestation

LEMMA Sourced ==
  ASSUME Sequenced, NEW P \in SUBSET DOMAIN ledger, IsFiniteSet(P)
  PROVE  /\ Named(P) \subseteq Sources
         /\ \A s : /\ RowsFrom(P, s) \in SUBSET P /\ IsFiniteSet(RowsFrom(P, s))
                   /\ Cardinality(RowsFrom(P, s)) \in Nat
                   /\ TimesFrom(P, s) \in SUBSET Nat /\ IsFiniteSet(TimesFrom(P, s))
                   /\ s \in Named(P) => TimesFrom(P, s) # {}
<1>1. Named(P) \subseteq Sources
  BY RowIs DEF Named
<1> SUFFICES ASSUME NEW s
             PROVE  /\ RowsFrom(P, s) \in SUBSET P /\ IsFiniteSet(RowsFrom(P, s))
                    /\ Cardinality(RowsFrom(P, s)) \in Nat
                    /\ TimesFrom(P, s) \in SUBSET Nat /\ IsFiniteSet(TimesFrom(P, s))
                    /\ s \in Named(P) => TimesFrom(P, s) # {}
  BY <1>1
<1>2. RowsFrom(P, s) \in SUBSET P
  BY DEF RowsFrom
<1>3. IsFiniteSet(RowsFrom(P, s)) /\ Cardinality(RowsFrom(P, s)) \in Nat
  BY <1>2, FS_Subset, FS_CardinalityType
<1>4. TimesFrom(P, s) \in SUBSET Nat
  BY <1>2, RowIs DEF TimesFrom
<1>5. IsFiniteSet(TimesFrom(P, s))
  <2> DEFINE R == RowsFrom(P, s)
             F == [i \in R |-> ledger[i].time]
  <2>1. TimesFrom(P, s) = {F[i] : i \in R}
    BY DEF TimesFrom
  <2> HIDE DEF R, F
  <2>2. IsFiniteSet({F[i] : i \in R})
    BY <1>3, Images DEF R
  <2>3. QED
    BY <2>1, <2>2
<1>6. s \in Named(P) => TimesFrom(P, s) # {}
  BY DEF Named, RowsFrom, TimesFrom
<1>7. QED
  BY <1>2, <1>3, <1>4, <1>5, <1>6

LEMMA TallyAt ==
  ASSUME Sequenced, NEW t \in Tallies, NEW P \in SUBSET DOMAIN ledger, IsFiniteSet(P),
         NEW u, u = Tally(t, P)
  PROVE  /\ u \in Tallies /\ DOMAIN u = DOMAIN t \cup Named(P)
         /\ \A s \in DOMAIN u :
              /\ u[s].count = Cardinality(RowsFrom(P, s)) + CountIn(t, s)
              /\ u[s].latest \in TimesFrom(P, s) \cup LatestIn(t, s)
              /\ \A y \in TimesFrom(P, s) \cup LatestIn(t, s) : y <= u[s].latest
<1> DEFINE D == DOMAIN t \cup Named(P)
           times(s) == TimesFrom(P, s) \cup LatestIn(t, s)
           n(s) == Cardinality(RowsFrom(P, s)) + CountIn(t, s)
<1>1. DOMAIN t \subseteq Sources /\ t \in [DOMAIN t -> Counted]
  BY DEF Tallies, Counted
<1>0. IsFiniteSet(DOMAIN t)
  BY DEF Tallies
<1>2. \A s \in DOMAIN t : t[s].count \in Nat /\ t[s].latest \in Nat
  BY <1>1 DEF Counted
<1>3. D \in SUBSET Sources /\ IsFiniteSet(D)
  <2>1. IsFiniteSet(Named(P))
    <3> DEFINE F == [i \in P |-> ledger[i].source]
    <3>1. Named(P) = {F[i] : i \in P}
      BY DEF Named
    <3> HIDE DEF F
    <3>2. QED
      BY <3>1, Images
  <2>2. QED
    BY <1>0, <1>1, <2>1, Sourced, FS_Union
<1>4. u = [s \in D |-> [count |-> n(s), latest |-> Max(times(s))]]
  BY DEF Tally, RowsFrom, TimesFrom, Named, LatestIn, CountIn
<1>5. ASSUME NEW s \in D
      PROVE  /\ n(s) \in Nat
             /\ Max(times(s)) \in times(s) /\ Max(times(s)) \in Nat /\ \A y \in times(s) : y <= Max(times(s))
  <2>1. n(s) \in Nat
    BY <1>2, Sourced DEF CountIn
  <2>2. LatestIn(t, s) \in SUBSET Nat /\ IsFiniteSet(LatestIn(t, s))
    <3>1. CASE s \in DOMAIN t
      <4>1. IsFiniteSet({t[s].latest})
        BY FS_Singleton
      <4>2. QED
        BY <1>2, <3>1, <4>1 DEF LatestIn
    <3>2. CASE s \notin DOMAIN t
      BY <3>2, FS_EmptySet DEF LatestIn
    <3>3. QED
      BY <3>1, <3>2
  <2>3. TimesFrom(P, s) \in SUBSET Nat /\ IsFiniteSet(TimesFrom(P, s))
    BY Sourced
  <2>4. times(s) \in SUBSET Nat /\ IsFiniteSet(times(s))
    BY <2>2, <2>3, FS_Union
  <2>5. times(s) # {}
    BY Sourced DEF LatestIn
  <2> HIDE DEF times
  <2>6. Max(times(s)) \in times(s) /\ \A y \in times(s) : y <= Max(times(s))
    BY <2>4, <2>5, MaxOf
  <2>7. QED
    BY <2>1, <2>4, <2>6
<1> HIDE DEF n, times, D
<1>6. DOMAIN u = D /\ \A s \in D : u[s] = [count |-> n(s), latest |-> Max(times(s))]
  BY <1>4
<1>7. u \in [D -> Counted]
  BY <1>4, <1>5 DEF Counted
<1>8. u \in Tallies
  BY <1>3, <1>7 DEF Tallies, Counted
<1>9. \A s \in DOMAIN u : u[s].count = n(s) /\ u[s].latest = Max(times(s))
  BY <1>6
<1>10. \A s \in DOMAIN u : u[s].latest \in times(s) /\ \A y \in times(s) : y <= u[s].latest
  BY <1>5, <1>6, <1>9
<1>11. QED
  BY <1>6, <1>8, <1>9, <1>10 DEF n, times, D

(* A tally that says of the rows in P how many there are from each source, and *)
(* when the newest was stored.                                                 *)
Tallied(t, P) ==
  /\ DOMAIN t = Named(P)
  /\ \A s \in DOMAIN t : /\ t[s].count = Cardinality(RowsFrom(P, s))
                         /\ t[s].latest \in TimesFrom(P, s)
                         /\ \A i \in RowsFrom(P, s) : ledger[i].time <= t[s].latest

LEMMA TallyAddsPage ==
  ASSUME Sequenced, NEW t \in Tallies,
         NEW P \in SUBSET DOMAIN ledger, IsFiniteSet(P), Tallied(t, P),
         NEW Q \in SUBSET DOMAIN ledger, IsFiniteSet(Q), P \cap Q = {},
         NEW u, u = Tally(t, Q)
  PROVE  Tallied(u, P \cup Q)
<1>1. DOMAIN u = Named(P \cup Q)
  <2>1. DOMAIN u = DOMAIN t \cup Named(Q)
    BY TallyAt
  <2>2. QED
    BY <2>1 DEF Tallied, Named
<1>2. ASSUME NEW s \in DOMAIN u
      PROVE  /\ u[s].count = Cardinality(RowsFrom(P \cup Q, s))
             /\ u[s].latest \in TimesFrom(P \cup Q, s)
             /\ \A i \in RowsFrom(P \cup Q, s) : ledger[i].time <= u[s].latest
  <2>1. /\ u[s].count = Cardinality(RowsFrom(Q, s)) + CountIn(t, s)
        /\ u[s].latest \in TimesFrom(Q, s) \cup LatestIn(t, s)
        /\ \A y \in TimesFrom(Q, s) \cup LatestIn(t, s) : y <= u[s].latest
    BY TallyAt
  <2>2. RowsFrom(P \cup Q, s) = RowsFrom(P, s) \cup RowsFrom(Q, s) /\ RowsFrom(P, s) \cap RowsFrom(Q, s) = {}
    BY DEF RowsFrom
  <2>3. /\ IsFiniteSet(RowsFrom(P, s)) /\ Cardinality(RowsFrom(P, s)) \in Nat
        /\ IsFiniteSet(RowsFrom(Q, s)) /\ Cardinality(RowsFrom(Q, s)) \in Nat
    BY Sourced
  <2>4. Cardinality(RowsFrom(P \cup Q, s)) = Cardinality(RowsFrom(P, s)) + Cardinality(RowsFrom(Q, s))
    <3>1. Cardinality(RowsFrom(P, s) \cap RowsFrom(Q, s)) = 0
      BY <2>2, FS_EmptySet
    <3>2. Cardinality(RowsFrom(P, s) \cup RowsFrom(Q, s))
            = Cardinality(RowsFrom(P, s)) + Cardinality(RowsFrom(Q, s))
              - Cardinality(RowsFrom(P, s) \cap RowsFrom(Q, s))
      BY <2>3, FS_Union
    <3> DEFINE p == Cardinality(RowsFrom(P, s))
               q == Cardinality(RowsFrom(Q, s))
    <3>3. p \in Nat /\ q \in Nat
      BY <2>3
    <3>4. Cardinality(RowsFrom(P, s) \cup RowsFrom(Q, s)) = p + q - 0
      BY <3>1, <3>2
    <3> HIDE DEF p, q
    <3>5. p + q - 0 = p + q
      BY <3>3
    <3>6. QED
      BY <2>2, <3>4, <3>5 DEF p, q
  <2>5. CASE s \in DOMAIN t
    <3>1. /\ t[s].count = Cardinality(RowsFrom(P, s)) /\ t[s].latest \in TimesFrom(P, s)
          /\ \A i \in RowsFrom(P, s) : ledger[i].time <= t[s].latest
      BY <2>5 DEF Tallied
    <3>2. CountIn(t, s) = t[s].count /\ LatestIn(t, s) = {t[s].latest}
      BY <2>5 DEF CountIn, LatestIn
    <3>3. u[s].latest \in TimesFrom(P \cup Q, s)
      BY <2>1, <2>2, <3>1, <3>2 DEF TimesFrom
    <3>4. t[s].latest <= u[s].latest /\ t[s].latest \in Nat /\ u[s].latest \in Nat
      <4>1. TimesFrom(P \cup Q, s) \in SUBSET Nat /\ TimesFrom(P, s) \in SUBSET Nat
        <5>1. IsFiniteSet(P \cup Q) /\ P \cup Q \in SUBSET DOMAIN ledger
          BY FS_Union
        <5>2. QED
          BY <5>1, Sourced
      <4>2. QED
        BY <2>1, <3>1, <3>2, <3>3, <4>1
    <3>5. \A i \in RowsFrom(P, s) : ledger[i].time \in Nat
      BY RowIs DEF RowsFrom
    <3>6. \A i \in RowsFrom(P, s) : ledger[i].time <= u[s].latest
      BY <3>1, <3>4, <3>5
    <3>7. \A i \in RowsFrom(Q, s) : ledger[i].time <= u[s].latest
      BY <2>1 DEF TimesFrom
    <3>8. \A i \in RowsFrom(P \cup Q, s) : ledger[i].time <= u[s].latest
      BY <2>2, <3>6, <3>7
    <3>9. u[s].count = Cardinality(RowsFrom(Q, s)) + Cardinality(RowsFrom(P, s))
      BY <2>1, <3>1, <3>2
    <3> DEFINE p == Cardinality(RowsFrom(P, s))
               q == Cardinality(RowsFrom(Q, s))
    <3>10. p \in Nat /\ q \in Nat
      BY <2>3
    <3> HIDE DEF p, q
    <3>11. q + p = p + q
      BY <3>10
    <3>12. u[s].count = Cardinality(RowsFrom(P \cup Q, s))
      BY <2>4, <3>9, <3>11 DEF p, q
    <3>13. QED
      BY <3>3, <3>8, <3>12
  <2>6. CASE s \notin DOMAIN t
    <3>1. RowsFrom(P, s) = {}
      BY <2>6 DEF Tallied, Named, RowsFrom
    <3>2. CountIn(t, s) = 0 /\ LatestIn(t, s) = {}
      BY <2>6 DEF CountIn, LatestIn
    <3>3. RowsFrom(P \cup Q, s) = RowsFrom(Q, s)
      BY <2>2, <3>1
    <3>4. u[s].count = Cardinality(RowsFrom(P \cup Q, s))
      <4>1. Cardinality(RowsFrom(Q, s)) + 0 = Cardinality(RowsFrom(Q, s))
        BY <2>3
      <4>2. QED
        BY <2>1, <3>2, <3>3, <4>1
    <3>5. u[s].latest \in TimesFrom(P \cup Q, s)
      BY <2>1, <3>2, <3>3 DEF TimesFrom
    <3>6. \A i \in RowsFrom(P \cup Q, s) : ledger[i].time <= u[s].latest
      BY <2>1, <3>3 DEF TimesFrom
    <3>7. QED
      BY <3>4, <3>5, <3>6
  <2>7. QED
    BY <2>5, <2>6
<1>3. QED
  BY <1>1, <1>2 DEF Tallied

LEMMA TableIs ==
  ASSUME ScoringAssumption, NEW table \in Tables
  PROVE  \A s \in DOMAIN table : table[s] \in Weights /\ (table[s] # NaN => table[s] \in Int)
<1>1. PICK S \in SUBSET Sources : table \in [S -> Weights]
  BY DEF Tables
<1>2. \A s \in DOMAIN table : table[s] \in Weights
  BY <1>1
<1>3. \A x \in Weights : x # NaN => x \in Int
  BY DEF ScoringAssumption
<1>4. QED
  BY <1>2, <1>3

(* The composite of such a tally is the sum of the rows' weights. *)
LEMMA CompositeIsSum ==
  ASSUME ScoringAssumption, Sequenced, NEW P \in SUBSET DOMAIN ledger, IsFiniteSet(P),
         NEW t, Tallied(t, P), NEW table \in Tables
  PROVE  /\ Composite(t, table) = SumFunction([i \in P |-> RowWeight(i, table)])
<1> DEFINE src == [i \in DOMAIN ledger |-> ledger[i].source]
           w == [s \in Sources |-> WeightOf(s, table)]
<1>1. \A s \in DOMAIN table : table[s] \in Weights /\ (table[s] # NaN => table[s] \in Int)
  BY TableIs
<1>2. \A s : WeightOf(s, table) \in Int
  BY <1>1 DEF WeightOf
<1>3. w \in [Sources -> Int]
  BY <1>2
<1>4. SourcesOf(P, src) = Named(P)
  BY DEF SourcesOf, Named
<1>5. Named(P) \subseteq Sources
  BY Sourced
<1>6. \A s : OfSource(P, src, s) = RowsFrom(P, s)
  BY DEF OfSource, RowsFrom
<1>7. \A i \in P : src[i] = ledger[i].source /\ src[i] \in Sources /\ w[src[i]] = WeightOf(ledger[i].source, table)
  BY RowIs
<1>8. \A i \in P : WeightOf(ledger[i].source, table) = RowWeight(i, table)
  <2> SUFFICES ASSUME NEW i \in P
               PROVE  WeightOf(ledger[i].source, table) = RowWeight(i, table)
    OBVIOUS
  <2>1. PICK s : s = ledger[i].source
    OBVIOUS
  <2>2. CASE s = Native
    BY <2>1, <2>2 DEF WeightOf, RowWeight
  <2>3. CASE s # Native /\ s \notin DOMAIN table
    BY <2>1, <2>3 DEF WeightOf, RowWeight
  <2>4. CASE s # Native /\ s \in DOMAIN table
    BY <1>1, <2>1, <2>4 DEF WeightOf, RowWeight
  <2>5. QED
    BY <2>2, <2>3, <2>4
<1>9. \A s \in DOMAIN t : w[s] = WeightOf(s, table) /\ t[s].count = Cardinality(OfSource(P, src, s))
  BY <1>5, <1>6 DEF Tallied
<1> HIDE DEF src, w
<1>10. BySource(P, src, w) = [s \in DOMAIN t |-> t[s].count * WeightOf(s, table)]
  <2>1. DOMAIN t = SourcesOf(P, src)
    BY <1>4 DEF Tallied
  <2>2. QED
    BY <1>9, <2>1 DEF BySource
<1>11. ByRow(P, src, w) = [i \in P |-> RowWeight(i, table)]
  BY <1>7, <1>8 DEF ByRow
<1>12. SumFunction(BySource(P, src, w)) = SumFunction(ByRow(P, src, w))
  BY <1>3, <1>4, <1>5, SumBySource
<1>13. QED
  BY <1>10, <1>11, <1>12 DEF Composite

LEMMA CompositeTyped ==
  ASSUME ScoringAssumption, NEW t \in Tallies, NEW table \in Tables
  PROVE  Composite(t, table) \in Int
<1>1. \A s \in DOMAIN table : table[s] # NaN => table[s] \in Int
  BY TableIs
<1>2. \A s : WeightOf(s, table) \in Int
  BY <1>1 DEF WeightOf
<1>3. \A s \in DOMAIN t : t[s].count \in Int
  BY DEF Tallies
<1>4. \A s \in DOMAIN t : t[s].count * WeightOf(s, table) \in Int
  BY <1>2, <1>3
<1> DEFINE f == [s \in DOMAIN t |-> t[s].count * WeightOf(s, table)]
           D == DOMAIN t
<1>5. f \in [D -> Int]
  BY <1>4
<1>6. Composite(t, table) = SumFunction(f)
  BY DEF Composite
<1>7. IsFiniteSet(D)
  BY DEF Tallies
<1> HIDE DEF f, D
<1>8. QED
  BY <1>5, <1>6, <1>7, SumTakeOne

----------------------------------------------------------------------------
(* Types, and which stage belongs to which kind of reader. *)

InHand == {"find", "own", "manifest", "exists", "page", "weights", "rows", "verify", "gate", "write"}

Placed(r) ==
  /\ r.kind = "route" =>
       r.stage \in {"find", "own", "manifest", "exists", "page", "weights", "rows", "verify", "done"}
  /\ r.kind = "audit" => r.stage \in {"manifest", "rows", "verify", "done"}
  /\ r.kind = "toggle" => r.stage \in {"gate", "write", "done"} /\ r.wish \in {"public", "private"}
  /\ r.kind \in {"board", "dashboard"} => r.stage \in {"list", "next", "exists", "page", "weights", "done"}
  /\ r.stage \in InHand => r.agent \in Agents

Typed == TypeOK /\ (reader.stage # "idle" => Placed(reader))

Scoring1(r) == r \in Reading /\ Placed(r) /\ r.stage \in {"exists", "page", "weights"}

(* What Scored leaves alone, and what it may change. *)
SameBut(q, r) ==
  /\ q.kind = r.kind /\ q.user = r.user /\ q.wish = r.wish /\ q.todo = r.todo
  /\ q.private = r.private /\ q.isOwner = r.isOwner /\ q.manifestValid = r.manifestValid
  /\ q.total = r.total /\ q.verified = r.verified /\ q.shown = r.shown

Goes(q, r, x) ==
  /\ q.answer \subseteq r.answer \cup {x}
  /\ x \in q.answer /\ ~ x.ok => x \in r.answer \/ r.kind = "dashboard"
  /\ r.kind = "route" => \/ q.stage = "rows" /\ q.agent = r.agent /\ q.error = r.error
                         \/ q.stage = "done" /\ q.error # NULL /\ q.answer = r.answer
  /\ r.kind # "route" => q.stage = "next" /\ q.error = r.error

Errors == {"INTERNAL", "SCORE_COMPUTATION_LIMIT_EXCEEDED"}

LEMMA ScoredIs ==
  ASSUME ScoringAssumption, NEW r, Scoring1(r), NEW x \in Result, x.agent = r.agent,
         NEW q, q = Scored(r, x)
  PROVE  q \in Reading /\ Placed(q) /\ SameBut(q, r) /\ Goes(q, r, x)
<1>1. r \in Reading /\ r.kind \in {"route", "board", "dashboard"}
  BY DEF Scoring1, Placed, Reading
<1>2. x.ok \in BOOLEAN /\ (~ x.ok => x.error \in Errors)
  BY DEF Result, Errors
<1>3. r.answer \cup {x} \in SUBSET Result /\ \A e \in Errors : e # NULL
  BY <1>1 DEF Reading, ScoringAssumption, Errors
<1>4. CASE r.kind = "route" /\ x.ok
  <2>1. q = [r EXCEPT !.stage = "rows", !.cursor = NULL, !.answer = @ \cup {x}]
    BY <1>4 DEF Scored
  <2>2. q \in Reading
    BY <1>1, <1>3, <2>1 DEF Reading
  <2>3. SameBut(q, r) /\ q.stage = "rows" /\ q.agent = r.agent /\ q.error = r.error /\ q.answer = r.answer \cup {x}
    BY <1>1, <2>1 DEF Reading, SameBut
  <2>4. QED
    BY <1>4, <2>2, <2>3 DEF Scoring1, Placed, SameBut, Goes, InHand
<1>5. CASE r.kind = "route" /\ ~ x.ok
  <2>1. q = [r EXCEPT !.stage = "done", !.error = x.error, !.agent = NULL]
    BY <1>5 DEF Scored
  <2>2. q \in Reading
    BY <1>1, <1>2, <1>5, <2>1 DEF Reading, Errors
  <2>3. SameBut(q, r) /\ q.stage = "done" /\ q.error # NULL /\ q.answer = r.answer
    BY <1>1, <1>2, <1>3, <1>5, <2>1 DEF Reading, SameBut
  <2>4. QED
    BY <1>5, <2>2, <2>3 DEF Scoring1, Placed, SameBut, Goes, InHand
<1>6. CASE r.kind = "board"
  <2> DEFINE y == r.answer \cup (IF x.ok THEN {x} ELSE {})
  <2>0. y \in SUBSET Result
    BY <1>3
  <2>1. q = [r EXCEPT !.stage = "next", !.answer = y, !.agent = NULL]
    BY <1>6 DEF Scored
  <2>2. q \in Reading
    <3> HIDE DEF y
    <3>1. QED
      BY <1>1, <2>0, <2>1 DEF Reading
  <2>3. SameBut(q, r) /\ q.stage = "next" /\ q.error = r.error /\ q.answer = y
    BY <1>1, <2>1 DEF Reading, SameBut
  <2>4. q.answer \subseteq r.answer \cup {x} /\ (x \in q.answer /\ ~ x.ok => x \in r.answer)
    <3>1. CASE x.ok
      BY <2>3, <3>1
    <3>2. CASE ~ x.ok
      BY <2>3, <3>2
    <3>3. QED
      BY <3>1, <3>2
  <2>5. QED
    BY <1>6, <2>2, <2>3, <2>4 DEF Scoring1, Placed, SameBut, Goes, InHand
<1>7. CASE r.kind = "dashboard"
  <2>1. q = [r EXCEPT !.stage = "next", !.answer = @ \cup {x}, !.agent = NULL]
    BY <1>7 DEF Scored
  <2>2. q \in Reading
    BY <1>1, <1>3, <2>1 DEF Reading
  <2>3. SameBut(q, r) /\ q.stage = "next" /\ q.error = r.error /\ q.answer = r.answer \cup {x}
    BY <1>1, <2>1 DEF Reading, SameBut
  <2>4. QED
    BY <1>7, <2>2, <2>3 DEF Scoring1, Placed, SameBut, Goes, InHand
<1>8. QED
  BY <1>1, <1>2, <1>4, <1>5, <1>6, <1>7

Histories == since.rows \in [Agents -> SUBSET Nat] /\ since.table \in [Agents -> Tables]

LEMMA AtWork ==
  ASSUME Typed, reader.stage # "idle"
  PROVE  reader \in Reading /\ Placed(reader) /\ since \in Since /\ Histories /\ Sequenced
<1>1. reader # NoReader
  BY DEF NoReader
<1>2. QED
  BY <1>1 DEF Typed, TypeOK, Histories, Sequenced

Writers ==
  /\ visibility \in [Agents -> {"public", "private"}]
  /\ revoked \subseteq Agents
  /\ keys \subseteq Agents \X Users
  /\ ledger \in Seq(Attestation)
  /\ registered \in Tables
  /\ changes \in 0..MaxChanges

LEMMA ReaderSteps ==
  ASSUME Typed, reader' \in Reading, Placed(reader'), Writers', since' \in Since, Histories'
  PROVE  Typed'
<1>1. TypeOK'
  BY DEF TypeOK, Writers, Histories
<1>2. QED
  BY <1>1 DEF Typed

LEMMA OnlyReader ==
  ASSUME Typed, UNCHANGED <<writers, since>>, reader.stage # "idle", reader' \in Reading, Placed(reader')
  PROVE  Typed'
<1>1. Writers' /\ since' \in Since /\ Histories'
  BY AtWork DEF Typed, TypeOK, Writers, writers, Histories
<1>2. QED
  BY <1>1, ReaderSteps

LEMMA StartIsTyped ==
  ASSUME ScoringAssumption, Init
  PROVE  Typed
<1>1. keys \subseteq Agents \X Users /\ ledger \in Seq(Attestation) /\ changes \in 0..MaxChanges
  BY DEF Init, ScoringAssumption
<1>2. registered \in Tables
  <2>1. CASE registered = Empty
    <3>1. registered \in [{} -> Weights]
      BY <2>1 DEF Empty
    <3>2. QED
      BY <3>1 DEF Tables
  <2>2. CASE registered \in [{Native} -> Weights]
    BY <2>2 DEF Tables, ScoringAssumption
  <2>3. QED
    BY <2>1, <2>2 DEF Init
<1>3. since \in Since
  BY DEF Init, Since
<1>4. TypeOK
  BY <1>1, <1>2, <1>3 DEF Init, TypeOK
<1>5. QED
  BY <1>4 DEF Typed, Init, NoReader

LEMMA EmptyIs ==
  Empty \in Tallies /\ Empty \in Tables
<1>1. IsFiniteSet({})
  BY FS_EmptySet
<1>2. Empty \in [{} -> [count : Nat, latest : Nat]] /\ Empty \in [{} -> Weights]
  BY DEF Empty
<1>3. QED
  BY <1>1, <1>2 DEF Tallies, Tables

(* A failed score is a result, and so is one with its tally. *)
LEMMA ResultIs ==
  ASSUME ScoringAssumption, NEW a \in Agents
  PROVE  /\ \A e \in Errors : [agent |-> a, ok |-> FALSE, error |-> e] \in Result
         /\ \A t \in Tallies, table \in Tables :
              [agent |-> a, ok |-> TRUE, tally |-> t, composite |-> Composite(t, table)] \in Result
BY CompositeTyped DEF Result, Errors

LEMMA ThrowsTyped ==
  ASSUME ScoringAssumption, Typed, Throws
  PROVE  Typed'
<1>1. reader \in Reading /\ Placed(reader)
  BY AtWork DEF Throws
<1>2. CASE reader.kind = "dashboard" /\ reader.stage \in {"exists", "page", "weights"}
  <2> DEFINE x == [agent |-> reader.agent, ok |-> FALSE, error |-> "INTERNAL"]
  <2>1. reader' = Scored(reader, x)
    BY <1>2 DEF Throws
  <2>2. reader.agent \in Agents
    BY <1>1, <1>2 DEF Placed, InHand
  <2>3. x \in Result /\ x.agent = reader.agent
    BY <2>2, ResultIs DEF Errors
  <2> HIDE DEF x
  <2>4. reader' \in Reading /\ Placed(reader')
    BY <1>1, <1>2, <2>1, <2>3, ScoredIs DEF Scoring1
  <2>5. QED
    BY <2>4, OnlyReader DEF Throws
<1>3. CASE ~ (reader.kind = "dashboard" /\ reader.stage \in {"exists", "page", "weights"})
  <2>1. reader' = [reader EXCEPT !.stage = "done", !.error = "INTERNAL", !.agent = NULL]
    BY <1>3 DEF Throws
  <2>2. reader' \in Reading
    BY <1>1, <2>1 DEF Reading
  <2>3. Placed(reader')
    BY <1>1, <2>1 DEF Reading, Placed, InHand
  <2>4. QED
    BY <2>2, <2>3, OnlyReader DEF Throws
<1>4. QED
  BY <1>2, <1>3

LEMMA ExistsTyped ==
  ASSUME Typed, Exists
  PROVE  Typed'
<1>1. reader \in Reading /\ Placed(reader)
  BY AtWork DEF Exists
<1>2. reader' = [reader EXCEPT !.stage = "page", !.cursor = NULL, !.tally = Empty, !.processed = 0]
  BY DEF Exists
<1>3. reader' \in Reading
  BY <1>1, <1>2, EmptyIs DEF Reading
<1>4. Placed(reader')
  BY <1>1, <1>2 DEF Exists, Reading, Placed, InHand
<1>5. QED
  BY <1>3, <1>4, OnlyReader DEF Exists

(* What one step of the walk reads, and the reader that results. *)
PageNow == Page(reader.agent, reader.cursor, PageSize)
TallyNow == Tally(reader.tally, PageNow)
CursorNow == NextCursor(PageNow, PageSize)
OverLimit == [agent |-> reader.agent, ok |-> FALSE, error |-> "SCORE_COMPUTATION_LIMIT_EXCEEDED"]
NativeScore ==
  [agent |-> reader.agent, ok |-> TRUE, tally |-> TallyNow, composite |-> Composite(TallyNow, Empty)]
WeighedScore ==
  [agent |-> reader.agent, ok |-> TRUE, tally |-> reader.tally,
   composite |-> Composite(reader.tally, registered)]

LEMMA ReadPage ==
  ASSUME ScoringAssumption, Sequenced, reader \in Reading
  PROVE  /\ OnPage(PageNow, Unread(reader.agent, reader.cursor), PageSize)
         /\ PageNow \in SUBSET DOMAIN ledger /\ PageNow \in SUBSET Nat /\ IsFiniteSet(PageNow)
         /\ Cardinality(PageNow) \in Nat
         /\ TallyNow \in Tallies /\ CursorNow \in Nat \cup {NULL}
         /\ CursorNow = NULL => PageNow = Unread(reader.agent, reader.cursor)
         /\ CursorNow # NULL =>
              /\ CursorNow \in PageNow
              /\ PageNow = {i \in Unread(reader.agent, reader.cursor) : i >= CursorNow}
              /\ Unread(reader.agent, reader.cursor) \ PageNow
                   = {i \in Unread(reader.agent, reader.cursor) : i < CursorNow}
<1> DEFINE R == Unread(reader.agent, reader.cursor)
<1>1. OnPage(PageNow, R, PageSize)
  BY PageIsNewest DEF PageNow
<1>2. R \in SUBSET Nat /\ R \in SUBSET DOMAIN ledger
  BY RowsFinite
<1> HIDE DEF R
<1>3. PageNow \in SUBSET R /\ IsFiniteSet(PageNow) /\ Cardinality(PageNow) \in Nat
  BY <1>1 DEF OnPage
<1>4. TallyNow \in Tallies
  <2>1. reader.tally \in Tallies /\ PageNow \in SUBSET DOMAIN ledger
    BY <1>2, <1>3 DEF Reading
  <2>2. QED
    BY <1>3, <2>1, TallyAt DEF TallyNow
<1>5. /\ CursorNow \in Nat \cup {NULL}
      /\ CursorNow = NULL => PageNow = R
      /\ CursorNow # NULL =>
            CursorNow \in PageNow /\ PageNow = {i \in R : i >= CursorNow} /\ R \ PageNow = {i \in R : i < CursorNow}
  BY <1>1, <1>2, CursorIsOldest DEF CursorNow
<1>6. QED
  BY <1>1, <1>2, <1>3, <1>4, <1>5 DEF R

ScoreStep ==
  \/ TooMany(reader, PageNow) /\ reader' = Scored(reader, OverLimit)
  \/ /\ ~ TooMany(reader, PageNow) /\ CursorNow # NULL
     /\ reader' = [reader EXCEPT !.cursor = CursorNow, !.tally = TallyNow,
                                 !.processed = @ + Cardinality(PageNow)]
  \/ /\ ~ TooMany(reader, PageNow) /\ CursorNow = NULL
     /\ DOMAIN TallyNow \subseteq {Native} /\ reader' = Scored(reader, NativeScore)
  \/ /\ ~ TooMany(reader, PageNow) /\ CursorNow = NULL
     /\ reader' = [reader EXCEPT !.stage = "weights", !.tally = TallyNow]

FirstRows ==
  \/ reader.cursor = NULL /\ since' = [since EXCEPT !.rows = [since.rows EXCEPT ![reader.agent] = RowsOf(reader.agent)]]
  \/ reader.cursor # NULL /\ since' = since

LEMMA ScorePageIs ==
  ASSUME ScorePage
  PROVE  ScoreStep /\ FirstRows /\ UNCHANGED writers /\ reader.stage = "page"
<1>1. ScoreStep
  BY DEF ScorePage, ScoreStep, PageNow, TallyNow, CursorNow, OverLimit, NativeScore
<1>2. FirstRows
  BY DEF ScorePage, FirstRows
<1>3. QED
  BY <1>1, <1>2 DEF ScorePage

LEMMA ScorePageTyped ==
  ASSUME ScoringAssumption, Typed, ScorePage
  PROVE  Typed'
<1>1. reader \in Reading /\ Placed(reader) /\ since \in Since /\ Histories /\ Sequenced
  BY AtWork DEF ScorePage
<1>2. ScoreStep /\ FirstRows /\ UNCHANGED writers /\ reader.stage = "page"
  BY ScorePageIs
<1>3. reader.agent \in Agents /\ Scoring1(reader)
  BY <1>1, <1>2 DEF Placed, InHand, Scoring1
<1>4. TallyNow \in Tallies /\ CursorNow \in Nat \cup {NULL} /\ Cardinality(PageNow) \in Nat
  BY <1>1, ReadPage
<1>5. OverLimit \in Result /\ NativeScore \in Result
  BY <1>3, <1>4, ResultIs, EmptyIs DEF OverLimit, NativeScore, Errors
<1>6. OverLimit.agent = reader.agent /\ NativeScore.agent = reader.agent
  BY DEF OverLimit, NativeScore
<1>7. reader' \in Reading /\ Placed(reader')
  <2>1. CASE reader' = Scored(reader, OverLimit)
    BY <1>3, <1>5, <1>6, <2>1, ScoredIs
  <2>2. CASE reader' = Scored(reader, NativeScore)
    BY <1>3, <1>5, <1>6, <2>2, ScoredIs
  <2>3. CASE reader' = [reader EXCEPT !.cursor = CursorNow, !.tally = TallyNow,
                                      !.processed = @ + Cardinality(PageNow)]
    <3>1. reader.processed + Cardinality(PageNow) \in Nat
      BY <1>1, <1>4 DEF Reading
    <3>2. reader' \in Reading
      BY <1>1, <1>4, <2>3, <3>1 DEF Reading
    <3>3. reader'.kind = reader.kind /\ reader'.stage = reader.stage /\ reader'.wish = reader.wish
          /\ reader'.agent = reader.agent
      BY <1>1, <2>3 DEF Reading
    <3>4. QED
      BY <1>1, <3>2, <3>3 DEF Placed
  <2>4. CASE reader' = [reader EXCEPT !.stage = "weights", !.tally = TallyNow]
    <3>1. reader' \in Reading
      BY <1>1, <1>4, <2>4 DEF Reading
    <3>2. Placed(reader')
      BY <1>1, <1>2, <2>4 DEF Reading, Placed, InHand
    <3>3. QED
      BY <3>1, <3>2
  <2>5. QED
    BY <1>2, <2>1, <2>2, <2>3, <2>4 DEF ScoreStep
<1>8. since' \in Since /\ Histories'
  <2>1. CASE since' = since
    BY <1>1, <2>1 DEF Histories
  <2>2. CASE since' = [since EXCEPT !.rows = [since.rows EXCEPT ![reader.agent] = RowsOf(reader.agent)]]
    <3> DEFINE h == [since.rows EXCEPT ![reader.agent] = RowsOf(reader.agent)]
    <3>1. RowsOf(reader.agent) \in SUBSET Nat
      BY <1>1, RowsFinite
    <3>2. h \in [Agents -> SUBSET Nat]
      BY <1>1, <3>1 DEF Histories
    <3>3. since' = [since EXCEPT !.rows = h]
      BY <2>2
    <3> HIDE DEF h
    <3>4. since' \in Since
      BY <1>1, <3>2, <3>3 DEF Since
    <3>5. since'.rows = h /\ since'.table = since.table
      BY <1>1, <3>3 DEF Since
    <3>6. QED
      BY <1>1, <3>2, <3>4, <3>5 DEF Histories
  <2>3. QED
    BY <1>2, <2>1, <2>2 DEF FirstRows
<1>9. Writers'
  BY <1>2 DEF Typed, TypeOK, Writers, writers
<1>10. QED
  BY <1>7, <1>8, <1>9, ReaderSteps

LEMMA ReadWeightsTyped ==
  ASSUME ScoringAssumption, Typed, ReadWeights
  PROVE  Typed'
<1>1. reader \in Reading /\ Placed(reader) /\ since \in Since /\ Histories /\ registered \in Tables
  BY AtWork DEF ReadWeights, Typed, TypeOK
<1>2. reader.agent \in Agents /\ Scoring1(reader) /\ reader.tally \in Tallies
  BY <1>1 DEF ReadWeights, Placed, InHand, Scoring1, Reading
<1>3. WeighedScore \in Result /\ WeighedScore.agent = reader.agent
  BY <1>1, <1>2, ResultIs DEF WeighedScore
<1>4. reader' = Scored(reader, WeighedScore)
  BY DEF ReadWeights, WeighedScore
<1>5. reader' \in Reading /\ Placed(reader')
  BY <1>2, <1>3, <1>4, ScoredIs
<1> DEFINE h == [since.table EXCEPT ![reader.agent] = registered]
<1>6. h \in [Agents -> Tables]
  BY <1>1 DEF Histories
<1>7. since' = [since EXCEPT !.table = h]
  BY DEF ReadWeights
<1> HIDE DEF h
<1>8. since' \in Since /\ Histories'
  BY <1>1, <1>6, <1>7 DEF Since, Histories
<1>9. Writers'
  BY DEF ReadWeights, Typed, TypeOK, Writers, writers
<1>10. QED
  BY <1>5, <1>8, <1>9, ReaderSteps

Started(kind, stage, user, agent, wish) ==
  [kind |-> kind, stage |-> stage, user |-> user, agent |-> agent, wish |-> wish,
   todo |-> {},
   private |-> FALSE, isOwner |-> FALSE, manifestValid |-> FALSE,
   cursor |-> NULL, tally |-> Empty, processed |-> 0,
   answer |-> {}, error |-> NULL,
   page |-> {}, total |-> 0, verified |-> 0, shown |-> 0]

Asked(kind, stage, user, agent, wish) ==
  \/ kind = "route" /\ stage = "find" /\ user \in Users /\ agent \in Agents /\ wish = NULL
  \/ kind = "audit" /\ stage = "manifest" /\ user = NULL /\ agent \in Agents /\ wish = NULL
  \/ kind = "toggle" /\ stage = "gate" /\ user \in Users /\ agent \in Agents /\ wish \in {"public", "private"}
  \/ kind \in {"board", "dashboard"} /\ stage = "list" /\ user = NULL /\ agent = NULL /\ wish = NULL

Began == \E kind, stage, user, agent, wish :
           Asked(kind, stage, user, agent, wish) /\ Begin(kind, stage, user, agent, wish)

LEMMA BeginTyped ==
  ASSUME ScoringAssumption, Typed, Began
  PROVE  Typed'
<1>1. PICK kind, stage, user, agent, wish :
        Asked(kind, stage, user, agent, wish) /\ Begin(kind, stage, user, agent, wish)
  BY DEF Began
<1>2. reader' = Started(kind, stage, user, agent, wish)
  BY <1>1 DEF Begin, Started
<1>3. reader' \in Reading
  BY <1>1, <1>2, EmptyIs DEF Asked, Started, Reading
<1>4. Placed(reader')
  BY <1>1, <1>2 DEF Asked, Started, Placed, InHand
<1>5. since' = [public  |-> {a \in Agents : visibility[a] = "public"},
                held    |-> keys,
                revoked |-> revoked,
                rows    |-> [a \in Agents |-> {}],
                table   |-> [a \in Agents |-> Empty],
                counted |-> 0]
  BY <1>1 DEF Begin
<1>6. since'.rows \in [Agents -> SUBSET Nat] /\ since'.table \in [Agents -> Tables]
  BY <1>5, EmptyIs
<1>7. keys \subseteq Agents \X Users /\ revoked \subseteq Agents
  BY DEF Typed, TypeOK
<1>8. since' \in Since
  BY <1>5, <1>6, <1>7 DEF Since
<1>9. Writers'
  BY <1>1 DEF Begin, Typed, TypeOK, Writers, writers
<1>10. QED
  BY <1>3, <1>4, <1>6, <1>8, <1>9, ReaderSteps DEF Histories

(* The statements that only move the reader on. *)
Hidden == [reader EXCEPT !.stage = "done", !.error = "AGENT_NOT_FOUND", !.agent = NULL]

LEMMA FindAgentTyped ==
  ASSUME ScoringAssumption, Typed, FindAgent
  PROVE  Typed'
<1>1. reader \in Reading /\ Placed(reader)
  BY AtWork DEF FindAgent
<1> DEFINE p == visibility[reader.agent] = "private"
<1>2. p \in BOOLEAN /\ reader' = [reader EXCEPT !.stage = "own", !.private = p]
  BY DEF FindAgent
<1> HIDE DEF p
<1>3. reader' \in Reading
  BY <1>1, <1>2 DEF Reading
<1>4. Placed(reader')
  BY <1>1, <1>2 DEF FindAgent, Reading, Placed, InHand
<1>5. QED
  BY <1>3, <1>4, OnlyReader DEF FindAgent

LEMMA HiddenTyped ==
  ASSUME reader \in Reading, Placed(reader), reader.stage \in InHand
  PROVE  Hidden \in Reading /\ Placed(Hidden)
BY DEF Hidden, Reading, Placed, InHand

LEMMA CheckOwnerTyped ==
  ASSUME ScoringAssumption, Typed, CheckOwner
  PROVE  Typed'
<1>1. reader \in Reading /\ Placed(reader)
  BY AtWork DEF CheckOwner
<1> DEFINE p == <<reader.agent, reader.user>> \in keys
<1>2. CASE reader' = Hidden
  BY <1>1, <1>2, HiddenTyped, OnlyReader DEF CheckOwner, InHand
<1>3. CASE reader' = [reader EXCEPT !.stage = "manifest", !.isOwner = p]
  <2>1. p \in BOOLEAN
    OBVIOUS
  <2> HIDE DEF p
  <2>2. reader' \in Reading
    BY <1>1, <1>3, <2>1 DEF Reading
  <2>3. Placed(reader')
    BY <1>1, <1>3 DEF CheckOwner, Reading, Placed, InHand
  <2>4. QED
    BY <2>2, <2>3, OnlyReader DEF CheckOwner
<1>4. QED
  BY <1>2, <1>3 DEF CheckOwner, Hidden

LEMMA VerifyManifestTyped ==
  ASSUME ScoringAssumption, Typed, VerifyManifest
  PROVE  Typed'
<1>1. reader \in Reading /\ Placed(reader)
  BY AtWork DEF VerifyManifest
<1> DEFINE g == IF reader.kind = "audit" THEN "rows" ELSE "exists"
<1>2. PICK p \in BOOLEAN : reader' = [reader EXCEPT !.stage = g, !.manifestValid = p]
  BY DEF VerifyManifest, Outcomes
<1>3. g \in {"rows", "exists"} /\ (reader.kind = "audit" <=> g = "rows")
  OBVIOUS
<1> HIDE DEF g
<1>4. reader' \in Reading
  BY <1>1, <1>2, <1>3 DEF Reading
<1>5. reader'.stage = g /\ reader'.kind = reader.kind /\ reader'.agent = reader.agent /\ reader.stage = "manifest"
  BY <1>1, <1>2 DEF Reading, VerifyManifest
<1>6. Placed(reader')
  BY <1>1, <1>3, <1>5 DEF Placed, InHand
<1>7. QED
  BY <1>4, <1>6, OnlyReader DEF VerifyManifest

LEMMA OwnerGateTyped ==
  ASSUME ScoringAssumption, Typed, OwnerGate
  PROVE  Typed'
<1>1. reader \in Reading /\ Placed(reader)
  BY AtWork DEF OwnerGate
<1>2. CASE reader' = Hidden
  BY <1>1, <1>2, HiddenTyped, OnlyReader DEF OwnerGate, InHand
<1>3. CASE reader' = [reader EXCEPT !.stage = "write"]
  <2>1. reader' \in Reading
    BY <1>1, <1>3 DEF Reading
  <2>2. Placed(reader')
    BY <1>1, <1>3 DEF OwnerGate, Reading, Placed, InHand
  <2>3. QED
    BY <2>1, <2>2, OnlyReader DEF OwnerGate
<1>4. QED
  BY <1>2, <1>3 DEF OwnerGate, Hidden

LEMMA RowsPageTyped ==
  ASSUME ScoringAssumption, Typed, RowsPage
  PROVE  Typed'
<1>1. reader \in Reading /\ Placed(reader) /\ Sequenced
  BY AtWork DEF RowsPage
<1> DEFINE g == IF PageNow = {} THEN "done" ELSE "verify"
<1>2. reader' = [reader EXCEPT !.stage = g, !.page = PageNow, !.cursor = CursorNow]
  BY DEF RowsPage, PageNow, CursorNow
<1>3. PageNow \in SUBSET Nat /\ CursorNow \in Nat \cup {NULL}
  BY <1>1, ReadPage
<1>4. g \in {"done", "verify"}
  OBVIOUS
<1> HIDE DEF g
<1>5. reader' \in Reading
  BY <1>1, <1>2, <1>3, <1>4 DEF Reading
<1>6. reader'.stage = g /\ reader'.kind = reader.kind /\ reader'.agent = reader.agent /\ reader.stage = "rows"
  BY <1>1, <1>2 DEF Reading, RowsPage
<1>7. Placed(reader')
  BY <1>1, <1>4, <1>6 DEF Placed, InHand, Reading
<1>8. QED
  BY <1>5, <1>7, OnlyReader DEF RowsPage

(* The reader after one row is verified, and found valid or not. *)
AfterRow(q, r, valid, g) ==
  q = [r EXCEPT !.total = r.total + 1,
                !.verified = IF valid THEN r.verified + 1 ELSE r.verified,
                !.shown = IF r.isOwner THEN r.shown + 1 ELSE r.shown,
                !.page = r.page \ {Max(r.page)}, !.stage = g]

LEMMA VerifyRowIs ==
  ASSUME VerifyRow
  PROVE  \E valid \in Outcomes(reader.agent), g \in {"verify", "rows", "done"} : AfterRow(reader', reader, valid, g)
<1> DEFINE g == IF Cardinality(reader.page) > 1 THEN "verify"
                ELSE IF reader.cursor = NULL THEN "done" ELSE "rows"
<1>1. \E valid \in Outcomes(reader.agent) : AfterRow(reader', reader, valid, g)
  BY DEF VerifyRow, AfterRow
<1>2. g \in {"verify", "rows", "done"}
  OBVIOUS
<1>3. QED
  BY <1>1, <1>2

LEMMA VerifyRowTyped ==
  ASSUME ScoringAssumption, Typed, VerifyRow
  PROVE  Typed'
<1>1. reader \in Reading /\ Placed(reader)
  BY AtWork DEF VerifyRow
<1>2. PICK valid \in Outcomes(reader.agent), g \in {"verify", "rows", "done"} : AfterRow(reader', reader, valid, g)
  BY VerifyRowIs
<1> DEFINE v == IF valid THEN reader.verified + 1 ELSE reader.verified
           w == IF reader.isOwner THEN reader.shown + 1 ELSE reader.shown
           p == reader.page \ {Max(reader.page)}
           n == reader.total + 1
<1>3. v \in Nat /\ w \in Nat /\ n \in Nat /\ p \in SUBSET Nat
  BY <1>1 DEF Reading
<1>4. reader' = [reader EXCEPT !.total = n, !.verified = v, !.shown = w, !.page = p, !.stage = g]
  BY <1>2 DEF AfterRow
<1> HIDE DEF v, w, p, n
<1>5. reader' \in Reading
  BY <1>1, <1>3, <1>4 DEF Reading
<1>6. reader'.stage = g /\ reader'.kind = reader.kind /\ reader'.agent = reader.agent /\ reader.stage = "verify"
  BY <1>1, <1>4 DEF Reading, VerifyRow
<1>7. Placed(reader')
  BY <1>1, <1>6 DEF Placed, InHand, Reading
<1>8. QED
  BY <1>5, <1>7, OnlyReader DEF VerifyRow

LEMMA ListTyped ==
  ASSUME ScoringAssumption, Typed, List
  PROVE  Typed'
<1>1. reader \in Reading /\ Placed(reader)
  BY AtWork DEF List
<1> DEFINE d == IF reader.kind = "board" THEN PublicAgents ELSE AllAgents
<1>2. d \in SUBSET Agents
  BY DEF PublicAgents, AllAgents
<1>3. reader' = [reader EXCEPT !.stage = "next", !.todo = d]
  BY DEF List
<1> HIDE DEF d
<1>4. reader' \in Reading
  BY <1>1, <1>2, <1>3 DEF Reading
<1>5. Placed(reader')
  BY <1>1, <1>3 DEF List, Reading, Placed, InHand
<1>6. QED
  BY <1>4, <1>5, OnlyReader DEF List

LEMMA NextAgentTyped ==
  ASSUME ScoringAssumption, Typed, NextAgent
  PROVE  Typed'
<1>1. reader \in Reading /\ Placed(reader)
  BY AtWork DEF NextAgent
<1>2. CASE \E a \in reader.todo :
             reader' = [reader EXCEPT !.stage = "exists", !.agent = a, !.todo = @ \ {a}]
  <2>1. PICK a \in reader.todo :
          reader' = [reader EXCEPT !.stage = "exists", !.agent = a, !.todo = @ \ {a}]
    BY <1>2
  <2>2. a \in Agents /\ reader.todo \ {a} \in SUBSET Agents
    BY <1>1 DEF Reading
  <2>3. reader' \in Reading
    BY <1>1, <2>1, <2>2 DEF Reading
  <2>4. reader'.stage = "exists" /\ reader'.kind = reader.kind /\ reader'.agent = a /\ reader.stage = "next"
    BY <1>1, <2>1 DEF Reading, NextAgent
  <2>5. Placed(reader')
    BY <1>1, <2>2, <2>4 DEF Placed, InHand
  <2>6. QED
    BY <2>3, <2>5, OnlyReader DEF NextAgent
<1>3. CASE reader' = [reader EXCEPT !.stage = "done"]
  <2>1. reader' \in Reading
    BY <1>1, <1>3 DEF Reading
  <2>2. reader'.stage = "done" /\ reader'.kind = reader.kind /\ reader'.wish = reader.wish
    BY <1>1, <1>3 DEF Reading
  <2>3. Placed(reader')
    BY <1>1, <2>2 DEF Placed, InHand
  <2>4. QED
    BY <2>1, <2>3, OnlyReader DEF NextAgent
<1>4. QED
  BY <1>2, <1>3 DEF NextAgent

----------------------------------------------------------------------------
(* Writers. *)

LEMMA SeenTyped ==
  ASSUME since \in Since, NEW a \in Agents, NEW v, since' = Seen(a, v)
  PROVE  /\ since' \in Since /\ since.public \subseteq since'.public
         /\ since'.held = since.held /\ since'.revoked = since.revoked
         /\ since'.rows = since.rows /\ since'.table = since.table
         /\ since'.counted = since.counted
         /\ v = "public" => a \in since'.public
<1>1. CASE v = "public"
  <2>1. since' = [since EXCEPT !.public = @ \cup {a}]
    BY <1>1 DEF Seen
  <2>2. since.public \cup {a} \in SUBSET Agents
    BY DEF Since
  <2>3. QED
    BY <2>1, <2>2 DEF Since
<1>2. CASE v # "public"
  BY <1>2 DEF Seen
<1>3. QED
  BY <1>1, <1>2

(* A revocation notes how far the verdicts on its agent had come. *)
LEMMA RevokeSeen ==
  ASSUME since \in Since, reader \in Reading, NEW a \in Agents, Revoke(a)
  PROVE  /\ since' \in Since /\ since'.public = since.public
         /\ since'.held = since.held /\ since'.revoked = since.revoked
         /\ since'.rows = since.rows /\ since'.table = since.table
         /\ reader.agent = a => since'.counted = reader.verified
         /\ reader.agent # a => since'.counted = since.counted
<1>1. CASE reader.agent = a
  <2> DEFINE n == reader.verified
  <2>1. n \in Nat
    BY DEF Reading
  <2>2. since' = [since EXCEPT !.counted = n]
    BY <1>1 DEF Revoke
  <2> HIDE DEF n
  <2>3. /\ since' \in Since /\ since'.public = since.public
        /\ since'.held = since.held /\ since'.revoked = since.revoked
        /\ since'.rows = since.rows /\ since'.table = since.table /\ since'.counted = n
    BY <2>1, <2>2 DEF Since
  <2>4. QED
    BY <1>1, <2>3 DEF n
<1>2. CASE reader.agent # a
  BY <1>2 DEF Revoke
<1>3. QED
  BY <1>1, <1>2

LEMMA WriteVisibilityTyped ==
  ASSUME ScoringAssumption, Typed, WriteVisibility
  PROVE  Typed'
<1>1. reader \in Reading /\ Placed(reader) /\ since \in Since /\ Histories
  BY AtWork DEF WriteVisibility
<1>2. reader.agent \in Agents /\ reader.wish \in {"public", "private"} /\ reader.kind = "toggle"
  BY <1>1 DEF WriteVisibility, Placed, InHand, Reading
<1>3. since' = Seen(reader.agent, reader.wish)
  BY DEF WriteVisibility
<1>4. since' \in Since /\ Histories'
  BY <1>1, <1>2, <1>3, SeenTyped DEF Histories
<1>5. reader' = [reader EXCEPT !.stage = "done"]
  BY DEF WriteVisibility
<1>6. reader' \in Reading
  BY <1>1, <1>5 DEF Reading
<1>7. Placed(reader')
  BY <1>1, <1>2, <1>5 DEF Reading, Placed, InHand
<1>8. visibility' \in [Agents -> {"public", "private"}]
  BY <1>2 DEF WriteVisibility, Typed, TypeOK
<1>9. Writers'
  BY <1>8 DEF WriteVisibility, Typed, TypeOK, Writers
<1>10. QED
  BY <1>4, <1>6, <1>7, <1>9, ReaderSteps

(* A writer leaves the reader alone. *)
LEMMA WriterSteps ==
  ASSUME Typed, reader.stage # "idle", reader' = reader, Writers',
         since' \in Since, since'.rows = since.rows, since'.table = since.table
  PROVE  Typed'
<1>1. reader' \in Reading /\ Placed(reader') /\ Histories'
  BY AtWork DEF Histories
<1>2. QED
  BY <1>1, ReaderSteps

LEMMA WriteTyped ==
  ASSUME ScoringAssumption, Typed, Write
  PROVE  Typed'
<1>1. reader.stage # "idle" /\ since \in Since /\ reader \in Reading
  BY AtWork DEF Write
<1>2. Writers
  BY DEF Typed, TypeOK, Writers
<1>3. ASSUME changes < MaxChanges, changes' = changes + 1 PROVE changes' \in 0..MaxChanges
  BY <1>2, <1>3 DEF Writers, ScoringAssumption
<1>4. ASSUME NEW row \in Rows, Attest(row) PROVE Typed'
  <2>1. row \in Attestation
    BY DEF ScoringAssumption
  <2>2. ledger' \in Seq(Attestation)
    BY <1>2, <1>4, <2>1, AppendProperties DEF Attest, Writers
  <2>3. Writers'
    BY <1>2, <1>3, <1>4, <2>2 DEF Attest, Change, Writers
  <2>4. QED
    BY <1>1, <1>4, <2>3, WriterSteps DEF Attest, Change
<1>5. ASSUME NEW s \in Sources, NEW w \in Weights, Register(s, w) PROVE Typed'
  <2>1. PICK S \in SUBSET Sources : registered \in [S -> Weights]
    BY <1>2 DEF Writers, Tables
  <2>2. registered' \in [S \cup {s} -> Weights]
    BY <1>5, <2>1 DEF Register
  <2>3. registered' \in Tables
    BY <2>2 DEF Tables
  <2>4. Writers'
    BY <1>2, <1>3, <1>5, <2>3 DEF Register, Change, Writers
  <2>5. QED
    BY <1>1, <1>5, <2>4, WriterSteps DEF Register, Change
<1>6. ASSUME NEW a \in Agents, NEW v \in {"public", "private"}, SetVisibility(a, v) PROVE Typed'
  <2>1. since' = Seen(a, v)
    BY <1>6 DEF SetVisibility
  <2>2. since' \in Since /\ since'.rows = since.rows /\ since'.table = since.table
    BY <1>1, <2>1, SeenTyped
  <2>3. visibility' \in [Agents -> {"public", "private"}]
    BY <1>2, <1>6 DEF SetVisibility, Writers
  <2>4. Writers'
    BY <1>2, <1>3, <1>6, <2>3 DEF SetVisibility, Change, Writers
  <2>5. QED
    BY <1>1, <1>6, <2>2, <2>4, WriterSteps DEF SetVisibility, Change
<1>7. ASSUME NEW a \in Agents, Revoke(a) PROVE Typed'
  <2>1. Writers'
    BY <1>2, <1>3, <1>7 DEF Revoke, Change, Writers
  <2>2. since' \in Since /\ since'.rows = since.rows /\ since'.table = since.table
    BY <1>1, <1>7, RevokeSeen
  <2>3. QED
    BY <1>1, <1>7, <2>1, <2>2, WriterSteps DEF Revoke, Change
<1>8. ASSUME NEW a \in Agents, NEW from \in Users, NEW to \in Users, MoveKey(a, from, to) PROVE Typed'
  <2>1. keys' \subseteq Agents \X Users
    BY <1>2, <1>8 DEF MoveKey, Writers
  <2>2. Writers'
    BY <1>2, <1>3, <1>8, <2>1 DEF MoveKey, Change, Writers
  <2> DEFINE h == since.held \cup {<<a, to>>}
  <2>3. since' = [since EXCEPT !.held = h]
    BY <1>8 DEF MoveKey
  <2>4. h \in SUBSET (Agents \X Users)
    BY <1>1 DEF Since
  <2> HIDE DEF h
  <2>5. since' \in Since /\ since'.rows = since.rows /\ since'.table = since.table
    BY <1>1, <2>3, <2>4 DEF Since
  <2>6. QED
    BY <1>1, <1>8, <2>2, <2>5, WriterSteps DEF MoveKey, Change
<1>9. QED
  BY <1>4, <1>5, <1>6, <1>7, <1>8 DEF Write

(* The steps, each with what the proofs distinguish. *)
Statement ==
  \/ Began \/ FindAgent \/ CheckOwner \/ VerifyManifest \/ OwnerGate \/ WriteVisibility \/ Throws
  \/ Exists \/ ScorePage \/ ReadWeights \/ RowsPage \/ VerifyRow \/ List \/ NextAgent

LEMMA Steps ==
  ASSUME Next
  PROVE  Statement \/ Write
<1>1. ASSUME NEW u \in Users, NEW a \in Agents, GetScoreRoute(u, a) PROVE Began
  <2>1. Asked("route", "find", u, a, NULL)
    BY DEF Asked
  <2>2. QED
    BY <1>1, <2>1 DEF GetScoreRoute, Began
<1>2. ASSUME LeaderboardPage \/ ReconcileRows PROVE Began
  <2>1. Asked("board", "list", NULL, NULL, NULL) /\ Asked("dashboard", "list", NULL, NULL, NULL)
    BY DEF Asked
  <2>2. QED
    BY <1>2, <2>1 DEF LeaderboardPage, ReconcileRows, Began
<1>3. ASSUME NEW a \in Agents, RunVerifyAgent(a) PROVE Began
  <2>1. Asked("audit", "manifest", NULL, a, NULL)
    BY DEF Asked
  <2>2. QED
    BY <1>3, <2>1 DEF RunVerifyAgent, Began
<1>4. ASSUME NEW u \in Users, NEW a \in Agents, NEW v \in {"public", "private"}, PatchVisibility(u, a, v)
      PROVE  Began
  <2>1. Asked("toggle", "gate", u, a, v)
    BY DEF Asked
  <2>2. QED
    BY <1>4, <2>1 DEF PatchVisibility, Began
<1>5. QED
  BY <1>1, <1>2, <1>3, <1>4 DEF Next, Read, Statement

LEMMA StepTyped ==
  ASSUME ScoringAssumption, Typed, [Next]_vars
  PROVE  Typed'
<1>1. CASE UNCHANGED vars
  BY <1>1 DEF Typed, TypeOK, vars, Placed
<1>2. CASE Write
  BY <1>2, WriteTyped
<1>3. CASE Statement
  BY <1>3, BeginTyped, FindAgentTyped, CheckOwnerTyped, VerifyManifestTyped, OwnerGateTyped,
     WriteVisibilityTyped, ThrowsTyped, ExistsTyped, ScorePageTyped, ReadWeightsTyped, RowsPageTyped,
     VerifyRowTyped, ListTyped, NextAgentTyped DEF Statement
<1>4. QED
  BY <1>1, <1>2, <1>3, Steps

(* Every table, the reader and the history keep their types. *)
THEOREM ScoringTypeCorrect == Spec => []TypeOK
<1>1. ScoringAssumption
  BY ScoringAssumption
<1>2. Init => Typed
  BY <1>1, StartIsTyped
<1>3. Typed /\ [Next]_vars => Typed'
  BY <1>1, StepTyped
<1>4. Typed => TypeOK
  BY DEF Typed
<1>5. QED
  BY <1>2, <1>3, <1>4, PTL DEF Spec

----------------------------------------------------------------------------
(* What the readers may say of a revoked agent, and of a private one.  Most  *)
(* statements leave the reader's verdicts alone: it stays with its agent,    *)
(* ends with an error, or has a score.                                       *)

Stays ==
  /\ reader'.agent = reader.agent /\ reader'.answer = reader.answer /\ reader'.error = reader.error
  /\ \/ reader.stage \in {"exists", "page"} /\ reader'.stage \in {"page", "weights"}
     \/ reader.stage = "rows" /\ reader'.stage \in {"done", "verify"}
     \/ reader.stage = "gate" /\ reader'.stage = "write" /\ <<reader.agent, reader.user>> \in keys
     \/ reader.stage = "write" /\ reader'.stage = "done"

Ends == reader'.stage = "done" /\ reader'.error # NULL /\ reader'.answer = reader.answer

HasScore ==
  /\ reader.stage \in {"exists", "page", "weights"}
  /\ \E x \in Result : x.agent = reader.agent /\ Goes(reader', reader, x)

Plain == Throws \/ Exists \/ ScorePage \/ ReadWeights \/ RowsPage \/ OwnerGate \/ WriteVisibility

LEMMA HiddenEnds ==
  ASSUME ScoringAssumption, reader \in Reading, reader' = Hidden
  PROVE  SameBut(reader', reader) /\ Ends
BY DEF ScoringAssumption, Reading, Hidden, SameBut, Ends

LEMMA PlainSteps ==
  ASSUME ScoringAssumption, Typed, Plain
  PROVE  SameBut(reader', reader) /\ (Stays \/ Ends \/ HasScore)
<1>1. reader.stage # "idle"
  BY DEF Plain, Throws, Exists, ScorePage, ReadWeights, RowsPage, OwnerGate, WriteVisibility
<1>2. reader \in Reading /\ Placed(reader) /\ Sequenced /\ registered \in Tables
  BY <1>1, AtWork DEF Typed, TypeOK
<1>3. ASSUME NEW x \in Result, x.agent = reader.agent, reader.stage \in {"exists", "page", "weights"},
             reader' = Scored(reader, x)
      PROVE  SameBut(reader', reader) /\ HasScore
  <2>1. Scoring1(reader)
    BY <1>2, <1>3 DEF Scoring1
  <2>2. SameBut(reader', reader) /\ Goes(reader', reader, x)
    BY <1>3, <2>1, ScoredIs
  <2>3. QED
    BY <1>3, <2>2 DEF HasScore
<1>4. CASE Throws
  <2>1. CASE reader.kind = "dashboard" /\ reader.stage \in {"exists", "page", "weights"}
    <3> DEFINE x == [agent |-> reader.agent, ok |-> FALSE, error |-> "INTERNAL"]
    <3>1. reader' = Scored(reader, x)
      BY <1>4, <2>1 DEF Throws
    <3>2. reader.agent \in Agents
      BY <1>2, <2>1 DEF Placed, InHand
    <3>3. x \in Result /\ x.agent = reader.agent
      BY <3>2, ResultIs DEF Errors
    <3> HIDE DEF x
    <3>4. QED
      BY <1>3, <2>1, <3>1, <3>3
  <2>2. CASE ~ (reader.kind = "dashboard" /\ reader.stage \in {"exists", "page", "weights"})
    <3>1. reader' = [reader EXCEPT !.stage = "done", !.error = "INTERNAL", !.agent = NULL]
      BY <1>4, <2>2 DEF Throws
    <3>2. QED
      BY <1>2, <3>1 DEF ScoringAssumption, Reading, SameBut, Ends
  <2>3. QED
    BY <2>1, <2>2
<1>5. CASE Exists
  BY <1>2, <1>5 DEF Exists, Reading, SameBut, Stays
<1>6. CASE ScorePage
  <2>1. ScoreStep /\ reader.stage = "page"
    BY <1>6, ScorePageIs
  <2>2. reader.agent \in Agents
    BY <1>2, <2>1 DEF Placed, InHand
  <2>3. TallyNow \in Tallies
    BY <1>2, ReadPage
  <2>4. OverLimit \in Result /\ NativeScore \in Result
    BY <2>2, <2>3, ResultIs, EmptyIs DEF OverLimit, NativeScore, Errors
  <2>5. OverLimit.agent = reader.agent /\ NativeScore.agent = reader.agent
    BY DEF OverLimit, NativeScore
  <2>6. CASE reader' = Scored(reader, OverLimit)
    BY <1>3, <2>1, <2>4, <2>5, <2>6
  <2>7. CASE reader' = Scored(reader, NativeScore)
    BY <1>3, <2>1, <2>4, <2>5, <2>7
  <2>8. CASE reader' = [reader EXCEPT !.cursor = CursorNow, !.tally = TallyNow,
                                      !.processed = @ + Cardinality(PageNow)]
    BY <1>2, <2>1, <2>8 DEF Reading, SameBut, Stays
  <2>9. CASE reader' = [reader EXCEPT !.stage = "weights", !.tally = TallyNow]
    BY <1>2, <2>1, <2>9 DEF Reading, SameBut, Stays
  <2>10. QED
    BY <2>1, <2>6, <2>7, <2>8, <2>9 DEF ScoreStep
<1>7. CASE ReadWeights
  <2>1. reader' = Scored(reader, WeighedScore) /\ reader.stage = "weights"
    BY <1>7 DEF ReadWeights, WeighedScore
  <2>2. reader.agent \in Agents /\ reader.tally \in Tallies
    BY <1>2, <2>1 DEF Placed, InHand, Reading
  <2>3. WeighedScore \in Result /\ WeighedScore.agent = reader.agent
    BY <1>2, <2>2, ResultIs DEF WeighedScore
  <2>4. QED
    BY <1>3, <2>1, <2>3
<1>8. CASE RowsPage
  <2>1. PICK g \in {"done", "verify"} :
          reader' = [reader EXCEPT !.stage = g, !.page = PageNow, !.cursor = CursorNow]
    BY <1>8 DEF RowsPage, PageNow, CursorNow
  <2>2. reader.stage = "rows"
    BY <1>8 DEF RowsPage
  <2>3. QED
    BY <1>2, <2>1, <2>2 DEF Reading, SameBut, Stays
<1>9. CASE OwnerGate
  <2>1. CASE reader' = Hidden
    BY <1>2, <2>1, HiddenEnds
  <2>2. CASE reader' = [reader EXCEPT !.stage = "write"] /\ <<reader.agent, reader.user>> \in keys
    BY <1>2, <1>9, <2>2 DEF OwnerGate, Reading, SameBut, Stays
  <2>3. QED
    BY <1>9, <2>1, <2>2 DEF OwnerGate, Hidden
<1>10. CASE WriteVisibility
  <2>1. reader' = [reader EXCEPT !.stage = "done"] /\ reader.stage = "write"
    BY <1>10 DEF WriteVisibility
  <2>2. QED
    BY <1>2, <2>1 DEF Reading, SameBut, Stays
<1>11. QED
  BY <1>4, <1>5, <1>6, <1>7, <1>8, <1>9, <1>10 DEF Plain

(* The other statements, field by field. *)
Untouched ==
  /\ reader'.kind = reader.kind /\ reader'.user = reader.user /\ reader'.wish = reader.wish
  /\ reader'.answer = reader.answer /\ reader'.error = reader.error

Moved ==
  \/ /\ FindAgent /\ Untouched /\ reader'.agent = reader.agent /\ reader'.stage = "own"
     /\ reader'.private = (visibility[reader.agent] = "private")
     /\ reader'.todo = reader.todo /\ reader'.isOwner = reader.isOwner
     /\ reader'.manifestValid = reader.manifestValid
     /\ reader'.total = reader.total /\ reader'.verified = reader.verified /\ reader'.shown = reader.shown
  \/ /\ CheckOwner /\ Untouched /\ reader'.agent = reader.agent /\ reader'.stage = "manifest"
     /\ reader'.isOwner = (<<reader.agent, reader.user>> \in keys) /\ (reader.private => reader'.isOwner)
     /\ reader'.todo = reader.todo /\ reader'.private = reader.private
     /\ reader'.manifestValid = reader.manifestValid
     /\ reader'.total = reader.total /\ reader'.verified = reader.verified /\ reader'.shown = reader.shown
  \/ CheckOwner /\ SameBut(reader', reader) /\ Ends
  \/ /\ VerifyManifest /\ Untouched /\ reader'.agent = reader.agent /\ reader'.stage \in {"rows", "exists"}
     /\ reader'.manifestValid \in Outcomes(reader.agent)
     /\ reader'.todo = reader.todo /\ reader'.private = reader.private /\ reader'.isOwner = reader.isOwner
     /\ reader'.total = reader.total /\ reader'.verified = reader.verified /\ reader'.shown = reader.shown
  \/ /\ VerifyRow /\ Untouched /\ reader'.agent = reader.agent
     /\ reader'.stage \in {"verify", "rows", "done"}
     /\ reader'.manifestValid = reader.manifestValid
     /\ reader'.todo = reader.todo /\ reader'.private = reader.private /\ reader'.isOwner = reader.isOwner
     /\ reader'.total = reader.total + 1
     /\ reader'.verified = reader.verified \/ TRUE \in Outcomes(reader.agent)
     /\ reader'.shown = IF reader.isOwner THEN reader.shown + 1 ELSE reader.shown
  \/ /\ (List \/ NextAgent) /\ Untouched
     /\ reader.kind \in {"board", "dashboard"} /\ reader'.stage \in {"next", "exists", "done"}
     /\ reader.kind = "board" => /\ reader'.todo \subseteq reader.todo \cup PublicAgents
                                 /\ reader'.stage = "exists" => reader'.agent \in reader.todo
     /\ reader'.private = reader.private /\ reader'.isOwner = reader.isOwner
     /\ reader'.manifestValid = reader.manifestValid
     /\ reader'.total = reader.total /\ reader'.verified = reader.verified /\ reader'.shown = reader.shown

LEMMA MovedSteps ==
  ASSUME ScoringAssumption, Typed,
         FindAgent \/ CheckOwner \/ VerifyManifest \/ VerifyRow \/ List \/ NextAgent
  PROVE  Moved /\ UNCHANGED <<writers, since>> /\ reader.stage # "idle"
<1>0. UNCHANGED <<writers, since>> /\ reader.stage # "idle"
  BY DEF FindAgent, CheckOwner, VerifyManifest, VerifyRow, List, NextAgent
<1>1. reader \in Reading /\ Placed(reader)
  BY <1>0, AtWork
<1>2. CASE FindAgent
  <2> DEFINE p == visibility[reader.agent] = "private"
  <2>1. reader' = [reader EXCEPT !.stage = "own", !.private = p]
    BY <1>2 DEF FindAgent
  <2>2. reader'.private = p
    <3> HIDE DEF p
    <3>1. QED
      BY <1>1, <2>1 DEF Reading
  <2> HIDE DEF p
  <2>3. /\ Untouched /\ reader'.agent = reader.agent /\ reader'.stage = "own"
        /\ reader'.todo = reader.todo /\ reader'.isOwner = reader.isOwner
        /\ reader'.manifestValid = reader.manifestValid
        /\ reader'.total = reader.total /\ reader'.verified = reader.verified /\ reader'.shown = reader.shown
    BY <1>1, <2>1 DEF Reading, Untouched
  <2>4. QED
    BY <1>0, <1>2, <2>2, <2>3 DEF Moved, p
<1>3. CASE CheckOwner
  <2> DEFINE p == <<reader.agent, reader.user>> \in keys
  <2>1. CASE reader' = Hidden
    BY <1>0, <1>1, <1>3, <2>1, HiddenEnds DEF Moved
  <2>2. CASE reader' = [reader EXCEPT !.stage = "manifest", !.isOwner = p] /\ (reader.private => p)
    <3> HIDE DEF p
    <3>1. reader'.isOwner = p /\ (reader.private => reader'.isOwner)
      BY <1>1, <2>2 DEF Reading
    <3>2. /\ Untouched /\ reader'.agent = reader.agent /\ reader'.stage = "manifest"
          /\ reader'.todo = reader.todo /\ reader'.private = reader.private
          /\ reader'.manifestValid = reader.manifestValid
          /\ reader'.total = reader.total /\ reader'.verified = reader.verified /\ reader'.shown = reader.shown
      BY <1>1, <2>2 DEF Reading, Untouched
    <3>3. QED
      BY <1>0, <1>3, <3>1, <3>2 DEF Moved, p
  <2>3. QED
    BY <1>3, <2>1, <2>2 DEF CheckOwner, Hidden
<1>4. CASE VerifyManifest
  <2>1. PICK p \in Outcomes(reader.agent), g \in {"rows", "exists"} :
          reader' = [reader EXCEPT !.stage = g, !.manifestValid = p]
    BY <1>4 DEF VerifyManifest
  <2>2. /\ Untouched /\ reader'.agent = reader.agent /\ reader'.stage = g /\ reader'.manifestValid = p
        /\ reader'.todo = reader.todo /\ reader'.private = reader.private /\ reader'.isOwner = reader.isOwner
        /\ reader'.total = reader.total /\ reader'.verified = reader.verified /\ reader'.shown = reader.shown
    BY <1>1, <2>1 DEF Reading, Untouched
  <2>3. QED
    BY <1>0, <1>4, <2>1, <2>2 DEF Moved
<1>5. CASE VerifyRow
  <2>1. PICK valid \in Outcomes(reader.agent), g \in {"verify", "rows", "done"} : AfterRow(reader', reader, valid, g)
    BY <1>5, VerifyRowIs
  <2> DEFINE v == IF valid THEN reader.verified + 1 ELSE reader.verified
             w == IF reader.isOwner THEN reader.shown + 1 ELSE reader.shown
             p == reader.page \ {Max(reader.page)}
             n == reader.total + 1
  <2>2. reader' = [reader EXCEPT !.total = n, !.verified = v, !.shown = w, !.page = p, !.stage = g]
    BY <2>1 DEF AfterRow
  <2>3. v = reader.verified \/ TRUE \in Outcomes(reader.agent)
    BY DEF Outcomes
  <2> HIDE DEF v, w, p, n
  <2>4. /\ Untouched /\ reader'.agent = reader.agent /\ reader'.stage = g
        /\ reader'.manifestValid = reader.manifestValid
        /\ reader'.todo = reader.todo /\ reader'.private = reader.private /\ reader'.isOwner = reader.isOwner
        /\ reader'.total = n /\ reader'.verified = v /\ reader'.shown = w
    BY <1>1, <2>2 DEF Reading, Untouched
  <2>5. QED
    BY <1>0, <1>5, <2>3, <2>4 DEF Moved, n, w
<1>6. CASE List
  <2> DEFINE d == IF reader.kind = "board" THEN PublicAgents ELSE AllAgents
  <2>1. reader' = [reader EXCEPT !.stage = "next", !.todo = d]
    BY <1>6 DEF List
  <2>2. reader.kind = "board" => d = PublicAgents
    OBVIOUS
  <2>3. reader.kind \in {"board", "dashboard"}
    BY <1>1, <1>6 DEF List, Placed, Reading
  <2> HIDE DEF d
  <2>4. /\ Untouched /\ reader'.stage = "next" /\ reader'.todo = d
        /\ reader'.private = reader.private /\ reader'.isOwner = reader.isOwner
        /\ reader'.manifestValid = reader.manifestValid
        /\ reader'.total = reader.total /\ reader'.verified = reader.verified /\ reader'.shown = reader.shown
    BY <1>1, <2>1 DEF Reading, Untouched
  <2>5. QED
    BY <1>0, <1>6, <2>2, <2>3, <2>4 DEF Moved
<1>7. CASE NextAgent
  <2>0. reader.kind \in {"board", "dashboard"}
    BY <1>1, <1>7 DEF NextAgent, Placed, Reading
  <2>1. CASE \E a \in reader.todo :
               reader' = [reader EXCEPT !.stage = "exists", !.agent = a, !.todo = @ \ {a}]
    <3>1. PICK a \in reader.todo :
            reader' = [reader EXCEPT !.stage = "exists", !.agent = a, !.todo = reader.todo \ {a}]
      BY <2>1
    <3> DEFINE d == reader.todo \ {a}
    <3>2. d \subseteq reader.todo /\ reader' = [reader EXCEPT !.stage = "exists", !.agent = a, !.todo = d]
      BY <3>1
    <3> HIDE DEF d
    <3>3. /\ Untouched /\ reader'.stage = "exists" /\ reader'.agent = a /\ reader'.todo = d
          /\ reader'.private = reader.private /\ reader'.isOwner = reader.isOwner
          /\ reader'.manifestValid = reader.manifestValid
          /\ reader'.total = reader.total /\ reader'.verified = reader.verified /\ reader'.shown = reader.shown
      BY <1>1, <3>2 DEF Reading, Untouched
    <3>4. QED
      BY <1>0, <1>7, <2>0, <3>1, <3>2, <3>3 DEF Moved
  <2>2. CASE reader' = [reader EXCEPT !.stage = "done"]
    <3>1. /\ Untouched /\ reader'.stage = "done" /\ reader'.todo = reader.todo
          /\ reader'.private = reader.private /\ reader'.isOwner = reader.isOwner
          /\ reader'.manifestValid = reader.manifestValid
          /\ reader'.total = reader.total /\ reader'.verified = reader.verified /\ reader'.shown = reader.shown
      BY <1>1, <2>2 DEF Reading, Untouched
    <3>2. QED
      BY <1>0, <1>7, <2>0, <3>1 DEF Moved
  <2>3. QED
    BY <1>7, <2>1, <2>2 DEF NextAgent
<1>8. QED
  BY <1>0, <1>2, <1>3, <1>4, <1>5, <1>6, <1>7

Mover == FindAgent \/ CheckOwner \/ VerifyManifest \/ VerifyRow \/ List \/ NextAgent

LEMMA Kinds ==
  ASSUME Next
  PROVE  Began \/ Plain \/ Mover \/ Write
BY Steps DEF Statement, Plain, Mover

(* What a reader found when it began stays what the tables say, or say no more. *)
TablesSeen ==
  /\ since.revoked \subseteq revoked
  /\ \A a \in Agents : visibility[a] = "public" => a \in since.public
  /\ keys \subseteq since.held

Grows ==
  /\ since'.revoked = since.revoked /\ since.public \subseteq since'.public /\ since.held \subseteq since'.held

LEMMA HistoryGrows ==
  ASSUME ScoringAssumption, Typed, TablesSeen, Plain \/ Mover \/ Write
  PROVE  TablesSeen' /\ Grows
<1>1. reader.stage # "idle"
  BY DEF Plain, Throws, Exists, ScorePage, ReadWeights, RowsPage, OwnerGate, WriteVisibility,
         Mover, FindAgent, CheckOwner, VerifyManifest, VerifyRow, List, NextAgent, Write
<1>2. since \in Since /\ reader \in Reading /\ Placed(reader) /\ visibility \in [Agents -> {"public", "private"}]
  BY <1>1, AtWork DEF Typed, TypeOK
<1>3. CASE UNCHANGED <<visibility, keys, revoked>> /\ since' = since
  BY <1>3 DEF TablesSeen, Grows
<1>4. CASE ScorePage
  <2>1. UNCHANGED writers /\ FirstRows
    BY <1>4, ScorePageIs
  <2>2. since'.revoked = since.revoked /\ since'.public = since.public /\ since'.held = since.held
    BY <1>2, <2>1 DEF FirstRows, Since
  <2>3. QED
    BY <2>1, <2>2 DEF writers, TablesSeen, Grows
<1>5. CASE ReadWeights
  <2> DEFINE h == [since.table EXCEPT ![reader.agent] = registered]
  <2>1. since' = [since EXCEPT !.table = h] /\ UNCHANGED writers
    BY <1>5 DEF ReadWeights
  <2> HIDE DEF h
  <2>2. since'.revoked = since.revoked /\ since'.public = since.public /\ since'.held = since.held
    BY <1>2, <2>1 DEF Since
  <2>3. QED
    BY <2>1, <2>2 DEF writers, TablesSeen, Grows
<1>6. ASSUME NEW a \in Agents, NEW v, since' = Seen(a, v), visibility' = [visibility EXCEPT ![a] = v],
             UNCHANGED <<keys, revoked>>
      PROVE  TablesSeen' /\ Grows
  <2>1. /\ since.public \subseteq since'.public /\ since'.held = since.held /\ since'.revoked = since.revoked
        /\ v = "public" => a \in since'.public
    BY <1>2, <1>6, SeenTyped
  <2>2. ASSUME NEW b \in Agents, visibility'[b] = "public" PROVE b \in since'.public
    <3>1. CASE b = a
      BY <1>2, <1>6, <2>1, <2>2, <3>1
    <3>2. CASE b # a
      BY <1>2, <1>6, <2>1, <2>2, <3>2 DEF TablesSeen
    <3>3. QED
      BY <3>1, <3>2
  <2>3. QED
    BY <1>6, <2>1, <2>2 DEF TablesSeen, Grows
<1>7. CASE WriteVisibility
  <2>1. reader.agent \in Agents
    BY <1>2, <1>7 DEF WriteVisibility, Placed, InHand
  <2>2. QED
    BY <1>6, <1>7, <2>1 DEF WriteVisibility
<1>8. CASE Plain
  BY <1>3, <1>4, <1>5, <1>7, <1>8
     DEF Plain, Throws, Exists, RowsPage, OwnerGate, writers
<1>9. CASE Mover
  BY <1>3, <1>9 DEF Mover, FindAgent, CheckOwner, VerifyManifest, VerifyRow, List, NextAgent, writers
<1>10. CASE Write
  <2>1. ASSUME NEW row \in Rows, Attest(row) PROVE TablesSeen' /\ Grows
    BY <1>3, <2>1 DEF Attest, Change
  <2>2. ASSUME NEW s \in Sources, NEW w \in Weights, Register(s, w) PROVE TablesSeen' /\ Grows
    BY <1>3, <2>2 DEF Register, Change
  <2>3. ASSUME NEW a \in Agents, NEW v \in {"public", "private"}, SetVisibility(a, v) PROVE TablesSeen' /\ Grows
    BY <1>6, <2>3 DEF SetVisibility, Change
  <2>4. ASSUME NEW a \in Agents, Revoke(a) PROVE TablesSeen' /\ Grows
    <3>1. since'.public = since.public /\ since'.held = since.held /\ since'.revoked = since.revoked
      BY <1>2, <2>4, RevokeSeen
    <3>2. QED
      BY <2>4, <3>1 DEF Revoke, Change, TablesSeen, Grows
  <2>5. ASSUME NEW a \in Agents, NEW from \in Users, NEW to \in Users, MoveKey(a, from, to)
        PROVE  TablesSeen' /\ Grows
    <3> DEFINE h == since.held \cup {<<a, to>>}
    <3>1. since' = [since EXCEPT !.held = h] /\ UNCHANGED <<visibility, revoked>>
      BY <2>5 DEF MoveKey, Change
    <3>2. keys' \subseteq h /\ since.held \subseteq h
      BY <2>5 DEF MoveKey, TablesSeen
    <3> HIDE DEF h
    <3>3. since'.revoked = since.revoked /\ since'.public = since.public /\ since'.held = h
      BY <1>2, <3>1 DEF Since
    <3>4. QED
      BY <3>1, <3>2, <3>3 DEF TablesSeen, Grows
  <2>6. QED
    BY <1>10, <2>1, <2>2, <2>3, <2>4, <2>5 DEF Write
<1>11. QED
  BY <1>8, <1>9, <1>10

LEMMA StartsSeen ==
  ASSUME Began
  PROVE  TablesSeen'
<1>1. /\ since' = [public  |-> {a \in Agents : visibility[a] = "public"},
                   held    |-> keys,
                   revoked |-> revoked,
                   rows    |-> [a \in Agents |-> {}],
                   table   |-> [a \in Agents |-> Empty],
                   counted |-> 0]
      /\ UNCHANGED writers
  BY DEF Began, Begin
<1>2. /\ since'.public = {a \in Agents : visibility[a] = "public"}
      /\ since'.held = keys /\ since'.revoked = revoked
  BY <1>1
<1>3. QED
  BY <1>1, <1>2 DEF TablesSeen, writers

(* Only a revocation adds to the revoked, and only it notes a count. *)
LEMMA CountKept ==
  ASSUME ScoringAssumption, Typed, Plain \/ Mover
  PROVE  since'.counted = since.counted /\ revoked' = revoked
<1>1. reader.stage # "idle"
  BY DEF Plain, Throws, Exists, ScorePage, ReadWeights, RowsPage, OwnerGate, WriteVisibility,
         Mover, FindAgent, CheckOwner, VerifyManifest, VerifyRow, List, NextAgent
<1>2. since \in Since /\ reader \in Reading /\ Placed(reader)
  BY <1>1, AtWork
<1>3. CASE ScorePage
  <2>1. UNCHANGED writers /\ FirstRows
    BY <1>3, ScorePageIs
  <2>2. since'.counted = since.counted
    BY <1>2, <2>1 DEF FirstRows, Since
  <2>3. QED
    BY <2>1, <2>2 DEF writers
<1>4. CASE ReadWeights
  <2> DEFINE h == [since.table EXCEPT ![reader.agent] = registered]
  <2>1. since' = [since EXCEPT !.table = h] /\ UNCHANGED writers
    BY <1>4 DEF ReadWeights
  <2> HIDE DEF h
  <2>2. since'.counted = since.counted
    BY <1>2, <2>1 DEF Since
  <2>3. QED
    BY <2>1, <2>2 DEF writers
<1>5. CASE WriteVisibility
  <2>1. reader.agent \in Agents
    BY <1>2, <1>5 DEF WriteVisibility, Placed, InHand
  <2>2. since' = Seen(reader.agent, reader.wish) /\ revoked' = revoked
    BY <1>5 DEF WriteVisibility
  <2>3. QED
    BY <1>2, <2>1, <2>2, SeenTyped
<1>6. CASE Throws \/ Exists \/ RowsPage \/ OwnerGate \/ Mover
  BY <1>6 DEF Throws, Exists, RowsPage, OwnerGate, writers,
              Mover, FindAgent, CheckOwner, VerifyManifest, VerifyRow, List, NextAgent
<1>7. QED
  BY <1>3, <1>4, <1>5, <1>6 DEF Plain

(* The verdicts on an agent that is revoked, now or since before the reader. *)
NoneValid ==
  reader.kind \in {"route", "audit"} /\ reader.error = NULL /\ reader.agent \in revoked =>
    /\ reader.verified <= since.counted
    /\ reader.agent \in since.revoked => reader.verified = 0 /\ ~ reader.manifestValid

LEMMA WriteKeepsVerdicts ==
  ASSUME ScoringAssumption, Typed, TablesSeen, NoneValid, Write
  PROVE  NoneValid'
<1>1. since \in Since /\ reader \in Reading
  BY AtWork DEF Write
<1>2. CASE reader' = reader /\ revoked' = revoked /\ since'.counted = since.counted /\ since'.revoked = since.revoked
  BY <1>2 DEF NoneValid
<1>3. ASSUME NEW row \in Rows, Attest(row) PROVE NoneValid'
  BY <1>2, <1>3 DEF Attest, Change
<1>4. ASSUME NEW s \in Sources, NEW w \in Weights, Register(s, w) PROVE NoneValid'
  BY <1>2, <1>4 DEF Register, Change
<1>5. ASSUME NEW a \in Agents, NEW v \in {"public", "private"}, SetVisibility(a, v) PROVE NoneValid'
  BY <1>1, <1>2, <1>5, SeenTyped DEF SetVisibility, Change
<1>6. ASSUME NEW a \in Agents, Revoke(a) PROVE NoneValid'
  <2>1. reader' = reader /\ revoked' = revoked \cup {a} /\ a \notin revoked
    BY <1>6 DEF Revoke, Change
  <2>2. since'.revoked = since.revoked /\ since.revoked \subseteq revoked
    BY <1>1, <1>6, RevokeSeen DEF TablesSeen
  <2>3. CASE reader.agent = a
    <3>1. since'.counted = reader.verified /\ reader.verified \in Nat
      BY <1>1, <1>6, <2>3, RevokeSeen DEF Reading
    <3>2. QED
      BY <2>1, <2>2, <2>3, <3>1 DEF NoneValid
  <2>4. CASE reader.agent # a
    <3>1. since'.counted = since.counted
      BY <1>1, <1>6, <2>4, RevokeSeen
    <3>2. QED
      BY <2>1, <2>2, <2>4, <3>1 DEF NoneValid
  <2>5. QED
    BY <2>3, <2>4
<1>7. ASSUME NEW a \in Agents, NEW from \in Users, NEW to \in Users, MoveKey(a, from, to) PROVE NoneValid'
  <2> DEFINE h == since.held \cup {<<a, to>>}
  <2>1. since' = [since EXCEPT !.held = h]
    BY <1>7 DEF MoveKey
  <2> HIDE DEF h
  <2>2. since'.counted = since.counted /\ since'.revoked = since.revoked
    BY <1>1, <2>1 DEF Since
  <2>3. QED
    BY <1>2, <1>7, <2>2 DEF MoveKey, Change
<1>8. QED
  BY <1>3, <1>4, <1>5, <1>6, <1>7 DEF Write

Verdicts == Typed /\ (reader.stage # "idle" => TablesSeen /\ NoneValid)

LEMMA StepVerdicts ==
  ASSUME ScoringAssumption, Verdicts, [Next]_vars
  PROVE  Verdicts'
<1>1. Typed /\ Typed'
  BY StepTyped DEF Verdicts
<1>2. CASE UNCHANGED vars
  BY <1>1, <1>2 DEF Verdicts, vars, TablesSeen, NoneValid
<1>3. CASE Began
  <2>1. PICK kind, stage, user, agent, wish : reader' = Started(kind, stage, user, agent, wish)
    BY <1>3 DEF Began, Begin, Started
  <2>2. reader'.verified = 0 /\ reader'.manifestValid = FALSE
    BY <2>1 DEF Started
  <2>3. since'.counted = 0
    BY <1>3 DEF Began, Begin
  <2>4. QED
    BY <1>1, <1>3, <2>2, <2>3, StartsSeen DEF Verdicts, NoneValid
<1>4. CASE Plain \/ Mover \/ Write
  <2>1. reader.stage # "idle"
    BY <1>4 DEF Plain, Throws, Exists, ScorePage, ReadWeights, RowsPage, OwnerGate, WriteVisibility,
                Mover, FindAgent, CheckOwner, VerifyManifest, VerifyRow, List, NextAgent, Write
  <2>2. TablesSeen /\ NoneValid /\ reader \in Reading
    BY <1>1, <2>1, AtWork DEF Verdicts
  <2>3. TablesSeen' /\ since'.revoked = since.revoked /\ since.revoked \subseteq revoked
    BY <1>1, <1>4, <2>2, HistoryGrows DEF Grows, TablesSeen
  <2>4. CASE Write
    <3>1. QED
      BY <1>1, <2>2, <2>3, <2>4, WriteKeepsVerdicts DEF Verdicts
  <2>5. CASE Plain
    <3>1. /\ SameBut(reader', reader) /\ (Stays \/ Ends \/ HasScore)
          /\ since'.counted = since.counted /\ revoked' = revoked
      BY <1>1, <2>5, PlainSteps, CountKept
    <3>2. CASE Stays
      BY <1>1, <2>2, <2>3, <3>1, <3>2 DEF Verdicts, NoneValid, SameBut, Stays
    <3>3. CASE Ends
      BY <1>1, <2>3, <3>3 DEF Verdicts, NoneValid, Ends
    <3>4. CASE HasScore
      <4>1. PICK x \in Result : Goes(reader', reader, x)
        BY <3>4 DEF HasScore
      <4>2. CASE reader.kind = "route"
        BY <1>1, <2>2, <2>3, <3>1, <4>1, <4>2 DEF Verdicts, NoneValid, SameBut, Goes
      <4>3. CASE reader.kind # "route"
        <5>1. reader.kind # "audit"
          BY <1>1, <2>1, <3>4, AtWork DEF HasScore, Placed
        <5>2. QED
          BY <1>1, <2>3, <3>1, <4>3, <5>1 DEF Verdicts, NoneValid, SameBut
      <4>4. QED
        BY <4>2, <4>3
    <3>5. QED
      BY <3>1, <3>2, <3>3, <3>4
  <2>6. CASE Mover
    <3>1. Moved /\ since'.counted = since.counted /\ revoked' = revoked
      BY <1>1, <2>6, MovedSteps, CountKept DEF Mover
    <3>2. NoneValid'
      <4>1. ASSUME reader'.kind \in {"route", "audit"}, reader'.error = NULL, reader'.agent \in revoked'
            PROVE  /\ reader'.verified <= since'.counted
                   /\ reader'.agent \in since'.revoked => reader'.verified = 0 /\ ~ reader'.manifestValid
        <5>1. /\ reader.kind \in {"route", "audit"} /\ reader.error = NULL /\ reader'.agent = reader.agent
              /\ \/ reader'.manifestValid = reader.manifestValid
                 \/ reader'.manifestValid \in Outcomes(reader.agent)
              /\ reader'.verified = reader.verified \/ TRUE \in Outcomes(reader.agent)
          BY <3>1, <4>1 DEF Moved, Untouched, SameBut, Ends
        <5>2. /\ reader.verified <= since.counted
              /\ reader.agent \in since.revoked => reader.verified = 0 /\ ~ reader.manifestValid
          BY <2>2, <3>1, <4>1, <5>1 DEF NoneValid
        <5>3. Outcomes(reader.agent) = {FALSE}
          BY <3>1, <4>1, <5>1 DEF Outcomes
        <5>4. QED
          BY <2>3, <3>1, <5>1, <5>2, <5>3
      <4>2. QED
        BY <4>1 DEF NoneValid
    <3>3. QED
      BY <1>1, <2>3, <3>2 DEF Verdicts
  <2>7. QED
    BY <1>4, <2>4, <2>5, <2>6
<1>5. QED
  BY <1>2, <1>3, <1>4, Kinds

(* What a reader counts as valid was verified before its agent was revoked, and  *)
(* when that was before the reader began, nothing and not the manifest: the gate *)
(* is read anew for the manifest and for each row, says no when its read fails,  *)
(* and nothing revives an agent (score/route.ts:47, :60, actions.ts:175, :193,   *)
(* agent.ts:354-362, attestation.ts:611-616).                                    *)
THEOREM RevokedStaysInvalid == Spec => []RevokedVerifiesNothing
<1>1. ScoringAssumption
  BY ScoringAssumption
<1>2. Init => Verdicts
  BY <1>1, StartIsTyped DEF Verdicts, Init, NoReader
<1>3. Verdicts /\ [Next]_vars => Verdicts'
  BY <1>1, StepVerdicts
<1>4. Verdicts => RevokedVerifiesNothing
  BY DEF Verdicts, NoneValid, RevokedVerifiesNothing, Answered
<1>5. QED
  BY <1>2, <1>3, <1>4, PTL DEF Spec

(* What a reader may know: P are the agents that were public, H the keys that   *)
(* were held, at some moment since it began.                                    *)
Discreet(r, P, H) ==
  /\ r.kind = "route" =>
       /\ r.stage = "own" /\ ~ r.private => r.agent \in P
       /\ r.stage \notin {"find", "own"} /\ r.error = NULL => r.agent \in P \/ <<r.agent, r.user>> \in H
       /\ \A x \in r.answer : x.agent \in P \/ <<x.agent, r.user>> \in H
  /\ r.kind = "board" =>
       /\ r.todo \subseteq P
       /\ r.stage \in {"exists", "page", "weights"} => r.agent \in P
       /\ \A x \in r.answer : x.agent \in P
  /\ r.kind \in {"audit", "toggle"} => r.answer = {}
  /\ r.kind = "toggle" /\ (r.stage = "write" \/ (r.stage = "done" /\ r.error = NULL)) => <<r.agent, r.user>> \in H
  /\ r.isOwner => r.kind = "route" /\ r.stage \notin {"find", "own"} /\ (r.error = NULL => <<r.agent, r.user>> \in H)
  /\ r.shown = (IF r.isOwner THEN r.total ELSE 0)
  /\ r.stage \in {"find", "own"} => r.total = 0
  /\ r.error # NULL => r.stage = "done"

LEMMA StaysDiscreet ==
  ASSUME NEW r, NEW P, NEW H, Discreet(r, P, H), NEW Q, P \subseteq Q, NEW K, H \subseteq K
  PROVE  Discreet(r, Q, K)
BY DEF Discreet

LEMMA PlainDiscreet ==
  ASSUME ScoringAssumption, Typed, TablesSeen, Discreet(reader, since.public, since.held), Plain
  PROVE  Discreet(reader', since.public, since.held)
<1>1. reader.stage # "idle"
  BY DEF Plain, Throws, Exists, ScorePage, ReadWeights, RowsPage, OwnerGate, WriteVisibility
<1>2. reader \in Reading /\ Placed(reader) /\ keys \subseteq since.held
  BY <1>1, AtWork DEF TablesSeen
<1>3. SameBut(reader', reader) /\ (Stays \/ Ends \/ HasScore)
  BY PlainSteps
<1>4. CASE Stays
  <2>1. reader.stage \notin {"find", "own", "done"} /\ reader'.stage \notin {"find", "own"}
    BY <1>4 DEF Stays
  <2>2. reader.kind = "board" /\ reader'.stage \in {"exists", "page", "weights"} =>
          reader.stage \in {"exists", "page", "weights"}
    BY <1>2, <1>4 DEF Stays, Placed
  <2>3. /\ reader.kind = "toggle" /\ (reader'.stage = "write" \/ (reader'.stage = "done" /\ reader'.error = NULL))
             => \/ reader'.stage = "write" /\ <<reader.agent, reader.user>> \in keys
                \/ reader.stage = "write"
    BY <1>2, <1>4 DEF Stays, Placed
  <2>4. QED
    BY <1>2, <1>3, <1>4, <2>1, <2>2, <2>3 DEF Discreet, SameBut, Stays
<1>5. CASE Ends
  BY <1>3, <1>5 DEF Discreet, SameBut, Ends
<1>6. CASE HasScore
  <2>1. PICK x \in Result : x.agent = reader.agent /\ Goes(reader', reader, x)
    BY <1>6 DEF HasScore
  <2>2. reader.stage \in {"exists", "page", "weights"} /\ reader.kind \in {"route", "board", "dashboard"}
    BY <1>2, <1>6 DEF HasScore, Placed, Reading
  <2>3. reader'.answer \subseteq reader.answer \cup {x}
    BY <2>1 DEF Goes
  <2>4. CASE reader.kind = "route"
    <3>1. \/ reader'.stage = "rows" /\ reader'.agent = reader.agent /\ reader'.error = reader.error
          \/ reader'.stage = "done" /\ reader'.error # NULL /\ reader'.answer = reader.answer
      BY <2>1, <2>4 DEF Goes
    <3>2. reader'.stage = "rows" /\ reader.error = NULL =>
            reader.agent \in since.public \/ <<reader.agent, reader.user>> \in since.held
      BY <2>2, <2>4 DEF Discreet
    <3>3. \A y \in reader'.answer : y.agent \in since.public \/ <<y.agent, reader.user>> \in since.held
      <4>1. CASE reader'.answer = reader.answer
        BY <2>4, <4>1 DEF Discreet
      <4>2. CASE reader'.stage = "rows" /\ reader.error = NULL
        BY <2>1, <2>3, <2>4, <3>2, <4>2 DEF Discreet
      <4>3. CASE reader.error # NULL
        <5>1. FALSE
          BY <2>2, <4>3, <2>4 DEF Discreet
        <5>2. QED
          BY <5>1
      <4>4. QED
        BY <3>1, <4>1, <4>2, <4>3
    <3>4. QED
      BY <1>3, <2>2, <2>4, <3>1, <3>2, <3>3 DEF Discreet, SameBut
  <2>5. CASE reader.kind # "route"
    <3>1. reader'.stage = "next" /\ reader'.error = reader.error /\ ~ reader.isOwner
      BY <2>1, <2>5 DEF Goes, Discreet
    <3>2. reader.kind = "board" => \A y \in reader'.answer : y.agent \in since.public
      BY <2>1, <2>2, <2>3 DEF Discreet
    <3>3. QED
      BY <1>3, <2>2, <2>5, <3>1, <3>2 DEF Discreet, SameBut
  <2>6. QED
    BY <2>4, <2>5
<1>7. QED
  BY <1>3, <1>4, <1>5, <1>6

LEMMA MoverDiscreet ==
  ASSUME ScoringAssumption, Typed, TablesSeen, Discreet(reader, since.public, since.held), Mover
  PROVE  Discreet(reader', since.public, since.held)
<1>1. Moved /\ reader.stage # "idle"
  BY MovedSteps DEF Mover
<1>2. reader \in Reading /\ Placed(reader)
  BY <1>1, AtWork
<1>3. keys \subseteq since.held /\ PublicAgents \subseteq since.public
  BY DEF TablesSeen, PublicAgents
<1>4. CASE /\ FindAgent /\ Untouched /\ reader'.agent = reader.agent /\ reader'.stage = "own"
           /\ reader'.private = (visibility[reader.agent] = "private")
           /\ reader'.todo = reader.todo /\ reader'.isOwner = reader.isOwner
           /\ reader'.total = reader.total /\ reader'.shown = reader.shown
  <2>1. reader.stage = "find" /\ reader.kind = "route" /\ reader.agent \in Agents
    BY <1>2, <1>4 DEF FindAgent, Placed, InHand, Reading
  <2>2. visibility[reader.agent] \in {"public", "private"}
    BY <2>1 DEF Typed, TypeOK
  <2>3. ~ reader'.private => reader.agent \in since.public
    BY <1>4, <2>1, <2>2 DEF TablesSeen
  <2>4. QED
    BY <1>4, <2>1, <2>3 DEF Discreet, Untouched
<1>5. CASE /\ CheckOwner /\ Untouched /\ reader'.agent = reader.agent /\ reader'.stage = "manifest"
           /\ reader'.isOwner = (<<reader.agent, reader.user>> \in keys) /\ (reader.private => reader'.isOwner)
           /\ reader'.todo = reader.todo /\ reader'.private = reader.private
           /\ reader'.total = reader.total /\ reader'.shown = reader.shown
  <2>1. reader.stage = "own" /\ reader.kind = "route"
    BY <1>2, <1>5 DEF CheckOwner, Placed, Reading
  <2>2. reader.total = 0 /\ reader.shown = 0
    BY <2>1 DEF Discreet
  <2>3. reader'.isOwner => <<reader.agent, reader.user>> \in since.held
    BY <1>3, <1>5
  <2>4. reader.agent \in since.public \/ <<reader.agent, reader.user>> \in since.held
    BY <1>5, <2>1, <2>3 DEF Discreet
  <2>5. QED
    BY <1>5, <2>1, <2>2, <2>3, <2>4 DEF Discreet, Untouched
<1>6. CASE SameBut(reader', reader) /\ Ends
  BY <1>6 DEF Discreet, SameBut, Ends
<1>7. CASE /\ VerifyManifest /\ Untouched /\ reader'.agent = reader.agent /\ reader'.stage \in {"rows", "exists"}
           /\ reader'.todo = reader.todo /\ reader'.private = reader.private /\ reader'.isOwner = reader.isOwner
           /\ reader'.total = reader.total /\ reader'.shown = reader.shown
  <2>1. reader.stage = "manifest" /\ reader.kind \in {"route", "audit"}
    BY <1>2, <1>7 DEF VerifyManifest, Placed, Reading
  <2>2. QED
    BY <1>7, <2>1 DEF Discreet, Untouched
<1>8. CASE /\ VerifyRow /\ Untouched /\ reader'.agent = reader.agent
           /\ reader'.stage \in {"verify", "rows", "done"}
           /\ reader'.todo = reader.todo /\ reader'.private = reader.private /\ reader'.isOwner = reader.isOwner
           /\ reader'.total = reader.total + 1
           /\ reader'.shown = IF reader.isOwner THEN reader.shown + 1 ELSE reader.shown
  <2>1. reader.stage = "verify" /\ reader.kind \in {"route", "audit"}
    BY <1>2, <1>8 DEF VerifyRow, Placed, Reading
  <2>2. reader'.shown = IF reader'.isOwner THEN reader'.total ELSE 0
    BY <1>8 DEF Discreet
  <2>3. QED
    BY <1>8, <2>1, <2>2 DEF Discreet, Untouched
<1>9. CASE /\ (List \/ NextAgent) /\ Untouched
           /\ reader.kind \in {"board", "dashboard"} /\ reader'.stage \in {"next", "exists", "done"}
           /\ reader.kind = "board" => /\ reader'.todo \subseteq reader.todo \cup PublicAgents
                                       /\ reader'.stage = "exists" => reader'.agent \in reader.todo
           /\ reader'.private = reader.private /\ reader'.isOwner = reader.isOwner
           /\ reader'.total = reader.total /\ reader'.shown = reader.shown
  <2>1. reader.stage \in {"list", "next"}
    BY <1>9 DEF List, NextAgent
  <2>2. reader.kind = "board" =>
          reader'.todo \subseteq since.public /\ (reader'.stage = "exists" => reader'.agent \in since.public)
    BY <1>3, <1>9 DEF Discreet
  <2>3. QED
    BY <1>9, <2>1, <2>2 DEF Discreet, Untouched
<1>10. QED
  BY <1>1, <1>4, <1>5, <1>6, <1>7, <1>8, <1>9 DEF Moved

LEMMA StartsDiscreet ==
  ASSUME ScoringAssumption, Began, NEW P, NEW H
  PROVE  Discreet(reader', P, H)
<1>1. PICK kind, stage, user, agent, wish :
        Asked(kind, stage, user, agent, wish) /\ reader' = Started(kind, stage, user, agent, wish)
  BY DEF Began, Begin, Started
<1>2. QED
  BY <1>1 DEF Asked, Started, Discreet

Discretion == Typed /\ (reader.stage # "idle" => TablesSeen /\ Discreet(reader, since.public, since.held))

LEMMA StepDiscretion ==
  ASSUME ScoringAssumption, Discretion, [Next]_vars
  PROVE  Discretion'
<1>1. Typed /\ Typed'
  BY StepTyped DEF Discretion
<1>2. CASE UNCHANGED vars
  BY <1>1, <1>2 DEF Discretion, vars, TablesSeen, Discreet
<1>3. CASE Began
  <2>1. Discreet(reader', since'.public, since'.held)
    BY <1>3, StartsDiscreet
  <2>2. QED
    BY <1>1, <1>3, <2>1, StartsSeen DEF Discretion
<1>4. CASE Plain \/ Mover \/ Write
  <2>1. reader.stage # "idle"
    BY <1>4 DEF Plain, Throws, Exists, ScorePage, ReadWeights, RowsPage, OwnerGate, WriteVisibility,
                Mover, FindAgent, CheckOwner, VerifyManifest, VerifyRow, List, NextAgent, Write
  <2>2. TablesSeen /\ Discreet(reader, since.public, since.held)
    BY <2>1 DEF Discretion
  <2>3. TablesSeen' /\ since.public \subseteq since'.public /\ since.held \subseteq since'.held
    BY <1>1, <1>4, <2>2, HistoryGrows DEF Grows
  <2>4. Write => reader' = reader
    BY DEF Write, Attest, Register, SetVisibility, Revoke, MoveKey, Change
  <2>5. Discreet(reader', since.public, since.held)
    BY <1>1, <1>4, <2>2, <2>4, PlainDiscreet, MoverDiscreet
  <2>6. Discreet(reader', since'.public, since'.held)
    BY <2>3, <2>5, StaysDiscreet
  <2>7. QED
    BY <1>1, <2>3, <2>6 DEF Discretion
<1>5. QED
  BY <1>2, <1>3, <1>4, Kinds

(* An agent that stays private while a request runs is seen by its owners only:  *)
(* the score by a user that held the key, no score on the board, and the rows    *)
(* and the answer to a change of visibility by such a user alone                 *)
(* (score/route.ts:26-35, :62; leaderboard/page.tsx:50; visibility/route.ts:39). *)
THEOREM PrivateAgentsHidden == Spec => []PrivateStaysHidden
<1>1. ScoringAssumption
  BY ScoringAssumption
<1>2. Init => Discretion
  BY <1>1, StartIsTyped DEF Discretion, Init, NoReader
<1>3. Discretion /\ [Next]_vars => Discretion'
  BY <1>1, StepDiscretion
<1>4. Discretion => PrivateStaysHidden
  <2> SUFFICES ASSUME Discretion, reader.stage # "idle" PROVE PrivateStaysHidden
    BY DEF PrivateStaysHidden, Answered
  <2>1. reader \in Reading /\ Placed(reader) /\ Discreet(reader, since.public, since.held)
    BY AtWork DEF Discretion
  <2>2. Scores \subseteq reader.answer
    BY DEF Scores
  <2>3. reader.kind \in {"route", "audit", "toggle", "board", "dashboard"} /\ reader.total \in Nat
    BY <2>1 DEF Reading
  <2>4. reader.kind # "dashboard" =>
          \A x \in Scores : \/ x.agent \in since.public
                            \/ reader.kind = "route" /\ <<x.agent, reader.user>> \in since.held
    BY <2>1, <2>2, <2>3 DEF Discreet
  <2>5. Answered /\ (reader.shown > 0 \/ reader.kind = "toggle") => <<reader.agent, reader.user>> \in since.held
    BY <2>1 DEF Discreet, Answered
  <2>6. Answered /\ reader.kind = "route" => reader.shown \in {0, reader.total}
    BY <2>1 DEF Discreet
  <2>7. QED
    BY <2>4, <2>5, <2>6 DEF PrivateStaysHidden
<1>5. QED
  BY <1>2, <1>3, <1>4, PTL DEF Spec

----------------------------------------------------------------------------
(* The walk.  When the walk has come to a cursor, what it has read are the   *)
(* rows from the cursor on that were there when it began, and what it will   *)
(* read are the ones below: rows are only appended.                          *)

Newer(R, c) == {i \in R : i >= c}
Older(R, c) == {i \in R : i < c}

AtCursor(a, c, t, n, R) ==
  IF c = NULL THEN t = Empty /\ n = 0
  ELSE /\ c \in DOMAIN ledger /\ Unread(a, c) = Older(R, c)
       /\ Tallied(t, Newer(R, c)) /\ n = Cardinality(Newer(R, c)) /\ n <= Cap

AtEnd(t, R) == Tallied(t, R) /\ Cardinality(R) <= Cap

Exact(x, R, table) ==
  AtEnd(x.tally, R) /\ x.composite = SumFunction([i \in R |-> RowWeight(i, table)])

TooLong(x, R) == x.error = "SCORE_COMPUTATION_LIMIT_EXCEEDED" => Cardinality(R) > Cap

Right(x, R, table) == (x.ok => Exact(x, R, table)) /\ (~ x.ok => TooLong(x, R))

(* An agent has one answer: none while it is to do or in hand. *)
Fresh(r) ==
  /\ \A x \in r.answer : x.agent \notin r.todo
  /\ r.stage \in {"exists", "page", "weights"} => r.agent \notin r.todo /\ \A x \in r.answer : x.agent # r.agent
  /\ r.stage \in {"find", "own", "manifest", "list", "gate", "write"} => r.answer = {} /\ r.todo = {}

RowsWalked ==
  /\ \A a \in Agents : since.rows[a] \subseteq RowsOf(a)
  /\ reader.stage = "page" =>
       AtCursor(reader.agent, reader.cursor, reader.tally, reader.processed, since.rows[reader.agent])
  /\ reader.stage = "weights" => AtEnd(reader.tally, since.rows[reader.agent])
  /\ \A x \in reader.answer : Right(x, since.rows[x.agent], since.table[x.agent])

Walks == Typed /\ (reader.stage # "idle" => Fresh(reader) /\ RowsWalked)

(* The ledger, or one with more rows. *)
Longer ==
  /\ ledger \in Seq(Attestation) /\ ledger' \in Seq(Attestation)
  /\ Len(ledger) <= Len(ledger')
  /\ \A i \in DOMAIN ledger : i \in DOMAIN ledger' /\ ledger'[i] = ledger[i]

LEMMA LedgerGrows ==
  ASSUME ScoringAssumption, Typed, Plain \/ Mover \/ Write
  PROVE  Longer
<1>1. ledger \in Seq(Attestation)
  BY DEF Typed, TypeOK
<1>2. CASE ledger' = ledger
  BY <1>1, <1>2 DEF Longer
<1>3. ASSUME NEW row \in Rows, Attest(row) PROVE Longer
  <2>1. ledger' = Append(ledger, row) /\ row \in Attestation
    BY <1>3 DEF Attest, ScoringAssumption
  <2>2. /\ ledger' \in Seq(Attestation) /\ Len(ledger') = Len(ledger) + 1
        /\ \A i \in 1..Len(ledger) : ledger'[i] = ledger[i]
        /\ DOMAIN ledger = 1..Len(ledger) /\ DOMAIN ledger' = 1..Len(ledger')
        /\ Len(ledger) \in Nat
    BY <1>1, <2>1, AppendProperties
  <2>3. QED
    BY <1>1, <2>2 DEF Longer
<1>4. CASE Write
  BY <1>2, <1>3, <1>4 DEF Write, Register, SetVisibility, Revoke, MoveKey, Change
<1>5. CASE Plain
  BY <1>2, <1>5 DEF Plain, Throws, Exists, ScorePage, ReadWeights, RowsPage, OwnerGate, WriteVisibility, writers
<1>6. CASE Mover
  BY <1>2, <1>6 DEF Mover, FindAgent, CheckOwner, VerifyManifest, VerifyRow, List, NextAgent, writers
<1>7. QED
  BY <1>4, <1>5, <1>6

LEMMA TalliedKept ==
  ASSUME Longer, NEW CONSTANT P \in SUBSET DOMAIN ledger, NEW CONSTANT t, Tallied(t, P)
  PROVE  Tallied(t, P)'
<1>1. \A i \in P : ledger'[i] = ledger[i]
  BY DEF Longer
<1>2. Named(P)' = Named(P)
  BY <1>1 DEF Named
<1>3. \A s : RowsFrom(P, s)' = RowsFrom(P, s)
  BY <1>1 DEF RowsFrom
<1>4. \A s : TimesFrom(P, s)' = TimesFrom(P, s)
  BY <1>1, <1>3 DEF TimesFrom, RowsFrom
<1>5. \A s : \A i \in RowsFrom(P, s) : ledger'[i].time = ledger[i].time
  BY <1>1 DEF RowsFrom
<1>6. QED
  BY <1>2, <1>3, <1>4, <1>5 DEF Tallied

LEMMA RightKept ==
  ASSUME Longer, NEW CONSTANT P \in SUBSET DOMAIN ledger, NEW CONSTANT x, NEW CONSTANT table, Right(x, P, table)
  PROVE  Right(x, P, table)'
<1>1. \A i \in P : ledger'[i] = ledger[i]
  BY DEF Longer
<1>2. [i \in P |-> RowWeight(i, table)]' = [i \in P |-> RowWeight(i, table)]
  BY <1>1 DEF RowWeight
<1>3. ASSUME x.ok PROVE Exact(x, P, table)'
  <2>1. Tallied(x.tally, P)'
    <3>1. PICK t : t = x.tally
      OBVIOUS
    <3>2. Tallied(t, P)'
      BY <1>3, <3>1, TalliedKept DEF Right, Exact, AtEnd
    <3>3. QED
      BY <3>1, <3>2
  <2>2. QED
    BY <1>2, <1>3, <2>1 DEF Right, Exact, AtEnd
<1>4. QED
  BY <1>3 DEF Right, TooLong

LEMMA CursorKept ==
  ASSUME Longer, NEW CONSTANT a, NEW CONSTANT c, NEW CONSTANT t, NEW CONSTANT n,
         NEW CONSTANT R, R \subseteq RowsOf(a), AtCursor(a, c, t, n, R)
  PROVE  AtCursor(a, c, t, n, R)'
<1>1. CASE c = NULL
  BY <1>1 DEF AtCursor
<1>2. CASE c # NULL
  <2>1. c \in DOMAIN ledger /\ Unread(a, c) = Older(R, c) /\ Tallied(t, Newer(R, c))
        /\ n = Cardinality(Newer(R, c)) /\ n <= Cap
    BY <1>2 DEF AtCursor
  <2>2. /\ DOMAIN ledger = 1..Len(ledger) /\ Len(ledger) \in Nat
        /\ DOMAIN ledger' = 1..Len(ledger') /\ Len(ledger') \in Nat
    BY DEF Longer
  <2>3. \A i \in DOMAIN ledger' : i < c => i \in DOMAIN ledger
    BY <2>1, <2>2
  <2>4. Unread(a, c)' = Unread(a, c)
    BY <1>2, <2>3 DEF Unread, RowsOf, Longer
  <2>5. Newer(R, c) \in SUBSET DOMAIN ledger
    BY DEF Newer, RowsOf
  <2>6. PICK P : P = Newer(R, c)
    OBVIOUS
  <2>7. Tallied(t, P)'
    BY <2>1, <2>5, <2>6, TalliedKept
  <2>8. c \in DOMAIN ledger'
    BY <2>1 DEF Longer
  <2>9. Tallied(t, Newer(R, c))'
    BY <2>6, <2>7 DEF Newer
  <2>10. Newer(R, c)' = Newer(R, c) /\ Older(R, c)' = Older(R, c)
    BY DEF Newer, Older
  <2>11. QED
    BY <1>2, <2>1, <2>4, <2>8, <2>9, <2>10 DEF AtCursor
<1>3. QED
  BY <1>1, <1>2

LEMMA RowsKept ==
  ASSUME Longer, NEW CONSTANT a
  PROVE  RowsOf(a) \subseteq RowsOf(a)'
BY DEF Longer, RowsOf

(* What one step of the walk reads, R being the rows that were there when it     *)
(* began: P is on the page, what was read before is Past.                         *)
Midway(R, Past, U, t, n) ==
  /\ R = Past \cup U /\ Past \cap U = {}
  /\ Tallied(t, Past) /\ n = Cardinality(Past)
  /\ Past \in SUBSET DOMAIN ledger /\ IsFiniteSet(Past)

LEMMA WalkSplits ==
  ASSUME ScoringAssumption, Sequenced, NEW a, NEW c \in Nat \cup {NULL}, NEW t, NEW n, NEW R,
         R \subseteq RowsOf(a), c = NULL => R = RowsOf(a), AtCursor(a, c, t, n, R)
  PROVE  \E Past : Midway(R, Past, Unread(a, c), t, n) /\ (c # NULL => \A i \in Past : i >= c)
<1>1. RowsOf(a) \in SUBSET Nat /\ IsFiniteSet(RowsOf(a)) /\ RowsOf(a) \in SUBSET DOMAIN ledger
  BY RowsFinite
<1>2. CASE c = NULL
  <2>1. Unread(a, c) = R
    BY <1>2 DEF Unread
  <2>2. Tallied(t, {})
    BY <1>2 DEF AtCursor, Empty, Tallied, Named
  <2>3. n = Cardinality({}) /\ IsFiniteSet({})
    BY <1>2, FS_EmptySet DEF AtCursor
  <2>4. Midway(R, {}, Unread(a, c), t, n)
    BY <2>1, <2>2, <2>3 DEF Midway
  <2>5. QED
    BY <1>2, <2>4
<1>3. CASE c # NULL
  <2>1. Unread(a, c) = Older(R, c) /\ Tallied(t, Newer(R, c)) /\ n = Cardinality(Newer(R, c))
    BY <1>3 DEF AtCursor
  <2>2. \A i \in R : i \in Nat /\ c \in Nat /\ (i >= c <=> ~ (i < c))
    BY <1>1, <1>3
  <2>3. R = Newer(R, c) \cup Older(R, c) /\ Newer(R, c) \cap Older(R, c) = {}
    BY <2>2 DEF Newer, Older
  <2>4. Newer(R, c) \in SUBSET RowsOf(a)
    BY DEF Newer
  <2>5. IsFiniteSet(Newer(R, c)) /\ Newer(R, c) \in SUBSET DOMAIN ledger
    BY <1>1, <2>4, FS_Subset
  <2>6. Midway(R, Newer(R, c), Unread(a, c), t, n)
    BY <2>1, <2>3, <2>5 DEF Midway
  <2>7. \A i \in Newer(R, c) : i >= c
    BY DEF Newer
  <2>8. QED
    BY <2>6, <2>7
<1>4. QED
  BY <1>2, <1>3

LEMMA DisjointSizes ==
  ASSUME NEW P, IsFiniteSet(P), NEW Q, IsFiniteSet(Q), P \cap Q = {}
  PROVE  /\ IsFiniteSet(P \cup Q) /\ Cardinality(P \cup Q) = Cardinality(P) + Cardinality(Q)
         /\ Cardinality(P) \in Nat /\ Cardinality(Q) \in Nat
<1>1. Cardinality(P \cap Q) = 0
  BY FS_EmptySet
<1>2. IsFiniteSet(P \cup Q) /\ Cardinality(P \cup Q) = Cardinality(P) + Cardinality(Q) - Cardinality(P \cap Q)
  BY FS_Union
<1>3. Cardinality(P) \in Nat /\ Cardinality(Q) \in Nat
  BY FS_CardinalityType
<1> DEFINE p == Cardinality(P)
           q == Cardinality(Q)
<1>4. Cardinality(P \cup Q) = p + q - 0
  BY <1>1, <1>2
<1>5. p + q - 0 = p + q
  <2> HIDE DEF p, q
  <2>1. p \in Nat /\ q \in Nat
    BY <1>3 DEF p, q
  <2>2. QED
    BY <2>1
<1>6. QED
  BY <1>2, <1>3, <1>4, <1>5

LEMMA WalkStep ==
  ASSUME ScoringAssumption, Typed, reader.stage = "page",
         NEW R, R \subseteq RowsOf(reader.agent), reader.cursor = NULL => R = RowsOf(reader.agent),
         AtCursor(reader.agent, reader.cursor, reader.tally, reader.processed, R)
  PROVE  /\ TooMany(reader, PageNow) => Cardinality(R) > Cap
         /\ ~ TooMany(reader, PageNow) /\ CursorNow # NULL =>
              AtCursor(reader.agent, CursorNow, TallyNow, reader.processed + Cardinality(PageNow), R)
         /\ ~ TooMany(reader, PageNow) /\ CursorNow = NULL => AtEnd(TallyNow, R)
<1> DEFINE a == reader.agent
           c == reader.cursor
           t == reader.tally
           n == reader.processed
           U == Unread(a, c)
           k == n + Cardinality(PageNow)
<1>1. reader \in Reading /\ Sequenced
  BY AtWork
<1>2. c \in Nat \cup {NULL} /\ t \in Tallies /\ n \in Nat
  BY <1>1 DEF Reading
<1>3. PICK Past : Midway(R, Past, U, t, n) /\ (c # NULL => \A i \in Past : i >= c)
  BY <1>1, <1>2, WalkSplits
<1>4. /\ R = Past \cup U /\ Past \cap U = {} /\ Tallied(t, Past) /\ n = Cardinality(Past)
      /\ Past \in SUBSET DOMAIN ledger /\ IsFiniteSet(Past)
  BY <1>3 DEF Midway
<1>5. RowsOf(a) \in SUBSET Nat /\ IsFiniteSet(RowsOf(a)) /\ RowsOf(a) \in SUBSET DOMAIN ledger
      /\ U \in SUBSET RowsOf(a)
  BY <1>1, RowsFinite
<1>6. /\ PageNow \in SUBSET DOMAIN ledger /\ IsFiniteSet(PageNow) /\ Cardinality(PageNow) \in Nat
      /\ CursorNow \in Nat \cup {NULL}
      /\ CursorNow = NULL => PageNow = U
      /\ CursorNow # NULL => /\ CursorNow \in PageNow /\ PageNow = {i \in U : i >= CursorNow}
                             /\ U \ PageNow = {i \in U : i < CursorNow}
  BY <1>1, ReadPage
<1>7. PageNow \in SUBSET U
  BY <1>6
<1>8. IsFiniteSet(R) /\ Cardinality(R) \in Nat /\ Cap \in Nat
  BY <1>5, FS_Subset, FS_CardinalityType DEF ScoringAssumption
<1>9. /\ IsFiniteSet(Past \cup PageNow) /\ Cardinality(Past \cup PageNow) = k /\ k \in Nat
  <2>1. Past \cap PageNow = {}
    BY <1>4, <1>7
  <2>2. /\ IsFiniteSet(Past \cup PageNow)
        /\ Cardinality(Past \cup PageNow) = Cardinality(Past) + Cardinality(PageNow)
    BY <1>4, <1>6, <2>1, DisjointSizes
  <2>3. Cardinality(Past \cup PageNow) \in Nat
    BY <2>2, FS_CardinalityType
  <2>4. QED
    BY <1>4, <2>2, <2>3
<1>10. Tallied(TallyNow, Past \cup PageNow)
  <2>1. Past \cap PageNow = {}
    BY <1>4, <1>7
  <2>2. QED
    BY <1>1, <1>2, <1>4, <1>6, <2>1, TallyAddsPage DEF TallyNow
<1>11. TooMany(reader, PageNow) <=> k > Cap
  BY DEF TooMany
<1>12. k <= Cardinality(R)
  <2>1. Past \cup PageNow \in SUBSET R
    BY <1>4, <1>7
  <2>2. QED
    BY <1>8, <1>9, <2>1, FS_Subset
<1> HIDE DEF k
<1>13. TooMany(reader, PageNow) => Cardinality(R) > Cap
  BY <1>8, <1>9, <1>11, <1>12
<1>14. ASSUME ~ TooMany(reader, PageNow), CursorNow # NULL
       PROVE  AtCursor(a, CursorNow, TallyNow, k, R)
  <2> DEFINE d == CursorNow
  <2>1. d \in Nat /\ d \in PageNow /\ PageNow = {i \in U : i >= d} /\ U \ PageNow = {i \in U : i < d}
        /\ d \in U /\ d \in DOMAIN ledger /\ d # NULL
    BY <1>6, <1>7, <1>14
  <2>2. c # NULL => d < c /\ c \in Nat
    BY <1>2, <2>1 DEF Unread
  <2>3. \A i \in Past : i \in Nat /\ i >= d
    <3>1. CASE c = NULL
      BY <1>4, <3>1, FS_EmptySet DEF AtCursor
    <3>2. CASE c # NULL
      <4>1. \A i \in Past : i \in Nat /\ i >= c
        BY <1>3, <1>4, <1>5, <3>2
      <4>2. QED
        BY <2>1, <2>2, <3>2, <4>1
    <3>3. QED
      BY <3>1, <3>2
  <2>4. Newer(R, d) = Past \cup PageNow
    BY <1>4, <2>1, <2>3 DEF Newer
  <2>5. Older(R, d) = {i \in U : i < d}
    <3>1. \A i \in Past : ~ (i < d)
      BY <2>1, <2>3
    <3>2. QED
      BY <1>4, <3>1 DEF Older
  <2>6. Unread(a, d) = {i \in U : i < d}
    <3>1. \A i \in RowsOf(a) : i < d => i \in Nat /\ (c # NULL => i < c)
      BY <1>5, <2>1, <2>2
    <3>2. QED
      BY <2>1, <3>1 DEF Unread
  <2>7. k <= Cap
    BY <1>8, <1>9, <1>11, <1>14
  <2> HIDE DEF d, a
  <2>8. QED
    BY <1>9, <1>10, <2>1, <2>4, <2>5, <2>6, <2>7 DEF AtCursor, d
<1>15. ASSUME ~ TooMany(reader, PageNow), CursorNow = NULL
       PROVE  AtEnd(TallyNow, R)
  <2>1. Past \cup PageNow = R
    BY <1>4, <1>6, <1>15
  <2>2. k <= Cap
    BY <1>8, <1>9, <1>11, <1>15
  <2>3. QED
    BY <1>9, <1>10, <2>1, <2>2 DEF AtEnd
<1>16. QED
  BY <1>13, <1>14, <1>15 DEF k

LEMMA NativeIsExact ==
  ASSUME ScoringAssumption, Sequenced, NEW R \in SUBSET DOMAIN ledger, IsFiniteSet(R), AtEnd(TallyNow, R),
         DOMAIN TallyNow \subseteq {Native}, NEW table
  PROVE  Right(NativeScore, R, table)
<1>1. Named(R) \subseteq {Native} /\ Tallied(TallyNow, R)
  BY DEF AtEnd, Tallied
<1>2. \A i \in R : RowWeight(i, table) = 1 /\ RowWeight(i, Empty) = 1
  BY <1>1 DEF Named, RowWeight
<1>3. [i \in R |-> RowWeight(i, table)] = [i \in R |-> RowWeight(i, Empty)]
  BY <1>2
<1>4. Composite(TallyNow, Empty) = SumFunction([i \in R |-> RowWeight(i, Empty)])
  BY <1>1, EmptyIs, CompositeIsSum
<1>5. NativeScore.ok /\ NativeScore.tally = TallyNow /\ NativeScore.composite = Composite(TallyNow, Empty)
  BY DEF NativeScore
<1>6. Exact(NativeScore, R, table)
  BY <1>3, <1>4, <1>5 DEF Exact
<1>7. QED
  BY <1>5, <1>6 DEF Right

LEMMA WeighedIsExact ==
  ASSUME ScoringAssumption, Sequenced, NEW R \in SUBSET DOMAIN ledger, IsFiniteSet(R), AtEnd(reader.tally, R),
         registered \in Tables
  PROVE  Right(WeighedScore, R, registered)
<1>1. Tallied(reader.tally, R)
  BY DEF AtEnd
<1>2. Composite(reader.tally, registered) = SumFunction([i \in R |-> RowWeight(i, registered)])
  BY <1>1, CompositeIsSum
<1>3. /\ WeighedScore.ok /\ WeighedScore.tally = reader.tally
      /\ WeighedScore.composite = Composite(reader.tally, registered)
  BY DEF WeighedScore
<1>4. Exact(WeighedScore, R, registered)
  BY <1>2, <1>3 DEF Exact
<1>5. QED
  BY <1>3, <1>4 DEF Right

LEMMA FreshSteps ==
  ASSUME ScoringAssumption, Typed, Fresh(reader), Plain \/ Mover
  PROVE  Fresh(reader')
<1>1. reader.stage # "idle"
  BY DEF Plain, Throws, Exists, ScorePage, ReadWeights, RowsPage, OwnerGate, WriteVisibility,
         Mover, FindAgent, CheckOwner, VerifyManifest, VerifyRow, List, NextAgent
<1>2. reader \in Reading /\ Placed(reader)
  BY <1>1, AtWork
<1>3. CASE Plain
  <2>1. SameBut(reader', reader) /\ (Stays \/ Ends \/ HasScore)
    BY <1>3, PlainSteps
  <2>2. CASE Stays
    BY <2>1, <2>2 DEF Fresh, SameBut, Stays
  <2>3. CASE Ends
    BY <2>1, <2>3 DEF Fresh, SameBut, Ends
  <2>4. CASE HasScore
    <3>1. PICK x \in Result : x.agent = reader.agent /\ Goes(reader', reader, x)
      BY <2>4 DEF HasScore
    <3>2. reader'.answer \subseteq reader.answer \cup {x} /\ reader'.stage \in {"rows", "done", "next"}
      BY <3>1 DEF Goes
    <3>3. \A y \in reader'.answer : y.agent \notin reader.todo
      BY <2>4, <3>1, <3>2 DEF Fresh, HasScore
    <3>4. QED
      BY <2>1, <3>2, <3>3 DEF Fresh, SameBut
  <2>5. QED
    BY <2>1, <2>2, <2>3, <2>4
<1>4. CASE List
  <2>1. reader.stage = "list" /\ reader.answer = {}
    BY <1>4 DEF List, Fresh
  <2>2. PICK d : reader' = [reader EXCEPT !.stage = "next", !.todo = d]
    BY <1>4 DEF List
  <2>3. reader'.stage = "next" /\ reader'.answer = {}
    BY <1>2, <2>1, <2>2 DEF Reading
  <2>4. QED
    BY <2>3 DEF Fresh
<1>5. CASE NextAgent
  <2>1. CASE \E a \in reader.todo :
               reader' = [reader EXCEPT !.stage = "exists", !.agent = a, !.todo = @ \ {a}]
    <3>1. PICK a \in reader.todo :
            reader' = [reader EXCEPT !.stage = "exists", !.agent = a, !.todo = reader.todo \ {a}]
      BY <2>1
    <3>2. /\ reader'.stage = "exists" /\ reader'.answer = reader.answer /\ reader'.agent = a
          /\ reader'.todo = reader.todo \ {a}
      BY <1>2, <3>1 DEF Reading
    <3>3. QED
      BY <3>1, <3>2 DEF Fresh
  <2>2. CASE reader' = [reader EXCEPT !.stage = "done"]
    <3>1. reader'.stage = "done" /\ reader'.answer = reader.answer /\ reader'.todo = reader.todo
      BY <1>2, <2>2 DEF Reading
    <3>2. QED
      BY <3>1 DEF Fresh
  <2>3. QED
    BY <1>5, <2>1, <2>2 DEF NextAgent
<1>6. CASE FindAgent \/ CheckOwner \/ VerifyManifest \/ VerifyRow
  <2>1. Moved
    BY <1>6, MovedSteps
  <2>2. /\ ~ List /\ ~ NextAgent
    BY <1>6 DEF FindAgent, CheckOwner, VerifyManifest, VerifyRow, List, NextAgent
  <2>3. CASE SameBut(reader', reader) /\ Ends
    BY <2>3 DEF Fresh, SameBut, Ends
  <2>4. CASE /\ reader'.answer = reader.answer /\ reader'.todo = reader.todo /\ reader'.agent = reader.agent
             /\ \/ FindAgent /\ reader'.stage = "own"
                \/ CheckOwner /\ reader'.stage = "manifest"
                \/ VerifyManifest /\ reader'.stage \in {"rows", "exists"}
                \/ VerifyRow /\ reader'.stage \in {"verify", "rows", "done"}
    BY <2>4 DEF Fresh, FindAgent, CheckOwner, VerifyManifest, VerifyRow
  <2>5. QED
    BY <2>1, <2>2, <2>3, <2>4 DEF Moved, Untouched
<1>7. QED
  BY <1>3, <1>4, <1>5, <1>6 DEF Mover

(* A right answer stays right: of its agent, rows and weights are read no more. *)
LEMMA RightThen ==
  ASSUME Longer, NEW CONSTANT x, NEW CONSTANT P \in SUBSET DOMAIN ledger, NEW CONSTANT table,
         Right(x, P, table), since'.rows[x.agent] = P, since'.table[x.agent] = table
  PROVE  Right(x, since.rows[x.agent], since.table[x.agent])'
<1>1. Right(x, P, table)'
  BY RightKept
<1>2. QED
  BY <1>1

LEMMA AnswerKept ==
  ASSUME Typed, reader.stage # "idle", RowsWalked, Longer, NEW CONSTANT x, x \in reader.answer,
         since'.rows[x.agent] = since.rows[x.agent], since'.table[x.agent] = since.table[x.agent]
  PROVE  Right(x, since.rows[x.agent], since.table[x.agent])'
<1>1. x.agent \in Agents
  BY AtWork DEF Reading, Result
<1>2. since.rows[x.agent] \in SUBSET DOMAIN ledger
  BY <1>1 DEF RowsWalked, RowsOf
<1>3. PICK P, table : P = since.rows[x.agent] /\ table = since.table[x.agent]
  OBVIOUS
<1>4. Right(x, P, table) /\ P \in SUBSET DOMAIN ledger
  BY <1>2, <1>3 DEF RowsWalked
<1>5. since'.rows[x.agent] = P /\ since'.table[x.agent] = table
  BY <1>3
<1>6. QED
  BY <1>4, <1>5, RightThen

LEMMA RowsStay ==
  ASSUME RowsWalked, Longer, since'.rows = since.rows
  PROVE  \A a \in Agents : since'.rows[a] \subseteq RowsOf(a)'
<1> SUFFICES ASSUME NEW a \in Agents PROVE since'.rows[a] \subseteq RowsOf(a)'
  OBVIOUS
<1>1. RowsOf(a) \subseteq RowsOf(a)'
  BY RowsKept
<1>2. since.rows[a] \subseteq RowsOf(a)
  BY DEF RowsWalked
<1>3. QED
  BY <1>1, <1>2

LEMMA Carried ==
  ASSUME ScoringAssumption, Typed, reader.stage # "idle", RowsWalked, Longer,
         since'.rows = since.rows, since'.table = since.table,
         reader' = reader \/ reader'.stage \notin {"page", "weights"},
         \A y \in reader'.answer : y \in reader.answer \/ (~ y.ok /\ y.error = "INTERNAL")
  PROVE  RowsWalked'
<1>1. \A a \in Agents : since'.rows[a] \subseteq RowsOf(a)'
  BY RowsStay
<1>2. \A y \in reader'.answer : Right(y, since.rows[y.agent], since.table[y.agent])'
  <2> SUFFICES ASSUME NEW y \in reader'.answer
               PROVE  Right(y, since.rows[y.agent], since.table[y.agent])'
    OBVIOUS
  <2>1. CASE y \in reader.answer
    BY <2>1, AnswerKept
  <2>2. CASE ~ y.ok /\ y.error = "INTERNAL"
    BY <2>2 DEF Right, TooLong
  <2>3. QED
    BY <2>1, <2>2
<1>3. CASE reader' = reader
  <2>1. reader \in Reading /\ Placed(reader)
    BY AtWork
  <2>2. ASSUME reader.stage \in {"page", "weights"}
        PROVE  reader.agent \in Agents
    BY <2>1, <2>2 DEF Placed, InHand
  <2>3. ASSUME reader'.stage = "page"
        PROVE  AtCursor(reader.agent, reader.cursor, reader.tally, reader.processed, since.rows[reader.agent])'
    <3>1. PICK a, c, t, n, R : /\ a = reader.agent /\ c = reader.cursor /\ t = reader.tally
                               /\ n = reader.processed /\ R = since.rows[reader.agent]
      OBVIOUS
    <3>2. AtCursor(a, c, t, n, R) /\ R \subseteq RowsOf(a)
      BY <1>3, <2>2, <2>3, <3>1 DEF RowsWalked
    <3>3. AtCursor(a, c, t, n, R)'
      BY <3>2, CursorKept
    <3>4. a = reader'.agent /\ c = reader'.cursor /\ t = reader'.tally /\ n = reader'.processed
          /\ R = since'.rows[reader'.agent]
      BY <1>3, <3>1
    <3>5. QED
      BY <3>3, <3>4
  <2>4. ASSUME reader'.stage = "weights" PROVE AtEnd(reader.tally, since.rows[reader.agent])'
    <3>1. PICK t, R : t = reader.tally /\ R = since.rows[reader.agent]
      OBVIOUS
    <3>2. AtEnd(t, R) /\ R \in SUBSET DOMAIN ledger
      BY <1>3, <2>2, <2>4, <3>1 DEF RowsWalked, RowsOf
    <3>3. Tallied(t, R)'
      BY <3>2, TalliedKept DEF AtEnd
    <3>4. t = reader'.tally /\ R = since'.rows[reader'.agent]
      BY <1>3, <3>1
    <3>5. QED
      BY <3>2, <3>3, <3>4 DEF AtEnd
  <2>5. QED
    BY <1>1, <1>2, <2>3, <2>4 DEF RowsWalked
<1>4. CASE reader'.stage \notin {"page", "weights"}
  BY <1>1, <1>2, <1>4 DEF RowsWalked
<1>5. QED
  BY <1>3, <1>4

LEMMA ScorePageWalks ==
  ASSUME ScoringAssumption, Typed, Fresh(reader), RowsWalked, ScorePage
  PROVE  RowsWalked'
<1>1. ScoreStep /\ FirstRows /\ UNCHANGED writers /\ reader.stage = "page"
  BY ScorePageIs
<1>2. reader \in Reading /\ Placed(reader) /\ since \in Since /\ Histories /\ Sequenced
  BY <1>1, AtWork
<1>3. PICK a : a = reader.agent
  OBVIOUS
<1>4. a \in Agents /\ Scoring1(reader)
  BY <1>1, <1>2, <1>3 DEF Placed, InHand, Scoring1
<1>5. Longer /\ ledger' = ledger
  BY <1>1, LedgerGrows DEF Plain, writers
<1>6. PICK R, table : R = since'.rows[a] /\ table = since.table[a]
  OBVIOUS
<1>7. /\ R \subseteq RowsOf(a) /\ (reader.cursor = NULL => R = RowsOf(a))
      /\ since'.table = since.table
      /\ \A b \in Agents : b # a => since'.rows[b] = since.rows[b]
      /\ reader.cursor # NULL => R = since.rows[a]
  <2>1. CASE reader.cursor = NULL
    <3> DEFINE h == [since.rows EXCEPT ![a] = RowsOf(a)]
    <3>1. since' = [since EXCEPT !.rows = h]
      BY <1>1, <1>3, <2>1 DEF FirstRows
    <3>2. h[a] = RowsOf(a) /\ \A b \in Agents : b # a => h[b] = since.rows[b]
      BY <1>2, <1>4 DEF Histories
    <3> HIDE DEF h
    <3>3. since'.rows = h /\ since'.table = since.table
      BY <1>2, <3>1 DEF Since
    <3>4. QED
      BY <1>6, <2>1, <3>2, <3>3
  <2>2. CASE reader.cursor # NULL
    BY <1>1, <1>4, <1>6, <2>2 DEF FirstRows, RowsWalked
  <2>3. QED
    BY <2>1, <2>2
<1>8. AtCursor(reader.agent, reader.cursor, reader.tally, reader.processed, R)
  BY <1>1, <1>3, <1>7 DEF RowsWalked, AtCursor
<1>9. /\ TooMany(reader, PageNow) => Cardinality(R) > Cap
      /\ ~ TooMany(reader, PageNow) /\ CursorNow # NULL =>
           AtCursor(reader.agent, CursorNow, TallyNow, reader.processed + Cardinality(PageNow), R)
      /\ ~ TooMany(reader, PageNow) /\ CursorNow = NULL => AtEnd(TallyNow, R)
  BY <1>1, <1>3, <1>7, <1>8, WalkStep
<1>10. R \in SUBSET DOMAIN ledger /\ IsFiniteSet(R)
  BY <1>2, <1>7, RowsFinite, FS_Subset
<1>11. \A b \in Agents : since'.rows[b] \subseteq RowsOf(b)'
  <2>1. \A b \in Agents : RowsOf(b)' = RowsOf(b)
    BY <1>5 DEF RowsOf
  <2>2. QED
    BY <1>6, <1>7, <2>1 DEF RowsWalked
<1>12. ASSUME NEW x \in reader.answer PROVE Right(x, since.rows[x.agent], since.table[x.agent])'
  <2>1. x.agent \in Agents /\ x.agent # a
    BY <1>1, <1>2, <1>3 DEF Reading, Result, Fresh
  <2>2. since'.rows[x.agent] = since.rows[x.agent] /\ since'.table[x.agent] = since.table[x.agent]
    BY <1>7, <2>1
  <2>3. QED
    BY <1>1, <1>5, <2>2, AnswerKept
<1>13. TallyNow \in Tallies /\ OverLimit \in Result /\ NativeScore \in Result
       /\ OverLimit.agent = reader.agent /\ NativeScore.agent = reader.agent
  <2>1. TallyNow \in Tallies
    BY <1>2, ReadPage
  <2>2. QED
    BY <1>3, <1>4, <2>1, ResultIs, EmptyIs DEF OverLimit, NativeScore, Errors
<1>14. ASSUME NEW x \in Result, x.agent = a, Right(x, R, table), reader' = Scored(reader, x)
       PROVE  RowsWalked'
  <2>1. Goes(reader', reader, x)
    BY <1>3, <1>4, <1>14, ScoredIs
  <2>2. reader'.answer \subseteq reader.answer \cup {x} /\ reader'.stage \notin {"page", "weights"}
    BY <2>1 DEF Goes
  <2>3. Right(x, since.rows[x.agent], since.table[x.agent])'
    BY <1>5, <1>6, <1>7, <1>10, <1>14, RightThen
  <2>4. \A y \in reader'.answer : Right(y, since.rows[y.agent], since.table[y.agent])'
    BY <1>12, <2>2, <2>3
  <2>5. QED
    BY <1>11, <2>2, <2>4 DEF RowsWalked
<1>15. CASE TooMany(reader, PageNow) /\ reader' = Scored(reader, OverLimit)
  <2>1. PICK x : x = OverLimit
    OBVIOUS
  <2>2. Right(x, R, table)
    BY <1>9, <1>15, <2>1 DEF OverLimit, Right, TooLong
  <2>3. QED
    BY <1>3, <1>13, <1>14, <1>15, <2>1, <2>2
<1>16. CASE /\ ~ TooMany(reader, PageNow) /\ CursorNow = NULL
            /\ DOMAIN TallyNow \subseteq {Native} /\ reader' = Scored(reader, NativeScore)
  <2>1. PICK x : x = NativeScore
    OBVIOUS
  <2>2. Right(x, R, table)
    BY <1>2, <1>9, <1>10, <1>16, <2>1, NativeIsExact
  <2>3. QED
    BY <1>3, <1>13, <1>14, <1>16, <2>1, <2>2
<1>17. CASE /\ ~ TooMany(reader, PageNow) /\ CursorNow # NULL
            /\ reader' = [reader EXCEPT !.cursor = CursorNow, !.tally = TallyNow,
                                        !.processed = @ + Cardinality(PageNow)]
  <2>1. PICK c, t, n : c = CursorNow /\ t = TallyNow /\ n = reader.processed + Cardinality(PageNow)
    OBVIOUS
  <2>2. AtCursor(a, c, t, n, R)
    BY <1>3, <1>9, <1>17, <2>1
  <2>3. AtCursor(a, c, t, n, R)'
    BY <1>5, <1>7, <2>2, CursorKept
  <2>4. /\ reader'.stage = "page" /\ reader'.agent = a /\ reader'.cursor = c /\ reader'.tally = t
        /\ reader'.processed = n /\ reader'.answer = reader.answer
    BY <1>1, <1>2, <1>3, <1>17, <2>1 DEF Reading
  <2>5. AtCursor(reader.agent, reader.cursor, reader.tally, reader.processed, since.rows[reader.agent])'
    BY <1>6, <2>3, <2>4
  <2>6. QED
    BY <1>11, <1>12, <2>4, <2>5 DEF RowsWalked
<1>18. CASE /\ ~ TooMany(reader, PageNow) /\ CursorNow = NULL
            /\ reader' = [reader EXCEPT !.stage = "weights", !.tally = TallyNow]
  <2>1. PICK t : t = TallyNow
    OBVIOUS
  <2>2. AtEnd(t, R)
    BY <1>9, <1>18, <2>1
  <2>3. Tallied(t, R)'
    BY <1>5, <1>10, <2>2, TalliedKept DEF AtEnd
  <2>4. reader'.stage = "weights" /\ reader'.agent = a /\ reader'.tally = t /\ reader'.answer = reader.answer
    BY <1>1, <1>2, <1>3, <1>18, <2>1 DEF Reading
  <2>5. AtEnd(reader.tally, since.rows[reader.agent])'
    BY <1>6, <2>2, <2>3, <2>4 DEF AtEnd
  <2>6. QED
    BY <1>11, <1>12, <2>4, <2>5 DEF RowsWalked
<1>19. QED
  BY <1>1, <1>15, <1>16, <1>17, <1>18 DEF ScoreStep

LEMMA ReadWeightsWalks ==
  ASSUME ScoringAssumption, Typed, Fresh(reader), RowsWalked, ReadWeights
  PROVE  RowsWalked'
<1>1. reader.stage = "weights" /\ UNCHANGED writers /\ reader' = Scored(reader, WeighedScore)
  BY DEF ReadWeights, WeighedScore
<1>2. reader \in Reading /\ Placed(reader) /\ since \in Since /\ Histories /\ Sequenced /\ registered \in Tables
  BY <1>1, AtWork DEF Typed, TypeOK
<1>3. PICK a : a = reader.agent
  OBVIOUS
<1>4. a \in Agents /\ Scoring1(reader) /\ reader.tally \in Tallies
  BY <1>1, <1>2, <1>3 DEF Placed, InHand, Scoring1, Reading
<1>5. Longer /\ ledger' = ledger
  BY <1>1, LedgerGrows DEF Plain, writers
<1>6. PICK R, table : R = since.rows[a] /\ table = registered
  OBVIOUS
<1>7. /\ since'.rows = since.rows /\ since'.table[a] = table
      /\ \A b \in Agents : b # a => since'.table[b] = since.table[b]
  <2> DEFINE h == [since.table EXCEPT ![a] = registered]
  <2>1. since' = [since EXCEPT !.table = h]
    BY <1>3 DEF ReadWeights
  <2>2. h[a] = registered /\ \A b \in Agents : b # a => h[b] = since.table[b]
    BY <1>2, <1>4 DEF Histories
  <2> HIDE DEF h
  <2>3. since'.rows = since.rows /\ since'.table = h
    BY <1>2, <2>1 DEF Since
  <2>4. QED
    BY <1>6, <2>2, <2>3
<1>8. R \subseteq RowsOf(a) /\ R \in SUBSET DOMAIN ledger /\ IsFiniteSet(R)
  <2>1. R \subseteq RowsOf(a)
    BY <1>4, <1>6 DEF RowsWalked
  <2>2. QED
    BY <1>2, <2>1, RowsFinite, FS_Subset
<1>9. AtEnd(reader.tally, R)
  BY <1>1, <1>3, <1>6 DEF RowsWalked
<1>10. PICK x : x = WeighedScore
  OBVIOUS
<1>11. Right(x, R, table)
  BY <1>2, <1>6, <1>8, <1>9, <1>10, WeighedIsExact
<1>12. x \in Result /\ x.agent = a
  BY <1>2, <1>3, <1>4, <1>10, ResultIs DEF WeighedScore
<1>13. Goes(reader', reader, x)
  BY <1>1, <1>3, <1>4, <1>10, <1>12, ScoredIs
<1>14. reader'.answer \subseteq reader.answer \cup {x} /\ reader'.stage \notin {"page", "weights"}
  BY <1>13 DEF Goes
<1>15. Right(x, since.rows[x.agent], since.table[x.agent])'
  BY <1>5, <1>6, <1>7, <1>8, <1>11, <1>12, RightThen
<1>16. ASSUME NEW y \in reader.answer PROVE Right(y, since.rows[y.agent], since.table[y.agent])'
  <2>1. y.agent \in Agents /\ y.agent # a
    BY <1>1, <1>2, <1>3, <1>16 DEF Reading, Result, Fresh
  <2>2. since'.rows[y.agent] = since.rows[y.agent] /\ since'.table[y.agent] = since.table[y.agent]
    BY <1>7, <2>1
  <2>3. QED
    BY <1>1, <1>5, <2>2, AnswerKept
<1>17. \A y \in reader'.answer : Right(y, since.rows[y.agent], since.table[y.agent])'
  BY <1>14, <1>15, <1>16
<1>18. \A b \in Agents : since'.rows[b] \subseteq RowsOf(b)'
  BY <1>5, <1>7, RowsStay
<1>19. QED
  BY <1>14, <1>17, <1>18 DEF RowsWalked

LEMMA ExistsWalks ==
  ASSUME ScoringAssumption, Typed, RowsWalked, Exists
  PROVE  RowsWalked'
<1>1. reader \in Reading /\ reader.stage # "idle" /\ UNCHANGED <<writers, since>>
  BY AtWork DEF Exists
<1>2. reader' = [reader EXCEPT !.stage = "page", !.cursor = NULL, !.tally = Empty, !.processed = 0]
  BY DEF Exists
<1>3. /\ reader'.stage = "page" /\ reader'.cursor = NULL /\ reader'.tally = Empty /\ reader'.processed = 0
      /\ reader'.answer = reader.answer
  BY <1>1, <1>2 DEF Reading
<1>4. AtCursor(reader.agent, reader.cursor, reader.tally, reader.processed, since.rows[reader.agent])'
  BY <1>3 DEF AtCursor
<1>5. Longer /\ since' = since
  BY <1>1, LedgerGrows DEF Plain
<1>6. \A a \in Agents : since'.rows[a] \subseteq RowsOf(a)'
  BY <1>5, RowsStay
<1>7. \A y \in reader'.answer : Right(y, since.rows[y.agent], since.table[y.agent])'
  BY <1>1, <1>3, <1>5, AnswerKept
<1>8. QED
  BY <1>3, <1>4, <1>6, <1>7 DEF RowsWalked

LEMMA ThrowsWalks ==
  ASSUME ScoringAssumption, Typed, RowsWalked, Throws
  PROVE  RowsWalked'
<1>1. reader \in Reading /\ Placed(reader) /\ reader.stage # "idle" /\ UNCHANGED <<writers, since>>
  BY AtWork DEF Throws
<1>2. Longer
  BY LedgerGrows DEF Plain
<1>3. CASE reader.kind = "dashboard" /\ reader.stage \in {"exists", "page", "weights"}
  <2> DEFINE x == [agent |-> reader.agent, ok |-> FALSE, error |-> "INTERNAL"]
  <2>1. reader' = Scored(reader, x)
    BY <1>3 DEF Throws
  <2>2. reader.agent \in Agents
    BY <1>1, <1>3 DEF Placed, InHand
  <2>3. x \in Result /\ x.agent = reader.agent /\ ~ x.ok /\ x.error = "INTERNAL"
    BY <2>2, ResultIs DEF Errors
  <2> HIDE DEF x
  <2>4. Goes(reader', reader, x)
    BY <1>1, <1>3, <2>1, <2>3, ScoredIs DEF Scoring1
  <2>5. reader'.answer \subseteq reader.answer \cup {x} /\ reader'.stage \notin {"page", "weights"}
    BY <2>4 DEF Goes
  <2>6. \A y \in reader'.answer : y \in reader.answer \/ (~ y.ok /\ y.error = "INTERNAL")
    BY <2>3, <2>5
  <2>7. QED
    BY <1>1, <1>2, <2>5, <2>6, Carried
<1>4. CASE ~ (reader.kind = "dashboard" /\ reader.stage \in {"exists", "page", "weights"})
  <2>1. reader' = [reader EXCEPT !.stage = "done", !.error = "INTERNAL", !.agent = NULL]
    BY <1>4 DEF Throws
  <2>2. reader'.stage = "done" /\ reader'.answer = reader.answer
    BY <1>1, <2>1 DEF Reading
  <2>3. QED
    BY <1>1, <1>2, <2>2, Carried
<1>5. QED
  BY <1>3, <1>4

LEMMA OthersWalk ==
  ASSUME ScoringAssumption, Typed, RowsWalked,
         RowsPage \/ OwnerGate \/ WriteVisibility \/ Mover \/ Write
  PROVE  RowsWalked'
<1>1. reader.stage # "idle"
  BY DEF RowsPage, OwnerGate, WriteVisibility,
         Mover, FindAgent, CheckOwner, VerifyManifest, VerifyRow, List, NextAgent, Write
<1>2. reader \in Reading /\ Placed(reader) /\ since \in Since
  BY <1>1, AtWork
<1>3. Longer
  BY LedgerGrows DEF Plain
<1>4. CASE RowsPage
  <2>1. PICK g \in {"done", "verify"} :
          reader' = [reader EXCEPT !.stage = g, !.page = PageNow, !.cursor = CursorNow]
    BY <1>4 DEF RowsPage, PageNow, CursorNow
  <2>2. reader'.stage = g /\ reader'.answer = reader.answer /\ since' = since
    BY <1>2, <1>4, <2>1 DEF Reading, RowsPage
  <2>3. QED
    BY <1>1, <1>3, <2>1, <2>2, Carried
<1>5. CASE OwnerGate
  <2>1. PICK q : reader' = q /\ (q = Hidden \/ q = [reader EXCEPT !.stage = "write"])
    BY <1>5 DEF OwnerGate, Hidden
  <2>2. reader'.stage \in {"done", "write"} /\ reader'.answer = reader.answer /\ since' = since
    BY <1>2, <1>5, <2>1 DEF Reading, OwnerGate, Hidden
  <2>3. QED
    BY <1>1, <1>3, <2>2, Carried
<1>6. CASE WriteVisibility
  <2>1. reader' = [reader EXCEPT !.stage = "done"] /\ since' = Seen(reader.agent, reader.wish)
    BY <1>6 DEF WriteVisibility
  <2>2. reader.agent \in Agents
    BY <1>2, <1>6 DEF WriteVisibility, Placed, InHand
  <2>3. since'.rows = since.rows /\ since'.table = since.table
    BY <1>2, <2>1, <2>2, SeenTyped
  <2>4. reader'.stage = "done" /\ reader'.answer = reader.answer
    BY <1>2, <2>1 DEF Reading
  <2>5. QED
    BY <1>1, <1>3, <2>3, <2>4, Carried
<1>7. CASE Mover
  <2>1. Moved /\ since' = since
    BY <1>7, MovedSteps DEF Mover
  <2>2. reader'.stage \notin {"page", "weights"} /\ reader'.answer = reader.answer
    BY <2>1 DEF Moved, Untouched, Ends
  <2>3. QED
    BY <1>1, <1>3, <2>1, <2>2, Carried
<1>8. CASE Write
  <2>1. reader' = reader
    BY <1>8 DEF Write, Attest, Register, SetVisibility, Revoke, MoveKey, Change
  <2>2. since'.rows = since.rows /\ since'.table = since.table
    <3>1. ASSUME NEW a \in Agents, NEW v \in {"public", "private"}, SetVisibility(a, v)
          PROVE  since'.rows = since.rows /\ since'.table = since.table
      BY <1>2, <3>1, SeenTyped DEF SetVisibility
    <3>2. ASSUME NEW a \in Agents, NEW from \in Users, NEW to \in Users, MoveKey(a, from, to)
          PROVE  since'.rows = since.rows /\ since'.table = since.table
      <4> DEFINE h == since.held \cup {<<a, to>>}
      <4>1. since' = [since EXCEPT !.held = h]
        BY <3>2 DEF MoveKey
      <4> HIDE DEF h
      <4>2. QED
        BY <1>2, <4>1 DEF Since
    <3>3. ASSUME NEW a \in Agents, Revoke(a) PROVE since'.rows = since.rows /\ since'.table = since.table
      BY <1>2, <3>3, RevokeSeen
    <3>4. QED
      BY <1>8, <3>1, <3>2, <3>3 DEF Write, Attest, Register, Change
  <2>3. QED
    BY <1>1, <1>3, <2>1, <2>2, Carried
<1>9. QED
  BY <1>4, <1>5, <1>6, <1>7, <1>8

LEMMA StartsWalk ==
  ASSUME Began
  PROVE  (Fresh(reader) /\ RowsWalked)'
<1>1. PICK kind, stage, user, agent, wish :
        Asked(kind, stage, user, agent, wish) /\ reader' = Started(kind, stage, user, agent, wish)
  BY DEF Began, Begin, Started
<1>2. reader'.answer = {} /\ reader'.todo = {} /\ reader'.stage \notin {"exists", "page", "weights"}
  BY <1>1 DEF Asked, Started
<1>3. since'.rows = [a \in Agents |-> {}]
  BY DEF Began, Begin
<1>4. Fresh(reader')
  BY <1>2 DEF Fresh
<1>5. RowsWalked'
  BY <1>2, <1>3 DEF RowsWalked
<1>6. QED
  BY <1>4, <1>5

LEMMA StepWalks ==
  ASSUME ScoringAssumption, Walks, [Next]_vars
  PROVE  Walks'
<1>1. Typed /\ Typed'
  BY StepTyped DEF Walks
<1>2. CASE UNCHANGED vars
  <2>1. reader' = reader /\ since' = since /\ ledger' = ledger
    BY <1>2 DEF vars
  <2>2. Fresh(reader) => Fresh(reader')
    BY <2>1
  <2>3. RowsWalked /\ reader.stage # "idle" => RowsWalked'
    <3> SUFFICES ASSUME RowsWalked, reader.stage # "idle" PROVE RowsWalked'
      OBVIOUS
    <3>1. Longer
      BY <1>1, <2>1 DEF Longer, Typed, TypeOK
    <3>2. since'.rows = since.rows /\ since'.table = since.table
      BY <2>1
    <3>3. \A y \in reader'.answer : y \in reader.answer
      BY <2>1
    <3>4. ScoringAssumption
      OBVIOUS
    <3>5. QED
      BY <1>1, <2>1, <3>1, <3>2, <3>3, <3>4, Carried
  <2>4. QED
    BY <1>1, <2>1, <2>2, <2>3 DEF Walks
<1>3. CASE Began
  BY <1>1, <1>3, StartsWalk DEF Walks
<1>4. CASE Plain \/ Mover \/ Write
  <2>1. reader.stage # "idle"
    BY <1>4 DEF Plain, Throws, Exists, ScorePage, ReadWeights, RowsPage, OwnerGate, WriteVisibility,
                Mover, FindAgent, CheckOwner, VerifyManifest, VerifyRow, List, NextAgent, Write
  <2>2. Fresh(reader) /\ RowsWalked
    BY <2>1 DEF Walks
  <2>3. Write => reader' = reader
    BY DEF Write, Attest, Register, SetVisibility, Revoke, MoveKey, Change
  <2>4. Fresh(reader')
    BY <1>1, <1>4, <2>2, <2>3, FreshSteps
  <2>5. RowsWalked'
    BY <1>1, <1>4, <2>2, ExistsWalks, ThrowsWalks, ScorePageWalks, ReadWeightsWalks, OthersWalk DEF Plain
  <2>6. QED
    BY <1>1, <2>4, <2>5 DEF Walks
<1>5. QED
  BY <1>2, <1>3, <1>4, Kinds

(* The walk's invariant: see RowsWalked. *)
LEMMA WalksInvariant == Spec => []Walks
<1>1. ScoringAssumption
  BY ScoringAssumption
<1>2. Init => Walks
  BY <1>1, StartIsTyped DEF Walks, Init, NoReader
<1>3. Walks /\ [Next]_vars => Walks'
  BY <1>1, StepWalks
<1>4. QED
  BY <1>2, <1>3, PTL DEF Spec

LEMMA AnswersAreRight ==
  ASSUME Walks, NEW x, reader.stage # "idle", x \in reader.answer
  PROVE  Right(x, since.rows[x.agent], since.table[x.agent])
BY DEF Walks, RowsWalked

(* A history longer than the cap gets an error and never a number, one within    *)
(* the cap never an error, wherever in a page the cap falls (score.ts:80-88).     *)
THEOREM CapIsHonest == Spec => []LimitIsHonest
<1>1. Walks => LimitIsHonest
  <2> SUFFICES ASSUME Walks PROVE LimitIsHonest
    OBVIOUS
  <2>1. ASSUME NEW x \in Scores PROVE Cardinality(since.rows[x.agent]) <= Cap
    <3>1. reader.stage # "idle" /\ x \in reader.answer /\ x.ok
      BY DEF Scores
    <3>2. Right(x, since.rows[x.agent], since.table[x.agent])
      BY <3>1, AnswersAreRight
    <3>3. QED
      BY <3>1, <3>2 DEF Right, Exact, AtEnd
  <2>2. ASSUME NEW x \in Limited PROVE Cardinality(since.rows[x.agent]) > Cap
    <3>1. reader.stage # "idle" /\ x \in reader.answer /\ ~ x.ok
          /\ x.error = "SCORE_COMPUTATION_LIMIT_EXCEEDED"
      BY DEF Limited
    <3>2. Right(x, since.rows[x.agent], since.table[x.agent])
      BY <3>1, AnswersAreRight
    <3>3. QED
      BY <3>1, <3>2 DEF Right, TooLong
  <2>3. QED
    BY <2>1, <2>2 DEF LimitIsHonest
<1>2. QED
  BY <1>1, WalksInvariant, PTL

(* A score counts the rows that were there when its first page was read, each    *)
(* once, whatever is written between its pages, and its composite is the sum of   *)
(* their sources' weights (score.ts:72-75, :108-120).                             *)
THEOREM ScoresAreExact == Spec => []ScoreIsExact
<1>1. Walks => ScoreIsExact
  <2> SUFFICES ASSUME Walks, NEW x \in Scores
               PROVE  LET rows == since.rows[x.agent]
                          of(s) == {i \in rows : ledger[i].source = s}
                      IN  /\ DOMAIN x.tally = {ledger[i].source : i \in rows}
                          /\ \A s \in DOMAIN x.tally :
                              /\ x.tally[s].count = Cardinality(of(s))
                              /\ x.tally[s].latest \in {ledger[i].time : i \in of(s)}
                              /\ \A i \in of(s) : ledger[i].time <= x.tally[s].latest
                          /\ x.composite = SumFunction([i \in rows |-> RowWeight(i, since.table[x.agent])])
    BY DEF ScoreIsExact
  <2>1. reader.stage # "idle" /\ x \in reader.answer /\ x.ok
    BY DEF Scores
  <2>2. Right(x, since.rows[x.agent], since.table[x.agent])
    BY <2>1, AnswersAreRight
  <2>3. Exact(x, since.rows[x.agent], since.table[x.agent])
    BY <2>1, <2>2 DEF Right
  <2>4. Tallied(x.tally, since.rows[x.agent])
    BY <2>3 DEF Exact, AtEnd
  <2>5. x.composite = SumFunction([i \in since.rows[x.agent] |-> RowWeight(i, since.table[x.agent])])
    BY <2>3 DEF Exact
  <2>6. QED
    BY <2>4, <2>5 DEF Tallied, Named, RowsFrom, TimesFrom
<1>2. QED
  BY <1>1, WalksInvariant, PTL
============================================================================
