------------------------- MODULE ManufacturingProofs -------------------------
(***************************************************************************)
(* Proofs about Manufacturing.tla: how much capital and how many bots a    *)
(* batch of plans has, for any candidates, confidences and policy, and     *)
(* what the sessions, restarts and the fleet make of batches, for any      *)
(* number of days, preparations and restarts.                              *)
(***************************************************************************)
EXTENDS Manufacturing, FiniteSetTheorems, SequenceTheorems, WellFoundedInduction, TLAPS

-----------------------------------------------------------------------------
(* Sums, as numbers of units                                                *)

Units(f, K) == UNION {{k} \X (1..f[k]) : k \in K}

\* The units of one element
LEMMA UnitsOfOne ==
  ASSUME NEW k, NEW n \in Nat
  PROVE  IsFiniteSet({k} \X (1..n)) /\ Cardinality({k} \X (1..n)) = n
<1>1. IsFiniteSet({k}) /\ Cardinality({k}) = 1
  BY FS_Singleton
<1>2. IsFiniteSet(1..n) /\ Cardinality(1..n) = n
  BY FS_Interval
<1>3. /\ IsFiniteSet({k} \X (1..n))
      /\ Cardinality({k} \X (1..n)) = Cardinality({k}) * Cardinality(1..n)
  BY <1>1, <1>2, FS_Product
<1> QED BY <1>1, <1>2, <1>3

\* What the units are
LEMMA UnitsMembers ==
  ASSUME NEW f, NEW K
  PROVE  \A x : x \in Units(f, K) <=> \E k \in K : x \in {k} \X (1..f[k])
BY DEF Units

\* An element counts for as much as f says.
LEMMA SumStep ==
  ASSUME NEW f, NEW K, IsFiniteSet(K), \A k \in K : f[k] \in Nat, NEW x \in K
  PROVE  /\ IsFiniteSet(Units(f, K)) /\ Sum(f, K) \in Nat
         /\ Sum(f, K \ {x}) \in Nat
         /\ Sum(f, K) = f[x] + Sum(f, K \ {x})
<1>1. ASSUME NEW L \in SUBSET K PROVE IsFiniteSet(Units(f, L)) /\ Sum(f, L) \in Nat
  <2> DEFINE Parts == {{k} \X (1..f[k]) : k \in L}
  <2>1. IsFiniteSet(L)
    BY FS_Subset
  <2>2. IsFiniteSet(Parts)
    <3> DEFINE part == [k \in L |-> {k} \X (1..f[k])]
    <3>1. part \in Surjection(L, Parts)
      BY DEF Surjection
    <3> HIDE DEF part, Parts
    <3> QED BY <2>1, <3>1, FS_Surjection
  <2>3. \A P \in Parts : IsFiniteSet(P)
    <3>1. \A k \in L : IsFiniteSet({k} \X (1..f[k]))
      BY UnitsOfOne
    <3> QED BY <3>1
  <2>4. IsFiniteSet(UNION Parts)
    <3> HIDE DEF Parts
    <3> QED BY <2>2, <2>3, FS_UNION
  <2> QED BY <2>4, FS_CardinalityType DEF Units, Sum
<1> DEFINE A == {x} \X (1..f[x])
           B == Units(f, K \ {x})
<1>2. Units(f, K) = A \cup B
  BY UnitsMembers
<1>3. A \cap B = {}
  BY UnitsMembers
<1>4. IsFiniteSet(A) /\ Cardinality(A) = f[x]
  BY UnitsOfOne
<1>5. IsFiniteSet(B) /\ Cardinality(B) \in Nat
  BY <1>1, FS_CardinalityType
<1>6. Cardinality(A \cup B) = Cardinality(A) + Cardinality(B)
  <2> HIDE DEF A, B
  <2>1. Cardinality({}) = 0
    BY FS_EmptySet
  <2>2. Cardinality(A \cup B) = Cardinality(A) + Cardinality(B) - Cardinality(A \cap B)
    BY <1>4, <1>5, FS_Union
  <2>3. Cardinality(A) \in Nat /\ Cardinality(B) \in Nat
    BY <1>4, <1>5, FS_CardinalityType
  <2>4. Cardinality(A \cap B) = 0
    BY <1>3, <2>1
  <2> QED BY <2>2, <2>3, <2>4
<1>7. Sum(f, K) = Cardinality(Units(f, K)) /\ Sum(f, K \ {x}) = Cardinality(B)
  BY DEF Sum, Units
<1> QED BY <1>1, <1>2, <1>4, <1>6, <1>7

\* The sum over nothing
LEMMA SumOfNone == ASSUME NEW f PROVE Sum(f, {}) = 0
<1>1. UNION {{k} \X (1..f[k]) : k \in {}} = {}
  OBVIOUS
<1> QED BY <1>1, FS_EmptySet DEF Sum

\* Sums are natural numbers.
LEMMA SumIsNat ==
  ASSUME NEW f, NEW K, IsFiniteSet(K), \A k \in K : f[k] \in Nat
  PROVE  IsFiniteSet(Units(f, K)) /\ Sum(f, K) \in Nat
<1>1. CASE K = {}
  <2>1. Units(f, K) = {}
    BY <1>1, UnitsMembers
  <2> QED BY <1>1, <2>1, SumOfNone, FS_EmptySet
<1>2. CASE K # {}
  BY <1>2, SumStep
<1> QED BY <1>1, <1>2

\* A part of a set sums up to no more.
LEMMA SumOfPart ==
  ASSUME NEW f, NEW K, IsFiniteSet(K), \A k \in K : f[k] \in Nat, NEW L \in SUBSET K
  PROVE  Sum(f, L) \in Nat /\ Sum(f, L) <= Sum(f, K)
<1>1. Units(f, L) \subseteq Units(f, K)
  BY UnitsMembers
<1>2. IsFiniteSet(Units(f, K)) /\ IsFiniteSet(L)
  BY SumIsNat, FS_Subset
<1>3. Cardinality(Units(f, L)) <= Cardinality(Units(f, K))
  BY <1>1, <1>2, FS_Subset
<1>4. Sum(f, L) \in Nat
  BY <1>2, SumIsNat
<1> QED BY <1>3, <1>4 DEF Sum, Units

\* A summand is no more than the sum.
LEMMA SumCovers ==
  ASSUME NEW f, NEW K, IsFiniteSet(K), \A k \in K : f[k] \in Nat, NEW x \in K
  PROVE  Sum(f, K) \in Nat /\ f[x] <= Sum(f, K)
<1>1. f[x] \in Nat
  OBVIOUS
<1>2. /\ Sum(f, K) \in Nat /\ Sum(f, K \ {x}) \in Nat
      /\ Sum(f, K) = f[x] + Sum(f, K \ {x})
  BY SumStep
<1> QED BY <1>1, <1>2

\* A sum depends on its summands only.
LEMMA SumAgrees ==
  ASSUME NEW f, NEW g, NEW K, \A k \in K : f[k] = g[k]
  PROVE  Sum(f, K) = Sum(g, K)
<1>1. \A k \in K : {k} \X (1..f[k]) = {k} \X (1..g[k])
  OBVIOUS
<1>2. ASSUME NEW x PROVE x \in Units(f, K) <=> x \in Units(g, K)
  BY <1>1, UnitsMembers
<1>3. Units(f, K) = Units(g, K)
  BY <1>2
<1> QED BY <1>3 DEF Sum, Units

\* Summands that come from others by an injection sum up to no more than they do.
LEMMA SumAlong ==
  ASSUME NEW f, NEW P, NEW g, NEW K, IsFiniteSet(K), \A k \in K : g[k] \in Nat,
         NEW h \in Injection(P, K), \A p \in P : f[p] = g[h[p]]
  PROVE  Sum(f, P) <= Sum(g, K)
<1> DEFINE u == [x \in Units(f, P) |-> <<h[x[1]], x[2]>>]
<1>1. h \in [P -> K] /\ \A p, q \in P : h[p] = h[q] => p = q
  BY DEF Injection, IsInjective
<1>2. \A x \in Units(f, P) : /\ x = <<x[1], x[2]>> /\ x[1] \in P /\ x[2] \in 1..f[x[1]]
  BY UnitsMembers
<1>3. \A x \in Units(f, P) : <<h[x[1]], x[2]>> \in Units(g, K)
  <2> SUFFICES ASSUME NEW x \in Units(f, P) PROVE <<h[x[1]], x[2]>> \in Units(g, K)
    OBVIOUS
  <2>1. x[1] \in P /\ x[2] \in 1..f[x[1]]
    BY <1>2
  <2>2. h[x[1]] \in K /\ x[2] \in 1..g[h[x[1]]]
    BY <1>1, <2>1
  <2> QED BY <2>2, UnitsMembers
<1>4. u \in [Units(f, P) -> Units(g, K)]
  BY <1>3
<1>5. ASSUME NEW x \in Units(f, P), NEW y \in Units(f, P), u[x] = u[y] PROVE x = y
  <2>1. h[x[1]] = h[y[1]] /\ x[2] = y[2]
    BY <1>5
  <2>2. x[1] = y[1]
    BY <1>1, <1>2, <2>1
  <2> QED BY <1>2, <2>1, <2>2
<1>6. u \in Injection(Units(f, P), Units(g, K))
  <2> HIDE DEF u
  <2> QED BY <1>4, <1>5 DEF Injection, IsInjective
<1>7. IsFiniteSet(Units(g, K))
  BY SumIsNat
<1>8. Cardinality(Units(f, P)) <= Cardinality(Units(g, K))
  <2> HIDE DEF u
  <2> QED BY <1>6, <1>7, FS_Injection
<1> QED BY <1>8 DEF Sum, Units

\* Induction over the subsets of a finite set: what holds of a set when it holds of its
\* proper subsets, for lack of an induction theorem that can be applied.
LEMMA SubsetInduction ==
  ASSUME NEW S, IsFiniteSet(S), NEW Good,
         \A T \in SUBSET S : (\A U \in SUBSET T : U # T => U \in Good) => T \in Good
  PROVE  SUBSET S \subseteq Good
<1> DEFINE Bad == (SUBSET S) \ Good
           R == StrictSubsetOrdering(S)
<1>1. SUFFICES ASSUME Bad # {} PROVE FALSE
  OBVIOUS
<1>2. IsWellFoundedOn(R, SUBSET S)
  BY FS_StrictSubsetOrderingWellFounded, FS_FiniteSubsetsOfFinite
<1>3. PICK m \in Bad : \A y \in Bad : <<y, m>> \notin R
  <2>1. Bad \subseteq SUBSET S
    OBVIOUS
  <2> HIDE DEF R, Bad
  <2> QED BY <1>1, <1>2, <2>1, WFMin
<1>4. \A U \in SUBSET m : U # m => U \in Good
  BY <1>3 DEF StrictSubsetOrdering
<1> QED BY <1>4

\* What is in proportion in every summand is so as a sum.
LEMMA SumInProportion ==
  ASSUME NEW f, NEW g, NEW K, IsFiniteSet(K), NEW m \in Nat, NEW n \in Nat,
         \A k \in K : f[k] \in Nat /\ g[k] \in Nat /\ m * f[k] <= n * g[k]
  PROVE  m * Sum(f, K) <= n * Sum(g, K)
<1> DEFINE Good == {L \in SUBSET K : m * Sum(f, L) <= n * Sum(g, L)}
<1>1. ASSUME NEW L \in SUBSET K, \A U \in SUBSET L : U # L => U \in Good
      PROVE  L \in Good
  <2>1. CASE L = {}
    BY <2>1, SumOfNone
  <2>2. CASE L # {}
    <3>1. PICK x \in L : TRUE
      BY <2>2
    <3>2. /\ IsFiniteSet(L)
          /\ \A k \in L : f[k] \in Nat
          /\ \A k \in L : g[k] \in Nat
      BY FS_Subset
    <3>3. Sum(f, L \ {x}) \in Nat /\ Sum(f, L) = f[x] + Sum(f, L \ {x})
      <4> HIDE DEF Good
      <4> QED BY ONLY <3>1, <3>2, SumStep
    <3>4. Sum(g, L \ {x}) \in Nat /\ Sum(g, L) = g[x] + Sum(g, L \ {x})
      <4> HIDE DEF Good
      <4> QED BY ONLY <3>1, <3>2, SumStep
    <3>5. L \ {x} \in Good /\ f[x] \in Nat /\ g[x] \in Nat /\ m * f[x] <= n * g[x]
      BY <1>1, <3>1
    <3>6. ASSUME NEW a \in Nat, NEW b \in Nat, NEW c \in Nat, NEW d \in Nat,
                 m * a <= n * b, m * c <= n * d
          PROVE  m * (a + c) <= n * (b + d)
      <4>1. m * (a + c) = m * a + m * c /\ n * (b + d) = n * b + n * d
        OBVIOUS
      <4>2. m * a \in Int /\ m * c \in Int /\ n * b \in Int /\ n * d \in Int
        OBVIOUS
      <4> QED BY <3>6, <4>1, <4>2
    <3> QED BY <3>3, <3>4, <3>5, <3>6
  <2> QED BY <2>1, <2>2
<1>2. SUBSET K \subseteq Good
  <2> HIDE DEF Good
  <2> QED BY <1>1, SubsetInduction
<1> QED BY <1>2

\* Elements that count for nothing may be left out.
LEMMA SumOfSome ==
  ASSUME NEW f, NEW K, IsFiniteSet(K), \A k \in K : f[k] \in Nat, NEW L \in SUBSET K,
         \A k \in K \ L : f[k] = 0
  PROVE  Sum(f, K) = Sum(f, L)
<1>1. ASSUME NEW x \in Units(f, K) PROVE x \in Units(f, L)
  <2>1. PICK k \in K : x \in {k} \X (1..f[k])
    BY UnitsMembers
  <2>2. f[k] # 0
    <3>1. 1..0 = {}
      OBVIOUS
    <3> QED BY <2>1, <3>1
  <2> QED BY <2>1, <2>2, UnitsMembers
<1>2. ASSUME NEW x \in Units(f, L) PROVE x \in Units(f, K)
  BY UnitsMembers
<1>3. Units(f, K) = Units(f, L)
  BY <1>1, <1>2
<1> QED BY <1>3 DEF Sum, Units

\* A set of ranks has a last one.
LEMMA LastRank ==
  ASSUME NEW n \in Nat, NEW K \in SUBSET (1..n), K # {}
  PROVE  \E k \in K : \A j \in K : j <= k
<1> DEFINE T == {n - k : k \in K}
<1>1. T \subseteq Nat /\ T # {}
  <2>1. \A k \in K : n - k \in Nat
    OBVIOUS
  <2>2. PICK k \in K : TRUE
    OBVIOUS
  <2>3. n - k \in T
    OBVIOUS
  <2> QED BY <2>1, <2>3
<1>2. PICK m \in T : \A y \in T : <<y, m>> \notin OpToRel(<, Nat)
  <2> HIDE DEF T
  <2> QED BY <1>1, NatLessThanWellFounded, WFMin
<1>3. PICK k \in K : m = n - k
  BY <1>2
<1>4. ASSUME NEW j \in K PROVE j <= k
  <2>1. n - j \in T
    OBVIOUS
  <2>2. ~(n - j < m)
    <3>1. n - j \in Nat /\ m \in Nat
      BY <1>1, <1>2, <2>1
    <3>2. <<n - j, m>> \notin OpToRel(<, Nat)
      <4> HIDE DEF T
      <4> QED BY <1>2, <2>1
    <3> QED BY <3>1, <3>2 DEF OpToRel
  <2>3. j \in Int /\ k \in Int /\ n \in Int
    OBVIOUS
  <2> QED BY <1>3, <2>2, <2>3
<1> QED BY <1>4

-----------------------------------------------------------------------------
(* Selection and shares                                                     *)

Slots == Cardinality(Symbols \X Strategies)
Names == [symbol : Symbols, strategy : Strategies, confidence : 1..MaxConfidence]

\* Candidates in the order of their confidence
IsRanking(r) ==
  \E n \in 0..Slots :
    /\ r \in [1..n -> Names]
    /\ \A j, k \in DOMAIN r : j < k => r[j].confidence >= r[k].confidence

\* The policy is made of positive numbers.
LEMMA PolicyTypes ==
  /\ Total \in Nat /\ Total > 0 /\ SymbolCap \in Nat /\ SymbolCap > 0 /\ SymbolCap <= Total
  /\ MaxBots \in Nat /\ MaxBots > 0 /\ MaxBotsPerSymbol \in Nat /\ MaxBotsPerSymbol > 0
  /\ MaxConfidence \in Nat /\ Slots \in Nat
<1>1. IsFiniteSet(Symbols \X Strategies)
  BY NamesAssumption, FS_Product
<1> QED BY <1>1, PolicyAssumption, FS_CardinalityType DEF Slots

\* What is ranked are candidates.
LEMMA RankedIsRanking ==
  ASSUME NEW confidence \in [Symbols \X Strategies -> 0..MaxConfidence],
         NEW r \in Ranked(Candidates(confidence))
  PROVE  IsRanking(r)
<1> DEFINE Pairs == {q \in Symbols \X Strategies : confidence[q] > 0}
           C == Candidates(confidence)
           name == [p \in Pairs |->
                      [symbol |-> p[1], strategy |-> p[2], confidence |-> confidence[p]]]
<1>1. IsFiniteSet(Symbols \X Strategies)
  BY NamesAssumption, FS_Product
<1>2. IsFiniteSet(Pairs) /\ Cardinality(Pairs) <= Slots
  BY <1>1, FS_Subset DEF Slots
<1>3. name \in Surjection(Pairs, C)
  BY DEF Surjection, Candidates
<1>4. IsFiniteSet(C) /\ Cardinality(C) <= Cardinality(Pairs)
  <2> HIDE DEF Pairs, C, name
  <2> QED BY <1>2, <1>3, FS_Surjection
<1>5. Cardinality(C) \in 0..Slots
  <2> HIDE DEF Pairs, C, name
  <2>1. Cardinality(C) \in Nat /\ Cardinality(Pairs) \in Nat
    BY <1>2, <1>4, FS_CardinalityType
  <2> QED BY <1>2, <1>4, <2>1, PolicyTypes
<1>6. C \subseteq Names
  <2>1. \A p \in Pairs : /\ p[1] \in Symbols /\ p[2] \in Strategies
                         /\ confidence[p] \in 1..MaxConfidence
    BY PolicyTypes
  <2>2. C = {[symbol |-> p[1], strategy |-> p[2], confidence |-> confidence[p]] : p \in Pairs}
    BY DEF Candidates
  <2> HIDE DEF C, Pairs
  <2> QED BY <2>1, <2>2 DEF Names
<1>7. /\ r \in [1..Cardinality(C) -> C]
      /\ \A j, k \in DOMAIN r : j < k => r[j].confidence >= r[k].confidence
  BY DEF Ranked, Injection
<1> HIDE DEF C, Pairs, name
<1>8. r \in [1..Cardinality(C) -> Names]
  BY <1>6, <1>7
<1> QED BY <1>5, <1>7, <1>8 DEF IsRanking

\* The ranks that are selected are finitely many, and so are those of a symbol.
LEMMA SelectedTypes ==
  ASSUME NEW r, IsRanking(r), NEW c \in Selected(r)
  PROVE  \E n \in 0..Slots :
           /\ c \subseteq 1..n /\ IsFiniteSet(c)
           /\ \A k \in c : r[k] \in Names
           /\ \A s : OfSymbol(r, c, s) \subseteq c /\ IsFiniteSet(OfSymbol(r, c, s))
<1>1. PICK n \in 0..Slots : r \in [1..n -> Names]
  BY DEF IsRanking
<1>2. c \subseteq 1..n
  BY <1>1 DEF Selected
<1>3. IsFiniteSet(c)
  <2>1. IsFiniteSet(1..n)
    BY PolicyTypes, FS_Interval
  <2> QED BY <1>2, <2>1, FS_Subset
<1>4. \A s : OfSymbol(r, c, s) \subseteq c
  BY DEF OfSymbol
<1>5. \A s : IsFiniteSet(OfSymbol(r, c, s))
  BY <1>3, <1>4, FS_Subset
<1> QED BY <1>1, <1>2, <1>3, <1>4, <1>5

\* No more are selected than the policy allows, nor of a symbol: the last one was taken
\* when there were fewer.
LEMMA SelectedWithin ==
  ASSUME NEW r, IsRanking(r), NEW c \in Selected(r)
  PROVE  /\ Cardinality(c) <= MaxBots
         /\ \A s : Cardinality(OfSymbol(r, c, s)) <= MaxBotsPerSymbol
<1>1. PICK n \in 0..Slots :
           /\ c \subseteq 1..n /\ IsFiniteSet(c)
           /\ \A s : OfSymbol(r, c, s) \subseteq c /\ IsFiniteSet(OfSymbol(r, c, s))
  BY SelectedTypes
<1>2. n \in Nat /\ c \subseteq Int
  BY <1>1, PolicyTypes
<1>3. \A k \in c : /\ Cardinality(Above(c, k)) < MaxBots
                   /\ Cardinality(OfSymbol(r, Above(c, k), r[k].symbol)) < MaxBotsPerSymbol
  BY DEF Selected
<1>4. ASSUME NEW K, IsFiniteSet(K), NEW k \in K, NEW m \in Nat, Cardinality(K \ {k}) < m
      PROVE  Cardinality(K) <= m
  <2>1. Cardinality(K) \in Nat /\ Cardinality(K \ {k}) = Cardinality(K) - 1
    BY <1>4, FS_RemoveElement, FS_CardinalityType
  <2> QED BY <1>4, <2>1
<1>5. Cardinality(c) <= MaxBots
  <2>1. CASE c = {}
    BY <2>1, FS_EmptySet, PolicyTypes
  <2>2. CASE c # {}
    <3>1. PICK k \in c : \A j \in c : j <= k
      BY <1>1, <1>2, <2>2, LastRank
    <3>2. Above(c, k) = c \ {k}
      <4>1. \A j \in c : j < k <=> j # k
        BY <1>2, <3>1
      <4> QED BY <4>1 DEF Above
    <3> QED BY <1>1, <1>3, <1>4, <3>2, PolicyTypes
  <2> QED BY <2>1, <2>2
<1>6. ASSUME NEW s PROVE Cardinality(OfSymbol(r, c, s)) <= MaxBotsPerSymbol
  <2> DEFINE O == OfSymbol(r, c, s)
  <2>1. CASE O = {}
    BY <2>1, FS_EmptySet, PolicyTypes
  <2>2. CASE O # {}
    <3>1. PICK k \in O : \A j \in O : j <= k
      <4>1. O \in SUBSET (1..n)
        BY <1>1
      <4> HIDE DEF O
      <4> QED BY <1>2, <2>2, <4>1, LastRank
    <3>2. k \in c /\ r[k].symbol = s
      BY <3>1 DEF OfSymbol
    <3>3. OfSymbol(r, Above(c, k), s) = O \ {k}
      <4>1. O \subseteq c
        BY <1>1
      <4>2. \A j \in O : j < k <=> j # k
        <5> HIDE DEF O
        <5> QED BY <1>2, <3>1, <4>1
      <4>3. ASSUME NEW j PROVE j \in OfSymbol(r, Above(c, k), s) <=> j \in O /\ j < k
        BY DEF Above, OfSymbol
      <4> HIDE DEF O
      <4> QED BY <4>2, <4>3
    <3>4. Cardinality(O \ {k}) < MaxBotsPerSymbol
      BY <1>3, <3>2, <3>3
    <3>5. IsFiniteSet(O)
      BY <1>1
    <3>6. Cardinality(O) <= MaxBotsPerSymbol
      <4> HIDE DEF O
      <4> QED BY <1>4, <3>1, <3>4, <3>5, PolicyTypes
    <3> QED BY <3>6
  <2> QED BY <2>1, <2>2
<1> QED BY <1>5, <1>6

\* Shares are numbers up to the cap of a symbol.
LEMMA SharedTypes ==
  ASSUME NEW c, NEW r, NEW a \in Shared(r, c)
  PROVE  /\ DOMAIN a = c
         /\ \A k \in c : a[k] \in Nat /\ a[k] <= SymbolCap /\ a[k] = Share(r, a, k)
BY PolicyTypes DEF Shared

\* A symbol gets no more than its cap: the last of its bots with any capital got what
\* those before it had left.
LEMMA SharedInSymbol ==
  ASSUME NEW r, IsRanking(r), NEW c \in Selected(r), NEW a \in Shared(r, c), NEW s
  PROVE  Sum(a, OfSymbol(r, c, s)) \in Nat /\ Sum(a, OfSymbol(r, c, s)) <= SymbolCap
<1> DEFINE O == OfSymbol(r, c, s)
           P == {k \in O : a[k] > 0}
<1>1. PICK n \in 0..Slots : c \subseteq 1..n /\ O \subseteq c /\ IsFiniteSet(O)
  BY SelectedTypes
<1>2. n \in Nat /\ c \subseteq Int
  BY <1>1, PolicyTypes
<1>3. DOMAIN a = c /\ \A k \in c : a[k] \in Nat /\ a[k] = Share(r, a, k)
  BY SharedTypes
<1>4. \A k \in O : k \in c /\ r[k].symbol = s
  BY DEF OfSymbol
<1>5. /\ P \in SUBSET O /\ P \subseteq 1..n /\ IsFiniteSet(P)
      /\ \A k \in P : a[k] \in Nat
      /\ \A k \in O \ P : a[k] = 0
      /\ \A k \in O : a[k] \in Nat
  <2>1. P \in SUBSET O /\ P \subseteq 1..n
    BY <1>1
  <2>2. IsFiniteSet(P)
    <3> HIDE DEF O, P
    <3> QED BY <1>1, <2>1, FS_Subset
  <2>3. \A k \in O : a[k] \in Nat
    BY <1>3, <1>4
  <2>4. \A k \in O \ P : a[k] = 0
    BY <2>3
  <2> QED BY <2>1, <2>2, <2>3, <2>4
<1>6. Sum(a, O) = Sum(a, P)
  <2> HIDE DEF O, P
  <2> QED BY <1>1, <1>5, SumOfSome
<1>7. CASE P = {}
  <2>1. Sum(a, P) = 0
    <3> HIDE DEF P
    <3> QED BY <1>7, SumOfNone
  <2>2. Sum(a, O) = 0
    BY <1>6, <2>1
  <2> QED BY <2>2, PolicyTypes
<1>8. CASE P # {}
  <2>1. PICK k \in P : \A j \in P : j <= k
    <3> HIDE DEF P, O
    <3> QED BY <1>2, <1>5, <1>8, LastRank
  <2> DEFINE B == OfSymbol(r, Above(c, k), s)
  <2>2. k \in c /\ r[k].symbol = s /\ a[k] > 0
    BY <1>4, <2>1
  <2>3. B \in SUBSET O /\ P \ {k} \in SUBSET B /\ k \notin B
    <3>1. \A j \in P \ {k} : j < k
      <4>1. \A j \in P : j \in Int
        BY <1>1, <1>2
      <4> HIDE DEF P, O
      <4> QED BY <2>1, <4>1
    <3>2. ASSUME NEW j PROVE j \in B <=> j \in O /\ j < k
      BY DEF Above, OfSymbol
    <3>3. ~(k < k)
      BY <1>2, <2>2
    <3> HIDE DEF P, O, B
    <3> QED BY <1>5, <3>1, <3>2, <3>3
  <2>4. Sum(a, B) = Sum(a, P \ {k})
    <3>1. IsFiniteSet(B)
      <4> HIDE DEF B, O
      <4> QED BY <1>1, <2>3, FS_Subset
    <3>2. \A j \in B \ (P \ {k}) : a[j] = 0
      <4>1. \A j \in B : j # k
        <5> HIDE DEF B
        <5> QED BY <2>3
      <4>2. \A j \in B : j \in O
        <5> HIDE DEF B
        <5> QED BY <2>3
      <4> HIDE DEF B, P, O
      <4> QED BY <1>5, <4>1, <4>2
    <3>3. \A j \in B : a[j] \in Nat
      <4> HIDE DEF B, P, O
      <4> QED BY <1>5, <2>3
    <3> HIDE DEF B, P, O
    <3> QED BY <2>3, <3>1, <3>2, <3>3, SumOfSome
  <2>5. Sum(a, P) = a[k] + Sum(a, P \ {k}) /\ Sum(a, P \ {k}) \in Nat
    <3>1. ASSUME NEW K, IsFiniteSet(K), \A j \in K : a[j] \in Nat, NEW x \in K
          PROVE  Sum(a, K) = a[x] + Sum(a, K \ {x}) /\ Sum(a, K \ {x}) \in Nat
      BY <3>1, SumStep
    <3> HIDE DEF P, O
    <3> QED BY <1>5, <2>1, <3>1
  <2>6. a[k] <= IF Sum(a, B) < SymbolCap THEN SymbolCap - Sum(a, B) ELSE 0
    <3>1. a[k] = Lesser(ByConfidence(r, c, k),
                        IF Sum(a, B) < SymbolCap THEN SymbolCap - Sum(a, B) ELSE 0)
      BY <1>3, <2>2 DEF Share
    <3>2. Sum(a, B) \in Nat
      <4> HIDE DEF B, P
      <4> QED BY <2>4, <2>5
    <3> DEFINE m == ByConfidence(r, c, k)
               l == IF Sum(a, B) < SymbolCap THEN SymbolCap - Sum(a, B) ELSE 0
    <3>3. l \in Nat
      <4> HIDE DEF B
      <4> QED BY <3>2, PolicyTypes
    <3>4. a[k] \in Nat
      BY <1>3, <2>2
    <3>5. a[k] = Lesser(m, l)
      BY <3>1
    <3> HIDE DEF m, l
    <3>6. a[k] <= l
      <4>1. CASE l <= a[k] /\ a[k] = m /\ m < l
        BY <3>3, <3>4, <4>1
      <4> QED BY <3>3, <3>4, <3>5, <4>1 DEF Lesser
    <3> QED BY <3>6 DEF l
  <2>7. a[k] \in Nat /\ Sum(a, B) \in Nat
    <3>1. a[k] \in Nat
      BY <1>3, <2>2
    <3> HIDE DEF B, P
    <3> QED BY <3>1, <2>4, <2>5
  <2>8. Sum(a, O) = a[k] + Sum(a, B)
    <3> HIDE DEF B, P, O
    <3> QED BY <1>6, <2>4, <2>5
  <2>9. a[k] + Sum(a, B) <= SymbolCap
    <3> HIDE DEF B, P, O
    <3> QED BY <2>2, <2>6, <2>7, PolicyTypes
  <2>10. a[k] + Sum(a, B) \in Nat
    BY <2>7
  <2> QED BY <2>8, <2>9, <2>10
<1> QED BY <1>7, <1>8

\* What the ranks are worth together
Worth(r, c) == Sum([j \in c |-> r[j].confidence], c)

\* Candidates are worth something.
LEMMA WorthPositive ==
  ASSUME NEW r, IsRanking(r), NEW c \in Selected(r), NEW k \in c
  PROVE  /\ Worth(r, c) \in Nat /\ Worth(r, c) > 0
         /\ r[k].confidence \in Nat /\ r[k].confidence > 0
<1>1. IsFiniteSet(c) /\ \A j \in c : r[j] \in Names
  BY SelectedTypes
<1>2. \A j \in c : r[j].confidence \in Nat /\ r[j].confidence > 0
  BY <1>1, PolicyTypes DEF Names
<1> DEFINE f == [j \in c |-> r[j].confidence]
<1>3. \A j \in c : f[j] \in Nat /\ f[j] > 0
  BY <1>2
<1>4. Sum(f, c) \in Nat /\ f[k] <= Sum(f, c)
  <2> HIDE DEF f
  <2> QED BY <1>1, <1>3, SumCovers
<1>5. Sum(f, c) > 0
  <2> HIDE DEF f
  <2> QED BY <1>3, <1>4
<1> QED BY <1>2, <1>4, <1>5 DEF Worth

\* All together get no more than the total: nobody gets more than in proportion to its
\* confidence.
LEMMA SharedInTotal ==
  ASSUME NEW r, IsRanking(r), NEW c \in Selected(r), NEW a \in Shared(r, c)
  PROVE  Sum(a, c) \in Nat /\ Sum(a, c) <= Total
<1>1. IsFiniteSet(c)
  BY SelectedTypes
<1>2. DOMAIN a = c /\ \A k \in c : a[k] \in Nat /\ a[k] = Share(r, a, k)
  BY SharedTypes
<1>3. Sum(a, c) \in Nat
  BY <1>1, <1>2, SumIsNat
<1>4. CASE c = {}
  BY <1>3, <1>4, SumOfNone, PolicyTypes
<1>5. CASE c # {}
  <2> DEFINE w == Worth(r, c)
             f == [j \in c |-> r[j].confidence]
  <2>1. w \in Nat /\ w > 0 /\ w = Sum(f, c)
    <3>1. PICK k \in c : TRUE
      BY <1>5
    <3> QED BY <3>1, WorthPositive DEF Worth
  <2>2. ASSUME NEW k \in c PROVE a[k] \in Nat /\ f[k] \in Nat /\ w * a[k] <= Total * f[k]
    <3>1. r[k].confidence \in Nat /\ f[k] = r[k].confidence
      BY WorthPositive
    <3> DEFINE q == (Total * f[k]) \div w
               u == IF Sum(a, OfSymbol(r, Above(c, k), r[k].symbol)) < SymbolCap
                      THEN SymbolCap - Sum(a, OfSymbol(r, Above(c, k), r[k].symbol)) ELSE 0
    <3>2. a[k] = Lesser(q, u)
      BY <1>2 DEF Share, ByConfidence, Worth
    <3>3. a[k] \in Nat /\ f[k] \in Nat /\ Total * f[k] \in Nat
      BY <1>2, <3>1, PolicyTypes
    <3>4. q \in Int /\ w * q <= Total * f[k]
      <4>1. ASSUME NEW n \in Nat, NEW d \in Nat, d > 0
            PROVE  n \div d \in Int /\ d * (n \div d) <= n
        BY <4>1
      <4> HIDE DEF w, f
      <4> QED BY <2>1, <3>3, <4>1
    <3>5. a[k] <= q
      <4>1. u \in Int
        <5>1. OfSymbol(r, Above(c, k), r[k].symbol) \in SUBSET c
          BY DEF OfSymbol, Above
        <5>2. Sum(a, OfSymbol(r, Above(c, k), r[k].symbol)) \in Nat
          BY <1>1, <1>2, <5>1, SumOfPart
        <5> QED BY <5>2, PolicyTypes
      <4> HIDE DEF q, u
      <4> QED BY <3>2, <3>4, <4>1 DEF Lesser
    <3>6. w * a[k] <= w * q
      <4> HIDE DEF q, w, f
      <4> QED BY <2>1, <3>3, <3>4, <3>5
    <3>7. w * a[k] \in Int /\ w * q \in Int
      <4> HIDE DEF q, w, f
      <4> QED BY <2>1, <3>3, <3>4
    <3> HIDE DEF q, w, f
    <3> QED BY <3>3, <3>4, <3>6, <3>7
  <2>3. w * Sum(a, c) <= Total * w
    <3> HIDE DEF w, f
    <3>1. w * Sum(a, c) <= Total * Sum(f, c)
      BY <1>1, <2>1, <2>2, PolicyTypes, SumInProportion
    <3> QED BY <2>1, <3>1
  <2>4. ASSUME NEW m \in Nat, NEW n \in Nat, NEW d \in Nat, d > 0, d * m <= n * d
        PROVE  m <= n
    <3>1. SUFFICES ASSUME m >= n + 1 PROVE FALSE
      OBVIOUS
    <3>2. d * m >= d * (n + 1)
      BY <3>1
    <3>3. d * (n + 1) = n * d + d
      OBVIOUS
    <3> QED BY <2>4, <3>2, <3>3
  <2> HIDE DEF w
  <2> QED BY <1>3, <2>1, <2>3, <2>4, PolicyTypes
<1> QED BY <1>3, <1>4, <1>5

\* Of two bots of a symbol the one that ranks higher gets no less: it has at least the
\* confidence, and at most as much is used up.
LEMMA SharedInOrder ==
  ASSUME NEW r, IsRanking(r), NEW c \in Selected(r), NEW a \in Shared(r, c),
         NEW j \in c, NEW k \in c, j < k, r[j].symbol = r[k].symbol
  PROVE  a[j] >= a[k]
<1> DEFINE w == Worth(r, c)
           s == r[k].symbol
           J == OfSymbol(r, Above(c, j), s)
           K == OfSymbol(r, Above(c, k), s)
           Left(L) == IF Sum(a, L) < SymbolCap THEN SymbolCap - Sum(a, L) ELSE 0
           Part(i) == (Total * r[i].confidence) \div w
<1>1. IsFiniteSet(c) /\ c \subseteq Int
  <2>1. PICK n \in 0..Slots : c \subseteq 1..n /\ IsFiniteSet(c)
    BY SelectedTypes
  <2> QED BY <2>1, PolicyTypes
<1>2. DOMAIN a = c /\ \A i \in c : a[i] \in Nat /\ a[i] = Share(r, a, i)
  BY SharedTypes
<1>3. a[j] = Lesser(Part(j), Left(J)) /\ a[k] = Lesser(Part(k), Left(K))
  BY <1>2 DEF Share, ByConfidence, Worth
<1>4. J \in SUBSET K /\ K \in SUBSET c
  <2>1. \A i \in c : i < j => i < k
    BY <1>1
  <2> QED BY <2>1 DEF OfSymbol, Above
<1>5. /\ Sum(a, J) \in Nat /\ Sum(a, K) \in Nat /\ Sum(a, J) <= Sum(a, K)
  <2>1. IsFiniteSet(K) /\ \A i \in K : a[i] \in Nat
    <3> HIDE DEF J, K
    <3> QED BY <1>1, <1>2, <1>4, FS_Subset
  <2> HIDE DEF J, K
  <2> QED BY <1>4, <2>1, SumIsNat, SumOfPart
<1>6. Left(J) \in Nat /\ Left(K) \in Nat /\ Left(K) <= Left(J)
  <2> HIDE DEF J, K
  <2> QED BY <1>5, PolicyTypes
<1>7. /\ w \in Nat /\ w > 0
      /\ r[j].confidence \in Nat /\ r[k].confidence \in Nat
      /\ r[k].confidence <= r[j].confidence
  <2>1. j \in DOMAIN r /\ k \in DOMAIN r
    BY DEF Selected
  <2>2. r[j].confidence >= r[k].confidence
    BY <2>1 DEF IsRanking
  <2> QED BY <2>2, WorthPositive
<1>8. Part(j) \in Int /\ Part(k) \in Int /\ Part(k) <= Part(j)
  <2>1. ASSUME NEW m \in Nat, NEW n \in Nat, NEW d \in Nat, d > 0, m <= n
        PROVE  m \div d \in Int /\ n \div d \in Int /\ m \div d <= n \div d
    BY <2>1
  <2>2. /\ Total * r[j].confidence \in Nat /\ Total * r[k].confidence \in Nat
        /\ Total * r[k].confidence <= Total * r[j].confidence
    BY <1>7, PolicyTypes
  <2> HIDE DEF w
  <2> QED BY <1>7, <2>1, <2>2
<1> HIDE DEF Left, Part, J, K
<1> QED BY <1>3, <1>6, <1>8 DEF Lesser

-----------------------------------------------------------------------------
(* Batches                                                                  *)

\* b is what becomes of the ranking r, the selection c and the shares a.
MadeOf(b, r, c, a) ==
  /\ IsRanking(r) /\ c \in Selected(r) /\ a \in Shared(r, c)
  /\ \E tradable \in SUBSET Symbols : \E contract \in [tradable -> Contracts] :
       b = Manufactured(r, a, contract)

\* Every batch comes about like that.
LEMMA BatchesAreMade ==
  ASSUME NEW b \in Batches
  PROVE  \E r, c, a : MadeOf(b, r, c, a)
<1>1. PICK confidence \in [Symbols \X Strategies -> 0..MaxConfidence] :
        \E r \in Ranked(Candidates(confidence)) : b \in BatchesOf(r)
  <2>1. PICK confidence \in [Symbols \X Strategies -> 0..MaxConfidence] :
          b \in UNION {BatchesOf(r) : r \in Ranked(Candidates(confidence))}
    BY Zenon DEF Batches
  <2> QED BY <2>1
<1>2. PICK r \in Ranked(Candidates(confidence)) : b \in BatchesOf(r)
  BY <1>1
<1>3. PICK contract \in UNION {[tradable -> Contracts] : tradable \in SUBSET Symbols} :
        \E c \in Selected(r) : \E a \in Shared(r, c) : b = Manufactured(r, a, contract)
  BY <1>2 DEF BatchesOf
<1>4. PICK c \in Selected(r) : \E a \in Shared(r, c) : b = Manufactured(r, a, contract)
  BY <1>3
<1>5. PICK a \in Shared(r, c) : b = Manufactured(r, a, contract)
  BY <1>4
<1>6. PICK tradable \in SUBSET Symbols : contract \in [tradable -> Contracts]
  BY <1>3
<1>7. IsRanking(r)
  BY <1>2, RankedIsRanking
<1> QED BY <1>5, <1>6, <1>7 DEF MadeOf

\* What is in a batch
LEMMA BatchMembers ==
  ASSUME NEW b, NEW r, NEW c, NEW a, MadeOf(b, r, c, a)
  PROVE  /\ DOMAIN b \subseteq c
         /\ b = [k \in DOMAIN b |-> b[k]]
         /\ \A k \in DOMAIN b : b[k] \in Plans /\ b[k].capital = a[k] /\ b[k].symbol = r[k].symbol
<1>0. PICK tradable \in SUBSET Symbols : \E contract \in [tradable -> Contracts] :
        b = Manufactured(r, a, contract)
  BY DEF MadeOf
<1>1. PICK contract \in [tradable -> Contracts] : b = Manufactured(r, a, contract)
  BY <1>0
<1>2. IsRanking(r) /\ c \in Selected(r) /\ a \in Shared(r, c)
  BY DEF MadeOf
<1>3. DOMAIN a = c /\ \A k \in c : a[k] \in Nat /\ a[k] <= SymbolCap
  BY <1>2, SharedTypes
<1>4. \A k \in c : r[k] \in Names
  BY <1>2, SelectedTypes
<1>5. DOMAIN b = {j \in c : a[j] > 0 /\ r[j].symbol \in tradable}
  BY <1>1, <1>3 DEF Manufactured, Allocated
<1>6. ASSUME NEW k \in DOMAIN b
      PROVE  b[k] \in Plans /\ b[k].capital = a[k] /\ b[k].symbol = r[k].symbol
  <2>1. k \in c /\ a[k] > 0 /\ r[k].symbol \in tradable
    BY <1>5
  <2>2. b[k] = [symbol |-> r[k].symbol, strategy |-> r[k].strategy,
                contract |-> contract[r[k].symbol], capital |-> a[k]]
    BY <1>1, <1>5, <1>6 DEF Manufactured
  <2>3. /\ r[k].symbol \in Symbols /\ r[k].strategy \in Strategies
        /\ contract[r[k].symbol] \in Contracts
    BY <1>4, <2>1 DEF Names
  <2>4. a[k] \in 1..Total
    BY <1>3, <2>1, PolicyTypes
  <2> QED BY <2>2, <2>3, <2>4 DEF Plans
<1>7. b = [k \in DOMAIN b |-> b[k]]
  BY <1>1 DEF Manufactured
<1> QED BY <1>5, <1>6, <1>7

\* A batch is typed.
LEMMA BatchTyped ==
  ASSUME NEW b \in Batches
  PROVE  /\ \E K \in SUBSET (1..Slots) : b \in [K -> Plans]
         /\ \A k \in DOMAIN b : b[k] \in Plans
<1>1. PICK r, c, a : MadeOf(b, r, c, a)
  BY BatchesAreMade
<1>2. /\ DOMAIN b \subseteq c /\ b = [k \in DOMAIN b |-> b[k]]
      /\ \A k \in DOMAIN b : b[k] \in Plans
  BY <1>1, BatchMembers
<1>3. PICK n \in 0..Slots : c \subseteq 1..n
  BY <1>1, SelectedTypes DEF MadeOf
<1>4. 1..n \subseteq 1..Slots
  BY PolicyTypes
<1>5. b \in [DOMAIN b -> Plans]
  BY <1>2
<1>6. DOMAIN b \in SUBSET (1..Slots)
  BY <1>2, <1>3, <1>4
<1> QED BY <1>2, <1>5, <1>6

\* Of two bots on a symbol the one that ranked higher has no less.
LEMMA BatchInOrder ==
  ASSUME NEW b \in Batches, NEW j \in DOMAIN b, NEW k \in DOMAIN b, j < k,
         b[j].symbol = b[k].symbol
  PROVE  b[j].capital >= b[k].capital
<1>1. PICK r, c, a : MadeOf(b, r, c, a)
  BY BatchesAreMade
<1>2. /\ j \in c /\ k \in c /\ r[j].symbol = r[k].symbol
      /\ b[j].capital = a[j] /\ b[k].capital = a[k]
  BY <1>1, BatchMembers
<1>3. IsRanking(r) /\ c \in Selected(r) /\ a \in Shared(r, c)
  BY <1>1 DEF MadeOf
<1>4. a[j] >= a[k]
  BY <1>2, <1>3, SharedInOrder
<1> QED BY <1>2, <1>4

\* Plans of a batch that have their ranks in L have no more capital, and are no more,
\* than what L was given.
LEMMA PlansOfRanks ==
  ASSUME NEW b, NEW r, NEW c, NEW a, MadeOf(b, r, c, a), NEW P, NEW L \in SUBSET c,
         \A p \in P : \E k \in L \cap DOMAIN b : b[k] = p
  PROVE  /\ Funds(P) <= Sum(a, L)
         /\ IsFiniteSet(P) /\ Cardinality(P) <= Cardinality(L)
<1>1. IsRanking(r) /\ c \in Selected(r) /\ a \in Shared(r, c)
  BY DEF MadeOf
<1>2. IsFiniteSet(L)
  <2>1. IsFiniteSet(c)
    BY <1>1, SelectedTypes
  <2> QED BY <2>1, FS_Subset
<1>3. \A k \in L : a[k] \in Nat
  BY <1>1, SharedTypes
<1> DEFINE h == [p \in P |-> CHOOSE k \in L \cap DOMAIN b : b[k] = p]
           f == [p \in P |-> p.capital]
<1>4. \A p \in P : h[p] \in L /\ h[p] \in DOMAIN b /\ b[h[p]] = p
  OBVIOUS
<1>5. h \in [P -> L]
  <2>1. h = [p \in P |-> h[p]]
    OBVIOUS
  <2> HIDE DEF h
  <2> QED BY <1>4, <2>1
<1>6. h \in Injection(P, L)
  <2> HIDE DEF h
  <2> QED BY <1>4, <1>5 DEF Injection, IsInjective
<1>7. \A p \in P : f[p] = a[h[p]]
  <2>1. \A k \in DOMAIN b : b[k].capital = a[k]
    BY BatchMembers
  <2> HIDE DEF h
  <2> QED BY <1>4, <2>1
<1>8. Sum(f, P) <= Sum(a, L)
  <2> HIDE DEF h, f
  <2> QED BY <1>2, <1>3, <1>6, <1>7, SumAlong
<1>9. IsFiniteSet(P) /\ Cardinality(P) <= Cardinality(L)
  <2> HIDE DEF h
  <2> QED BY <1>2, <1>6, FS_Injection
<1> QED BY <1>8, <1>9 DEF Funds

\* Capital adds up to a number.
LEMMA FundsIsNat ==
  ASSUME NEW P \in SUBSET Plans, IsFiniteSet(P)
  PROVE  Funds(P) \in Nat /\ Cardinality(P) \in Nat
<1> DEFINE f == [p \in P |-> p.capital]
<1>1. \A p \in P : f[p] \in Nat
  BY PolicyTypes DEF Plans
<1>2. Sum(f, P) \in Nat
  <2> HIDE DEF f
  <2> QED BY <1>1, SumIsNat
<1> QED BY <1>2, FS_CardinalityType DEF Funds

\* The plans of a batch are within the policy, and so are some of them.
LEMMA BatchFits ==
  ASSUME NEW b \in Batches, NEW P, \A p \in P : \E k \in DOMAIN b : b[k] = p
  PROVE  WithinPolicy(P)
<1>1. PICK r, c, a : MadeOf(b, r, c, a)
  BY BatchesAreMade
<1>2. IsRanking(r) /\ c \in Selected(r) /\ a \in Shared(r, c)
  BY <1>1 DEF MadeOf
<1>3. DOMAIN b \subseteq c /\ \A k \in DOMAIN b : b[k] \in Plans /\ b[k].symbol = r[k].symbol
  BY <1>1, BatchMembers
<1>4. P \subseteq Plans
  BY <1>3
<1>5. /\ IsFiniteSet(c) /\ Cardinality(c) \in Nat
      /\ \A s : /\ OfSymbol(r, c, s) \in SUBSET c
                /\ Cardinality(OfSymbol(r, c, s)) \in Nat
  BY <1>2, SelectedTypes, FS_CardinalityType
<1>6. ASSUME NEW Q, Q \subseteq Plans, NEW L \in SUBSET c,
             \A p \in Q : \E k \in L \cap DOMAIN b : b[k] = p
      PROVE  /\ Funds(Q) \in Nat /\ Cardinality(Q) \in Nat
             /\ Funds(Q) <= Sum(a, L) /\ Cardinality(Q) <= Cardinality(L)
  BY <1>1, <1>6, PlansOfRanks, FundsIsNat
<1>7. Funds(P) <= Total /\ Cardinality(P) <= MaxBots
  <2>1. \A p \in P : \E k \in c \cap DOMAIN b : b[k] = p
    BY <1>3
  <2>2. /\ Funds(P) \in Nat /\ Cardinality(P) \in Nat
        /\ Funds(P) <= Sum(a, c) /\ Cardinality(P) <= Cardinality(c)
    BY <1>4, <1>6, <2>1
  <2>3. Sum(a, c) \in Nat /\ Sum(a, c) <= Total /\ Cardinality(c) <= MaxBots
    BY <1>2, SharedInTotal, SelectedWithin
  <2> QED BY <1>5, <2>2, <2>3, PolicyTypes
<1>8. ASSUME NEW s
      PROVE  /\ Funds(Of(s, P)) <= SymbolCap
             /\ Cardinality(Of(s, P)) <= MaxBotsPerSymbol
  <2> DEFINE O == OfSymbol(r, c, s)
             Q == Of(s, P)
  <2>1. \A p \in Q : \E k \in O \cap DOMAIN b : b[k] = p
    BY <1>3 DEF Of, OfSymbol
  <2>2. Q \subseteq Plans /\ O \in SUBSET c
    BY <1>4, <1>5 DEF Of
  <2>3. /\ Funds(Q) \in Nat /\ Cardinality(Q) \in Nat
        /\ Funds(Q) <= Sum(a, O) /\ Cardinality(Q) <= Cardinality(O)
    <3> HIDE DEF O, Q
    <3> QED BY <1>6, <2>1, <2>2
  <2>4. Sum(a, O) \in Nat /\ Sum(a, O) <= SymbolCap /\ Cardinality(O) <= MaxBotsPerSymbol
    BY <1>2, SharedInSymbol, SelectedWithin
  <2>5. Cardinality(O) \in Nat
    BY <1>5
  <2> HIDE DEF O
  <2>6. Funds(Q) <= SymbolCap /\ Cardinality(Q) <= MaxBotsPerSymbol
    <3> HIDE DEF Q
    <3> QED BY <2>3, <2>4, <2>5, PolicyTypes
  <2> QED BY <2>6
<1> QED BY <1>7, <1>8 DEF WithinPolicy

-----------------------------------------------------------------------------
(* The fleet                                                                *)

Bots == [bot : Plans, status : Statuses]

\* g has the bots of f, of which none came back from retirement.
Grown(f, g) ==
  /\ DOMAIN f \subseteq DOMAIN g
  /\ \A k \in DOMAIN f :
       /\ g[k].bot = f[k].bot
       /\ f[k].status = "Retired" => g[k] = f[k]

\* The bots that are not retired have ids of their own.
Alone(f) ==
  \A j, k \in DOMAIN f :
    f[j].bot = f[k].bot /\ f[j].status # "Retired" /\ f[k].status # "Retired" => j = k

\* A change of statuses is a fleet again.
LEMMA StatusesChange ==
  ASSUME NEW f \in Seq(Bots), NEW g, g = [k \in DOMAIN f |-> g[k]],
         \A k \in DOMAIN f : \E s \in Statuses :
           g[k] = [f[k] EXCEPT !.status = s] /\ (f[k].status = "Retired" => s = "Retired")
  PROVE  g \in Seq(Bots) /\ Grown(f, g) /\ (Alone(f) => Alone(g))
<1>1. Len(f) \in Nat /\ DOMAIN f = 1..Len(f) /\ \A k \in DOMAIN f : f[k] \in Bots
  BY LenProperties, ElementOfSeq
<1>2. ASSUME NEW k \in DOMAIN f
      PROVE  /\ g[k] \in Bots /\ g[k].bot = f[k].bot
             /\ f[k].status = "Retired" => g[k] = f[k]
             /\ g[k].status # "Retired" => f[k].status # "Retired"
  <2>1. PICK s \in Statuses : g[k] = [f[k] EXCEPT !.status = s]
                                /\ (f[k].status = "Retired" => s = "Retired")
    OBVIOUS
  <2>2. f[k] \in Bots
    BY <1>1
  <2>3. g[k] = [bot |-> f[k].bot, status |-> s] /\ f[k].bot \in Plans
    BY <2>1, <2>2 DEF Bots
  <2>4. f[k] = [bot |-> f[k].bot, status |-> f[k].status]
    BY <2>2 DEF Bots
  <2> QED BY <2>1, <2>3, <2>4 DEF Bots
<1>3. DOMAIN g = DOMAIN f
  OBVIOUS
<1>4. g \in Seq(Bots)
  <2>1. g \in [1..Len(f) -> Bots]
    BY <1>1, <1>2
  <2> QED BY <1>1, <2>1, SeqDef
<1>5. Grown(f, g)
  BY <1>2, <1>3 DEF Grown
<1>6. Alone(f) => Alone(g)
  BY <1>2, <1>3 DEF Alone
<1> QED BY <1>4, <1>5, <1>6

\* retire_all and activate_all
LEMMA AllChange ==
  ASSUME NEW f \in Seq(Bots)
  PROVE  /\ AllRetired(f) \in Seq(Bots) /\ Grown(f, AllRetired(f)) /\ Alone(AllRetired(f))
         /\ AllActive(f) \in Seq(Bots) /\ Grown(f, AllActive(f))
         /\ Alone(f) => Alone(AllActive(f))
<1>1. \A k \in DOMAIN f : f[k] \in Bots
  BY LenProperties, ElementOfSeq
<1>2. ASSUME NEW g, g = AllRetired(f) PROVE g \in Seq(Bots) /\ Grown(f, g) /\ Alone(g)
  <2>1. /\ g = [k \in DOMAIN f |-> g[k]]
        /\ \A k \in DOMAIN f : g[k] = [f[k] EXCEPT !.status = "Retired"]
    BY <1>2 DEF AllRetired
  <2>2. "Retired" \in Statuses
    BY DEF Statuses
  <2>3. \A k \in DOMAIN g : g[k].status = "Retired"
    BY <1>1, <2>1 DEF Bots
  <2>4. Alone(g)
    BY <2>3 DEF Alone
  <2> QED BY <2>1, <2>2, <2>4, StatusesChange
<1>3. ASSUME NEW g, g = AllActive(f)
      PROVE  g \in Seq(Bots) /\ Grown(f, g) /\ (Alone(f) => Alone(g))
  <2>1. /\ g = [k \in DOMAIN f |-> g[k]]
        /\ \A k \in DOMAIN f :
             g[k] = [f[k] EXCEPT !.status = IF f[k].status = "Retired" THEN f[k].status
                                                                     ELSE "Active"]
    BY <1>3 DEF AllActive
  <2>2. \A k \in DOMAIN f : \E s \in Statuses :
           g[k] = [f[k] EXCEPT !.status = s] /\ (f[k].status = "Retired" => s = "Retired")
    <3> SUFFICES ASSUME NEW k \in DOMAIN f
                 PROVE  \E s \in Statuses :
                          /\ g[k] = [f[k] EXCEPT !.status = s]
                          /\ f[k].status = "Retired" => s = "Retired"
      OBVIOUS
    <3> DEFINE s == IF f[k].status = "Retired" THEN f[k].status ELSE "Active"
    <3>1. s \in Statuses /\ (f[k].status = "Retired" => s = "Retired")
      BY DEF Statuses
    <3>2. g[k] = [f[k] EXCEPT !.status = s]
      BY <2>1
    <3> HIDE DEF s
    <3> QED BY <3>1, <3>2
  <2> QED BY <2>1, <2>2, StatusesChange
<1> QED BY <1>2, <1>3

\* set
LEMMA SetChanges ==
  ASSUME NEW f \in Seq(Bots), NEW p \in Plans, NEW from \in Statuses \ {"Retired"},
         NEW to \in Statuses
  PROVE  /\ Set(f, p, from, to) \in Seq(Bots) /\ Grown(f, Set(f, p, from, to))
         /\ Alone(f) => Alone(Set(f, p, from, to))
<1> DEFINE g == Set(f, p, from, to)
<1>1. \A k \in DOMAIN f : f[k] \in Bots
  BY LenProperties, ElementOfSeq
<1>2. /\ g = [k \in DOMAIN f |-> g[k]]
      /\ \A k \in DOMAIN f : \/ g[k] = [f[k] EXCEPT !.status = to] /\ f[k].status = from
                             \/ g[k] = f[k]
  BY DEF Set
<1>3. ASSUME NEW k \in DOMAIN f
      PROVE  \E s \in Statuses : /\ g[k] = [f[k] EXCEPT !.status = s]
                                 /\ f[k].status = "Retired" => s = "Retired"
  <2>1. f[k].status \in Statuses /\ f[k] = [f[k] EXCEPT !.status = f[k].status]
    BY <1>1 DEF Bots
  <2>2. CASE g[k] = f[k]
    BY <2>1, <2>2
  <2>3. CASE g[k] = [f[k] EXCEPT !.status = to] /\ f[k].status = from
    BY <2>3
  <2> HIDE DEF g
  <2> QED BY <1>2, <2>2, <2>3
<1> HIDE DEF g
<1>4. g \in Seq(Bots) /\ Grown(f, g) /\ (Alone(f) => Alone(g))
  BY <1>2, <1>3, StatusesChange
<1> QED BY <1>4 DEF g

\* create
LEMMA CreatedGrows ==
  ASSUME NEW f \in Seq(Bots), NEW p \in Plans
  PROVE  /\ Created(f, p) \in Seq(Bots) /\ Grown(f, Created(f, p))
         /\ Alone(f) => Alone(Created(f, p))
<1> DEFINE x == [bot |-> p, status |-> "Draft"]
           g == Append(f, x)
<1>1. x \in Bots
  BY DEF Bots, Statuses
<1>2. /\ Len(f) \in Nat /\ DOMAIN f = 1..Len(f)
      /\ g \in Seq(Bots) /\ Len(g) = Len(f) + 1
      /\ \A k \in 1..Len(f) : g[k] = f[k]
      /\ g[Len(f) + 1] = x
  <2> HIDE DEF x
  <2> QED BY <1>1, LenProperties, AppendProperties
<1>3. DOMAIN g = 1..(Len(f) + 1)
  <2> HIDE DEF g
  <2> QED BY <1>2, LenProperties
<1>4. CASE \E k \in DOMAIN f : f[k].bot = p /\ f[k].status # "Retired"
  <2>1. Created(f, p) = f
    BY <1>4 DEF Created
  <2> QED BY <2>1 DEF Grown
<1>5. CASE \A k \in DOMAIN f : ~(f[k].bot = p /\ f[k].status # "Retired")
  <2>1. Created(f, p) = g
    BY <1>5 DEF Created
  <2>2. x.bot = p
    OBVIOUS
  <2> HIDE DEF g, x
  <2>3. \A k \in DOMAIN f : k \in DOMAIN g /\ g[k] = f[k]
    BY <1>2, <1>3
  <2>4. Grown(f, g)
    BY <2>3 DEF Grown
  <2>5. ASSUME Alone(f) PROVE Alone(g)
    <3> SUFFICES ASSUME NEW j \in DOMAIN g, NEW k \in DOMAIN g, g[j].bot = g[k].bot,
                        g[j].status # "Retired", g[k].status # "Retired"
                 PROVE  j = k
      BY DEF Alone
    <3>1. /\ j \in DOMAIN f \/ j = Len(f) + 1
          /\ k \in DOMAIN f \/ k = Len(f) + 1
      BY <1>2, <1>3
    <3>2. CASE j \in DOMAIN f /\ k \in DOMAIN f
      BY <2>3, <2>5, <3>2 DEF Alone
    <3>3. CASE j \in DOMAIN f /\ k = Len(f) + 1
      BY <1>2, <1>5, <2>2, <2>3, <3>3
    <3>4. CASE k \in DOMAIN f /\ j = Len(f) + 1
      BY <1>2, <1>5, <2>2, <2>3, <3>4
    <3> QED BY <3>1, <3>2, <3>3, <3>4
  <2> QED BY <1>2, <2>1, <2>4, <2>5
<1> QED BY <1>4, <1>5

\* What one manufactured bot does to the fleet
LEMMA PromotedGrows ==
  ASSUME NEW f \in Seq(Bots), NEW p \in Plans
  PROVE  /\ Promoted(f, p) \in Seq(Bots) /\ Grown(f, Promoted(f, p))
         /\ Alone(f) => Alone(Promoted(f, p))
<1> DEFINE c == Created(f, p)
           d == Set(c, p, "Draft", "Paper")
           e == Set(d, p, "Paper", "Active")
<1>1. c \in Seq(Bots) /\ Grown(f, c) /\ (Alone(f) => Alone(c))
  BY CreatedGrows
<1> HIDE DEF c
<1>2. d \in Seq(Bots) /\ Grown(c, d) /\ (Alone(c) => Alone(d))
  BY <1>1, SetChanges DEF Statuses
<1> HIDE DEF d
<1>3. e \in Seq(Bots) /\ Grown(d, e) /\ (Alone(d) => Alone(e))
  BY <1>2, SetChanges DEF Statuses
<1> HIDE DEF e
<1>4. Grown(f, e)
  BY <1>1, <1>2, <1>3 DEF Grown
<1>5. Promoted(f, p) = IF c = f THEN f ELSE e
  BY DEF Promoted, c, d, e
<1>6. Grown(f, f)
  BY DEF Grown
<1> QED BY <1>1, <1>2, <1>3, <1>4, <1>5, <1>6

-----------------------------------------------------------------------------
(* The types, and what the fleet does                                       *)

\* The fleet as a sequence, and its bots alone under their ids
LEMMA FleetStep ==
  ASSUME TypeOK, [Next]_vars
  PROVE  /\ fleet' \in Seq(Bots)
         /\ restarts' = restarts => Grown(fleet, fleet')
         /\ Alone(fleet) => Alone(fleet')
<1>0. fleet \in Seq(Bots)
  BY DEF TypeOK, Bots
<1>1. /\ AllRetired(fleet) \in Seq(Bots) /\ Grown(fleet, AllRetired(fleet))
      /\ Alone(AllRetired(fleet))
      /\ AllActive(fleet) \in Seq(Bots) /\ Grown(fleet, AllActive(fleet))
      /\ Alone(fleet) => Alone(AllActive(fleet))
      /\ Grown(fleet, fleet)
  BY <1>0, AllChange DEF Grown
<1>2. CASE fleet' = fleet
  BY <1>0, <1>1, <1>2
<1>3. CASE (\E b \in Batches : Prepare(b)) \/ Close
  <2>1. fleet' = AllRetired(fleet)
    BY <1>3 DEF Prepare, Close
  <2> QED BY <1>1, <2>1
<1>4. ASSUME NEW k \in DOMAIN batch, Make(k)
      PROVE  /\ fleet' \in Seq(Bots) /\ Grown(fleet, fleet')
             /\ Alone(fleet) => Alone(fleet')
  <2>1. batch[k] \in Plans
    BY DEF TypeOK
  <2>2. fleet' = Promoted(fleet, batch[k]) \/ fleet' = fleet
    BY <1>4 DEF Make
  <2> QED BY <1>0, <1>1, <2>1, <2>2, PromotedGrows
<1>5. CASE \E matched \in BOOLEAN : Activate(matched)
  <2>1. fleet' = AllActive(fleet) \/ fleet' = fleet
    BY <1>5 DEF Activate
  <2> QED BY <1>0, <1>1, <2>1
<1>6. CASE Restart
  <2>1. fleet' = <<>> /\ restarts' = restarts + 1 /\ restarts \in Nat
    BY <1>6, BoundsAssumption DEF Restart, TypeOK
  <2>2. fleet' \in Seq(Bots) /\ DOMAIN fleet' = {}
    BY <2>1, EmptySeq
  <2> QED BY <2>1, <2>2 DEF Alone
<1> QED BY <1>2, <1>3, <1>4, <1>5, <1>6 DEF Next, Recover, NextDay, vars

\* A preparation is counted within its bound.
LEMMA PreparedStep ==
  ASSUME TypeOK, NEW b, Prepare(b)
  PROVE  /\ prepared' \in [1..MaxDays -> 0..MaxPreparations]
         /\ prepared'[today] = prepared[today] + 1
         /\ \A d \in 1..MaxDays : d # today => prepared'[d] = prepared[d]
<1>1. /\ prepared \in [1..MaxDays -> 0..MaxPreparations] /\ today \in 1..MaxDays
      /\ prepared' = [prepared EXCEPT ![today] = @ + 1]
      /\ Sum(prepared, 1..MaxDays) < MaxPreparations
  BY DEF TypeOK, Prepare
<1>2. IsFiniteSet(1..MaxDays) /\ \A d \in 1..MaxDays : prepared[d] \in Nat
  <2>1. 1 \in Int /\ MaxDays \in Int
    BY BoundsAssumption
  <2>2. IsFiniteSet(1..MaxDays)
    BY <2>1, FS_Interval
  <2> QED BY <1>1, <2>2
<1>3. Sum(prepared, 1..MaxDays) \in Nat /\ prepared[today] <= Sum(prepared, 1..MaxDays)
  BY <1>1, <1>2, SumCovers
<1>4. prepared[today] + 1 \in 0..MaxPreparations
  BY <1>1, <1>2, <1>3, BoundsAssumption
<1> QED BY <1>1, <1>4

\* Without a preparation there is no plan.
LEMMA NoPlansTyped == NoPlans \in [{} -> Plans] /\ DOMAIN NoPlans = {}
BY DEF NoPlans

\* Initially
LEMMA TypedInit == Init => TypeOK
<1> SUFFICES ASSUME Init PROVE TypeOK
  OBVIOUS
<1>1. \E K \in SUBSET (1..Slots) : batch \in [K -> Plans]
  BY NoPlansTyped DEF Init
<1>2. today \in 1..MaxDays /\ session \in 1..today /\ saved \in 1..session
  BY BoundsAssumption DEF Init
<1>3. prepared \in [1..MaxDays -> 0..MaxPreparations] /\ restarts \in 0..MaxRestarts
  BY BoundsAssumption DEF Init
<1>4. fleet \in Seq([bot : Plans, status : Statuses])
  BY EmptySeq DEF Init
<1> QED BY <1>1, <1>2, <1>3, <1>4 DEF Init, TypeOK, Slots

\* The days go on.
LEMMA DaysStep ==
  ASSUME TypeOK, [Next]_vars
  PROVE  today' \in 1..MaxDays /\ session' \in 1..today' /\ saved' \in 1..session'
<1>1. today \in 1..MaxDays /\ session \in 1..today /\ saved \in 1..session
  BY DEF TypeOK
<1>2. \/ UNCHANGED <<today, session, saved>>
      \/ today' = today /\ session' = today /\ saved' \in {saved, today}
      \/ today' = today /\ session' = session /\ saved' = session
      \/ today < MaxDays /\ today' = today + 1 /\ UNCHANGED <<session, saved>>
  BY DEF Next, Prepare, Make, Activate, Recover, NextDay, Close, Restart, vars
<1> QED BY <1>1, <1>2, BoundsAssumption

\* Every step keeps the types.
LEMMA TypedStep == TypeOK /\ [Next]_vars => TypeOK'
<1> SUFFICES ASSUME TypeOK, [Next]_vars PROVE TypeOK'
  OBVIOUS
<1>1. today' \in 1..MaxDays /\ session' \in 1..today' /\ saved' \in 1..session'
  BY DaysStep
<1>2. fleet' \in Seq([bot : Plans, status : Statuses])
  BY FleetStep DEF Bots
<1>3. pc' \in {"idle", "making", "trading"}
  BY DEF TypeOK, Next, Prepare, Make, Activate, Recover, NextDay, Close, Restart, vars
<1>4. /\ \E K \in SUBSET (1..Slots) : batch' \in [K -> Plans]
      /\ made' \subseteq DOMAIN batch'
  <2>1. CASE batch' = batch /\ (made' = made \/ \E k \in DOMAIN batch : made' = made \cup {k})
    BY <2>1 DEF TypeOK, Slots
  <2>2. CASE batch' = NoPlans /\ made' = {}
    BY <2>2, NoPlansTyped
  <2>3. CASE batch' \in Batches /\ made' = {}
    BY <2>3, BatchTyped
  <2> QED BY <2>1, <2>2, <2>3
      DEF Next, Prepare, Make, Activate, Recover, NextDay, Close, Restart, vars
<1>5. plans' \subseteq Plans /\ rows' \subseteq Plans \X (1..MaxDays)
  <2>1. plans \subseteq Plans /\ rows \subseteq Plans \X (1..MaxDays)
    BY DEF TypeOK
  <2>2. PlansOf(saved) \subseteq Plans
    BY <2>1 DEF PlansOf
  <2>3. CASE rows' = rows /\ plans' \in {plans, {}, PlansOf(saved)}
    BY <2>1, <2>2, <2>3
  <2>4. ASSUME NEW k \in DOMAIN batch, Make(k)
        PROVE  plans' \subseteq Plans /\ rows' \subseteq Plans \X (1..MaxDays)
    <3>1. batch[k] \in Plans /\ session \in 1..MaxDays
      BY BoundsAssumption DEF TypeOK
    <3>2. /\ plans' = plans \cup {batch[k]} \/ plans' = plans
          /\ rows' = Stored(batch[k], session) \/ rows' = rows
      BY <2>4 DEF Make
    <3>3. Stored(batch[k], session) \subseteq Plans \X (1..MaxDays)
      BY <2>1, <3>1 DEF Stored
    <3> QED BY <2>1, <3>1, <3>2, <3>3
  <2> QED BY <2>3, <2>4 DEF Next, Prepare, Activate, Recover, NextDay, Close, Restart, vars
<1>6. prepared' \in [1..MaxDays -> 0..MaxPreparations]
  <2>1. CASE prepared' = prepared
    BY <2>1 DEF TypeOK
  <2>2. CASE \E b \in Batches : Prepare(b)
    BY <2>2, PreparedStep
  <2> QED BY <2>1, <2>2 DEF Next, Make, Activate, Recover, NextDay, Close, Restart, vars
<1>7. restarts' \in 0..MaxRestarts
  <2>1. restarts \in 0..MaxRestarts
    BY DEF TypeOK
  <2>2. restarts' = restarts \/ (restarts < MaxRestarts /\ restarts' = restarts + 1)
    BY DEF Next, Prepare, Make, Activate, Recover, NextDay, Close, Restart, vars
  <2> QED BY <2>1, <2>2, BoundsAssumption
<1> QED BY <1>1, <1>2, <1>3, <1>4, <1>5, <1>6, <1>7 DEF TypeOK, Slots

\* Sessions, plans, rows and the fleet are what their names say, whatever is prepared
\* and however often the process restarts.
THEOREM ManufacturingTyped == Spec => []TypeOK
BY TypedInit, TypedStep, PTL DEF Spec

\* retire_all is final: promote_paper and activate find a bot by its id and leave a
\* retired one alone, activate_all passes over it.
THEOREM RetiredStayRetired == Spec => RetiredIsFinal
<1>1. ASSUME TypeOK, [Next]_vars
      PROVE  [restarts' = restarts =>
                \A k \in DOMAIN fleet : fleet[k].status = "Retired" => fleet'[k] = fleet[k]]_vars
  BY <1>1, FleetStep DEF Grown
<1> QED BY <1>1, ManufacturingTyped, PTL DEF Spec, RetiredIsFinal

\* BotFleet::create refuses an id that is in use: of the bots that are not retired no two
\* have the same id.
THEOREM BotsAreAlone == Spec => []Alone(fleet)
<1>1. Init => Alone(fleet)
  BY EmptySeq DEF Init, Alone
<1>2. TypeOK /\ Alone(fleet) /\ [Next]_vars => Alone(fleet)'
  <2>1. ASSUME NEW f, f = fleet' PROVE Alone(f) => Alone(fleet)'
    BY <2>1 DEF Alone
  <2> QED BY <2>1, FleetStep
<1> QED BY <1>1, <1>2, ManufacturingTyped, PTL DEF Spec

-----------------------------------------------------------------------------
(* The budget                                                               *)

InBatch(b) == {b[k] : k \in DOMAIN b}

\* The plans of P were manufactured at one time.
Sourced(P) == \E b \in Batches \cup {NoPlans} : P \subseteq InBatch(b)

\* Where plans and rows come from: what trades was manufactured at one time, unless a
\* restart brought back the rows of a session that was prepared more than once.
Accounted ==
  /\ batch \in Batches \cup {NoPlans}
  /\ pc = "making" =>
       /\ plans \subseteq InBatch(batch)
       /\ prepared[session] >= 1
       /\ prepared[session] = 1 => PlansOf(session) \subseteq InBatch(batch)
  /\ \A d \in 1..MaxDays :
       /\ prepared[d] = 0 => PlansOf(d) = {}
       /\ prepared[d] <= 1 => Sourced(PlansOf(d))
  /\ restarts = 0 \/ (\A d \in 1..MaxDays : prepared[d] <= 1) => Sourced(plans)

\* What was manufactured at one time is within the policy.
LEMMA SourcedFits ==
  ASSUME NEW P, Sourced(P)
  PROVE  WithinPolicy(P)
<1>1. PICK b \in Batches \cup {NoPlans} : P \subseteq InBatch(b)
  BY DEF Sourced
<1>2. CASE b \in Batches
  BY <1>1, <1>2, BatchFits DEF InBatch
<1>3. CASE b = NoPlans
  <2>1. P = {}
    BY <1>1, <1>3, NoPlansTyped DEF InBatch
  <2>2. \A f : Sum(f, {}) = 0
    BY SumOfNone
  <2>3. /\ Funds({}) = 0 /\ Cardinality({}) = 0
        /\ \A s : Of(s, {}) = {}
    BY <2>2, FS_EmptySet DEF Funds, Of
  <2> QED BY <2>1, <2>3, PolicyTypes DEF WithinPolicy
<1> QED BY <1>1, <1>2, <1>3

\* No plan was manufactured at any time.
LEMMA NoneSourced == Sourced({})
<1>1. NoPlans \in Batches \cup {NoPlans} /\ {} \subseteq InBatch(NoPlans)
  OBVIOUS
<1> QED BY <1>1 DEF Sourced

\* Some of what was manufactured at one time
LEMMA SourcedShrinks ==
  ASSUME NEW P, Sourced(P), NEW Q \in SUBSET P
  PROVE  Sourced(Q)
BY DEF Sourced

\* A preparation
LEMMA PrepareAccounts ==
  ASSUME TypeOK, Accounted, NEW b \in Batches, Prepare(b)
  PROVE  Accounted'
<1>1. /\ batch' = b /\ plans' = {} /\ session' = today /\ restarts' = restarts
      /\ rows' = rows /\ today \in 1..MaxDays /\ today' = today
  BY BoundsAssumption DEF Prepare, TypeOK
<1> DEFINE t == today
<1>2. /\ prepared'[t] = prepared[t] + 1
      /\ \A d \in 1..MaxDays : d # t => prepared'[d] = prepared[d]
  BY <1>1 DEF Prepare, TypeOK
<1>3. /\ prepared[t] \in Nat
      /\ prepared[t] = 0 => PlansOf(t) = {}
  BY <1>1, BoundsAssumption DEF TypeOK, Accounted
<1>4. \A d : PlansOf(d)' = PlansOf(d)
  BY <1>1 DEF PlansOf
<1> HIDE DEF t
<1>5. ASSUME NEW d \in 1..MaxDays
      PROVE  /\ prepared'[d] = 0 => PlansOf(d)' = {}
             /\ prepared'[d] <= 1 => Sourced(PlansOf(d)')
  <2>1. CASE d = t
    BY <1>2, <1>3, <1>4, <2>1, NoneSourced
  <2>2. CASE d # t
    BY <1>2, <1>4, <2>2 DEF Accounted
  <2> QED BY <2>1, <2>2
<1>6. /\ prepared'[t] >= 1
      /\ prepared'[t] = 1 => PlansOf(t) = {}
  BY <1>2, <1>3
<1>7. PlansOf(session)' = PlansOf(t) /\ session' = t
  BY <1>1 DEF PlansOf, t
<1> QED BY <1>1, <1>5, <1>6, <1>7, NoneSourced DEF Accounted, Sourced

\* The row of a plan: no other session gets rows.
LEMMA MakeRows ==
  ASSUME NEW p, NEW s, rows' = Stored(p, s), NEW d
  PROVE  PlansOf(d)' \subseteq PlansOf(d) \cup (IF d = s THEN {p} ELSE {})
<1>1. ASSUME NEW q \in PlansOf(d)' PROVE q \in PlansOf(d) \cup (IF d = s THEN {p} ELSE {})
  <2>1. PICK r \in rows' : r[2] = d /\ q = r[1]
    BY DEF PlansOf
  <2>2. r \in rows \/ r = <<p, s>>
    BY <2>1 DEF Stored
  <2>3. CASE r \in rows
    BY <2>1, <2>3 DEF PlansOf
  <2>4. CASE r = <<p, s>>
    BY <2>1, <2>4
  <2> QED BY <2>2, <2>3, <2>4
<1> QED BY <1>1

\* A plan that is made
LEMMA MakeAccounts ==
  ASSUME TypeOK, Accounted, NEW k \in DOMAIN batch, Make(k)
  PROVE  Accounted'
<1>1. /\ pc = "making" /\ UNCHANGED <<session, batch, prepared, restarts>>
      /\ session \in 1..MaxDays
  BY BoundsAssumption DEF Make, TypeOK
<1>2. /\ batch \in Batches \cup {NoPlans}
      /\ plans \subseteq InBatch(batch) /\ prepared[session] >= 1
      /\ prepared[session] = 1 => PlansOf(session) \subseteq InBatch(batch)
      /\ \A d \in 1..MaxDays : /\ prepared[d] = 0 => PlansOf(d) = {}
                               /\ prepared[d] <= 1 => Sourced(PlansOf(d))
  BY <1>1 DEF Accounted
<1>3. CASE pc' = "idle" /\ UNCHANGED <<rows, plans>>
  <2>1. \A d : PlansOf(d)' = PlansOf(d)
    BY <1>3 DEF PlansOf
  <2>2. Sourced(plans)
    BY <1>2 DEF Sourced
  <2> QED BY <1>1, <1>2, <1>3, <2>1, <2>2 DEF Accounted, Sourced
<1>4. CASE rows' = Stored(batch[k], session) /\ plans' = plans \cup {batch[k]} /\ pc' = pc
  <2>1. batch[k] \in InBatch(batch) /\ plans' \subseteq InBatch(batch)
    BY <1>2, <1>4 DEF InBatch
  <2>2. \A d : PlansOf(d)' \subseteq PlansOf(d) \cup (IF d = session THEN {batch[k]} ELSE {})
    BY <1>4, MakeRows
  <2>3. prepared[session] = 1 => PlansOf(session)' \subseteq InBatch(batch)
    <3>1. ASSUME NEW s, s = session PROVE PlansOf(session)' = PlansOf(s)'
      BY <1>1, <3>1 DEF PlansOf
    <3> QED BY <1>2, <2>1, <2>2, <3>1
  <2>4. ASSUME NEW d \in 1..MaxDays
        PROVE  /\ prepared[d] = 0 => PlansOf(d)' = {}
               /\ prepared[d] <= 1 => Sourced(PlansOf(d)')
    <3>1. prepared[d] \in Nat
      BY DEF TypeOK
    <3>2. CASE d = session
      <4>1. prepared[d] # 0 /\ (prepared[d] <= 1 => prepared[d] = 1)
        BY <1>2, <3>1, <3>2
      <4>2. prepared[d] = 1 => PlansOf(d)' \subseteq InBatch(batch)
        <5>1. PlansOf(d) = PlansOf(session)
          BY <3>2
        <5> QED BY <1>2, <2>1, <2>2, <3>2, <5>1
      <4> QED BY <1>2, <4>1, <4>2 DEF Sourced
    <3>3. CASE d # session
      <4>1. PlansOf(d)' \in SUBSET PlansOf(d)
        BY <2>2, <3>3
      <4> QED BY <1>2, <4>1, SourcedShrinks
    <3> QED BY <3>2, <3>3
  <2>5. Sourced(plans')
    BY <1>2, <2>1 DEF Sourced
  <2> QED BY <1>1, <1>2, <2>1, <2>3, <2>4, <2>5 DEF Accounted, Sourced
<1> QED BY <1>3, <1>4 DEF Make

\* A restart
LEMMA RestartAccounts ==
  ASSUME TypeOK, Accounted, Restart
  PROVE  Accounted'
<1>1. /\ plans' = PlansOf(saved) /\ UNCHANGED <<rows, prepared>> /\ batch' = NoPlans
      /\ restarts' = restarts + 1 /\ restarts \in Nat /\ saved \in 1..MaxDays
      /\ pc' # "making"
  BY BoundsAssumption DEF Restart, TypeOK
<1>2. \A d : PlansOf(d)' = PlansOf(d)
  BY <1>1 DEF PlansOf
<1>3. \A d \in 1..MaxDays : /\ prepared[d] = 0 => PlansOf(d) = {}
                            /\ prepared[d] <= 1 => Sourced(PlansOf(d))
  BY DEF Accounted
<1>4. restarts' = 0 \/ (\A d \in 1..MaxDays : prepared[d] <= 1) => Sourced(plans')
  BY <1>1, <1>3
<1> QED BY <1>1, <1>2, <1>3, <1>4 DEF Accounted, Sourced

\* Every step
LEMMA AccountedStep == TypeOK /\ Accounted /\ [Next]_vars => Accounted'
<1> SUFFICES ASSUME TypeOK, Accounted, [Next]_vars PROVE Accounted'
  OBVIOUS
<1>1. CASE Recover \/ NextDay \/ Close \/ (\E matched \in BOOLEAN : Activate(matched))
             \/ UNCHANGED vars
  <2>1. /\ UNCHANGED <<rows, prepared, restarts>>
        /\ UNCHANGED session
        /\ batch' \in {batch, NoPlans} /\ plans' \in {plans, {}}
        /\ pc' = "making" => pc = "making" /\ batch' = batch /\ plans' = plans
    BY <1>1 DEF Recover, NextDay, Close, Activate, vars
  <2>2. \A d : PlansOf(d)' = PlansOf(d)
    BY <2>1 DEF PlansOf
  <2>3. PlansOf(session)' = PlansOf(session)
    BY <2>1 DEF PlansOf
  <2> QED BY <2>1, <2>2, <2>3, NoneSourced DEF Accounted, Sourced
<1> QED BY <1>1, PrepareAccounts, MakeAccounts, RestartAccounts DEF Next

\* Initially
LEMMA AccountedInit == Init => Accounted
<1> SUFFICES ASSUME Init PROVE Accounted
  OBVIOUS
<1>1. \A d : PlansOf(d) = {}
  BY DEF Init, PlansOf
<1> QED BY <1>1, NoneSourced DEF Init, Accounted

\* It always holds.
LEMMA AlwaysAccounted == Spec => []Accounted
BY AccountedInit, AccountedStep, ManufacturingTyped, PTL DEF Spec

\* allocate_candidates keeps the capital within the total and the cap of a symbol, and the
\* bots within their numbers, whatever the candidates are; and as rows of one preparation
\* are those of one batch, so does what trades, until a restart restores the rows of a
\* session that was prepared twice.
THEOREM BudgetIsKept == Spec => []BudgetKept
<1>1. Accounted => BudgetKept
  BY SourcedFits DEF Accounted, BudgetKept
<1> QED BY <1>1, AlwaysAccounted, PTL

\* Ranked by confidence, the first bot on a symbol takes its share before the next one:
\* a better bot never gets less.
THEOREM BetterGetNoLess == Spec => []BetterGetsMore
<1>1. Accounted => BetterGetsMore
  <2> SUFFICES ASSUME Accounted, NEW j \in DOMAIN batch, NEW k \in DOMAIN batch, j < k,
                      batch[j].symbol = batch[k].symbol
               PROVE  batch[j].capital >= batch[k].capital
    BY DEF BetterGetsMore
  <2>1. batch \in Batches \/ batch = NoPlans
    BY DEF Accounted
  <2>2. batch # NoPlans
    BY NoPlansTyped
  <2> QED BY <2>1, <2>2, BatchInOrder
<1> QED BY <1>1, AlwaysAccounted, PTL

=============================================================================
