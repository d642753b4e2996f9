--------------------------- MODULE ExposureProofs ---------------------------
(***************************************************************************)
(* Proofs about Exposure.tla: the types, the aggregate limit and the limit *)
(* of a symbol, and the number of positions, for every set of contracts,   *)
(* all prices, limits and numbers of orders, however the broker fills.     *)
(*                                                                         *)
(* Sums over finite sets come first.  What holds of them is shown by       *)
(* induction over the subsets of a set: the induction theorems of the      *)
(* library take an operator, so the induction is on a set of good subsets  *)
(* (SubsetInduction), by a minimal counterexample of the well-founded      *)
(* inclusion.                                                              *)
(***************************************************************************)
EXTENDS Exposure, FiniteSetTheorems, WellFoundedInduction, TLAPS

-----------------------------------------------------------------------------
(* Sums over finite sets                                                    *)

\* Induction over the subsets of a finite set: what holds of a set when it holds of its
\* proper subsets.
LEMMA SubsetInduction ==
  ASSUME NEW S, IsFiniteSet(S), NEW Good,
         \A T \in SUBSET S : (\A U \in SUBSET T : U # T => U \in Good) => T \in Good
  PROVE  SUBSET S \subseteq Good
<1> DEFINE Bad == (SUBSET S) \ Good
           R == StrictSubsetOrdering(S)
<1>1. SUFFICES ASSUME Bad # {} PROVE FALSE
  OBVIOUS
<1>2. IsWellFoundedOn(R, SUBSET S)
  BY FS_StrictSubsetOrderingWellFounded, FS_FiniteSubsetsOfFinite
<1>3. PICK m \in Bad : \A y \in Bad : <<y, m>> \notin R
  <2>1. Bad \subseteq SUBSET S
    OBVIOUS
  <2> HIDE DEF R, Bad
  <2> QED BY <1>1, <1>2, <2>1, WFMin
<1>4. \A U \in SUBSET m : U # m => U \in Good
  BY <1>3 DEF StrictSubsetOrdering
<1> QED BY <1>4

\* The element a fold takes first
First(s) == CHOOSE x \in s : TRUE

\* g is the sum of f over the subsets of S
Sums(g, f, S) ==
  g = [s \in SUBSET S |-> IF s = {} THEN 0 ELSE f[First(s)] + g[s \ {First(s)}]]

\* It is one.
LEMMA FirstIn == ASSUME NEW s, s # {} PROVE First(s) \in s
BY DEF First

\* There is at most one such function, also between a set and its subsets.
LEMMA SumsAgree ==
  ASSUME NEW f, NEW S, IsFiniteSet(S), NEW g, Sums(g, f, S),
         NEW U, NEW h, Sums(h, f, U), NEW T \in (SUBSET S) \cap (SUBSET U)
  PROVE  g[T] = h[T]
<1> DEFINE Good == {V \in SUBSET T : g[V] = h[V]}
<1>1. IsFiniteSet(T)
  BY FS_Subset
<1>2. ASSUME NEW V \in SUBSET T, \A W \in SUBSET V : W # V => W \in Good
      PROVE  V \in Good
  <2>1. CASE V = {}
    BY <2>1 DEF Sums
  <2>2. CASE V # {}
    <3> DEFINE x == First(V)
    <3>1. x \in V
      BY <2>2, FirstIn
    <3> HIDE DEF x
    <3>2. g[V \ {x}] = h[V \ {x}]
      BY <1>2, <3>1
    <3>3. g[V] = f[x] + g[V \ {x}] /\ h[V] = f[x] + h[V \ {x}]
      BY <2>2 DEF Sums, x
    <3> QED BY <3>2, <3>3
  <2> QED BY <2>1, <2>2
<1>3. SUBSET T \subseteq Good
  <2> HIDE DEF Good
  <2> QED BY <1>1, <1>2, SubsetInduction
<1> QED BY <1>3

\* There is one: the recursion of the fold is well founded.
LEMMA SumsExist ==
  ASSUME NEW f, NEW S, IsFiniteSet(S)
  PROVE  \E g : Sums(g, f, S)
<1> DEFINE Good == {T \in SUBSET S : \E g : Sums(g, f, T)}
<1>1. ASSUME NEW T \in SUBSET S, \A U \in SUBSET T : U # T => U \in Good
      PROVE  T \in Good
  <2> DEFINE of(U) == CHOOSE g : Sums(g, f, U)
             At(V) == of(V)[V]
             body(V) == IF V = {} THEN 0 ELSE f[First(V)] + At(V \ {First(V)})
             h == [V \in SUBSET T |-> body(V)]
  <2>1. \A U \in SUBSET T : U # T => Sums(of(U), f, U)
    BY <1>1
  <2>2. ASSUME NEW V \in SUBSET T, V # T PROVE h[V] = At(V)
    <3>1. CASE V = {}
      <4>1. Sums(of(V), f, V)
        BY <2>1, <2>2
      <4>2. of(V)[V] = 0
        <5> HIDE DEF of
        <5> QED BY <3>1, <4>1 DEF Sums
      <4>3. h[V] = 0
        <5> HIDE DEF At
        <5> QED BY <3>1
      <4> QED BY <4>2, <4>3
    <3>2. CASE V # {}
      <4> DEFINE x == First(V)
      <4>1. x \in V
        BY <3>2, FirstIn
      <4>2. V \ {x} \in SUBSET T /\ V \ {x} # T
        BY <4>1
      <4>3. Sums(of(V), f, V) /\ Sums(of(V \ {x}), f, V \ {x})
        BY <2>1, <2>2, <4>2
      <4>4. IsFiniteSet(V)
        BY FS_Subset
      <4>5. V \ {x} \in (SUBSET V) \cap (SUBSET (V \ {x}))
        OBVIOUS
      <4>6. of(V)[V \ {x}] = At(V \ {x})
        <5> HIDE DEF of, x
        <5> QED BY <4>3, <4>4, <4>5, SumsAgree
      <4>7. of(V)[V] = f[x] + of(V)[V \ {x}]
        <5> HIDE DEF of
        <5> QED BY <3>2, <4>3 DEF Sums
      <4>8. h[V] = f[x] + At(V \ {x})
        <5> HIDE DEF At
        <5> QED BY <3>2
      <4> QED BY <4>6, <4>7, <4>8
    <3> QED BY <3>1, <3>2
  <2>3. ASSUME NEW V \in SUBSET T
        PROVE  h[V] = IF V = {} THEN 0 ELSE f[First(V)] + h[V \ {First(V)}]
    <3> HIDE DEF At
    <3>1. CASE V = {}
      BY <3>1
    <3>2. CASE V # {}
      <4>1. First(V) \in V
        BY <3>2, FirstIn
      <4>2. h[V \ {First(V)}] = At(V \ {First(V)})
        <5> HIDE DEF h
        <5> QED BY <2>2, <4>1
      <4>3. h[V] = f[First(V)] + At(V \ {First(V)})
        BY <3>2
      <4> QED BY <3>2, <4>2, <4>3
    <3> QED BY <3>1, <3>2
  <2>4. Sums(h, f, T)
    <3>1. h = [V \in SUBSET T |-> h[V]]
      OBVIOUS
    <3> HIDE DEF h
    <3> QED BY <2>3, <3>1 DEF Sums
  <2> QED BY <2>4
<1>2. SUBSET S \subseteq Good
  <2> HIDE DEF Good
  <2> QED BY <1>1, SubsetInduction
<1> QED BY <1>2

\* The sum of the library is the one of that function.
LEMMA SumIsSums ==
  ASSUME NEW f, NEW S, IsFiniteSet(S)
  PROVE  \E g : Sums(g, f, S) /\ SumFunctionOnSet(f, S) = g[S]
<1> DEFINE G == CHOOSE g : g = [s \in SUBSET S |->
                  IF s = {} THEN 0 ELSE f[First(s)] + g[s \ {First(s)}]]
<1>1. SumFunctionOnSet(f, S) = G[S]
  BY DEF SumFunctionOnSet, FoldFunctionOnSet, MapThenFoldSet, First
<1>2. Sums(G, f, S)
  <2>1. PICK g : g = [s \in SUBSET S |-> IF s = {} THEN 0 ELSE f[First(s)] + g[s \ {First(s)}]]
    <3> HIDE DEF G
    <3>1. PICK g : Sums(g, f, S)
      BY SumsExist
    <3> QED BY <3>1 DEF Sums
  <2>2. G = [s \in SUBSET S |-> IF s = {} THEN 0 ELSE f[First(s)] + G[s \ {First(s)}]]
    BY <2>1
  <2> HIDE DEF G
  <2> QED BY <2>2 DEF Sums
<1> QED BY <1>1, <1>2

\* The sum of nothing.
LEMMA SumOfNone == ASSUME NEW f PROVE SumFunctionOnSet(f, {}) = 0
<1>1. IsFiniteSet({})
  BY FS_EmptySet
<1>2. PICK g : Sums(g, f, {}) /\ SumFunctionOnSet(f, {}) = g[{}]
  BY <1>1, SumIsSums
<1> QED BY <1>2 DEF Sums

\* The equation of the fold.
LEMMA SumOfFirst ==
  ASSUME NEW f, NEW S, IsFiniteSet(S), S # {}
  PROVE  SumFunctionOnSet(f, S) = f[First(S)] + SumFunctionOnSet(f, S \ {First(S)})
<1> DEFINE T == S \ {First(S)}
<1>1. IsFiniteSet(T) /\ T \in SUBSET S
  BY FS_Subset
<1>2. PICK g : Sums(g, f, S) /\ SumFunctionOnSet(f, S) = g[S]
  BY SumIsSums
<1>3. PICK h : Sums(h, f, T) /\ SumFunctionOnSet(f, T) = h[T]
  BY <1>1, SumIsSums
<1>4. T \in (SUBSET S) \cap (SUBSET T)
  OBVIOUS
<1>5. g[T] = h[T]
  <2> HIDE DEF T
  <2> QED BY <1>1, <1>2, <1>3, <1>4, SumsAgree
<1>6. g[S] = f[First(S)] + g[T]
  BY <1>2 DEF Sums
<1> QED BY <1>2, <1>3, <1>5, <1>6

\* A summand may be taken out of a sum, whichever it is.
LEMMA SumStep ==
  ASSUME NEW f, NEW S, IsFiniteSet(S), \A y \in S : f[y] \in Int, NEW x \in S
  PROVE  /\ SumFunctionOnSet(f, S) \in Int
         /\ SumFunctionOnSet(f, S) = f[x] + SumFunctionOnSet(f, S \ {x})
<1> DEFINE Sum(T) == SumFunctionOnSet(f, T)
           Good == {T \in SUBSET S : Sum(T) \in Int
                      /\ \A y \in T : Sum(T) = f[y] + Sum(T \ {y})}
<1> HIDE DEF Sum
<1>1. ASSUME NEW T \in SUBSET S, \A U \in SUBSET T : U # T => U \in Good
      PROVE  T \in Good
  <2>1. CASE T = {}
    BY <2>1, SumOfNone DEF Sum
  <2>2. CASE T # {}
    <3> DEFINE a == First(T)
    <3>1. a \in T
      BY <2>2, FirstIn
    <3>2. Sum(T) = f[a] + Sum(T \ {a})
      <4>1. IsFiniteSet(T)
        BY FS_Subset
      <4> QED BY <2>2, <4>1, SumOfFirst DEF Sum
    <3> HIDE DEF a
    <3>3. T \ {a} \in Good
      BY <1>1, <3>1
    <3>4. Sum(T) \in Int
      BY <3>1, <3>2, <3>3
    <3>5. ASSUME NEW y \in T PROVE Sum(T) = f[y] + Sum(T \ {y})
      <4>1. CASE y = a
        BY <3>2, <4>1
      <4>2. CASE y # a
        <5>1. y \in T \ {a} /\ a \in T \ {y} /\ T \ {y} \in Good
          BY <1>1, <3>1, <4>2
        <5>2. (T \ {a}) \ {y} = (T \ {y}) \ {a}
          OBVIOUS
        <5>3. Sum(T \ {a}) = f[y] + Sum((T \ {a}) \ {y})
          BY <3>3, <5>1
        <5>4. Sum(T \ {y}) = f[a] + Sum((T \ {a}) \ {y})
          BY <5>1, <5>2
        <5>5. (T \ {a}) \ {y} \in Good
          BY <1>1, <3>1
        <5>6. Sum((T \ {a}) \ {y}) \in Int /\ f[a] \in Int /\ f[y] \in Int
          BY <3>1, <5>5
        <5> HIDE DEF Good
        <5> QED BY <3>2, <5>3, <5>4, <5>6
      <4> QED BY <4>1, <4>2
    <3> QED BY <3>4, <3>5
  <2> QED BY <2>1, <2>2
<1>2. SUBSET S \subseteq Good
  <2> HIDE DEF Good
  <2> QED BY <1>1, SubsetInduction
<1>3. S \in Good
  BY <1>2
<1> QED BY <1>3 DEF Sum

\* A sum of natural numbers is one.
LEMMA SumIsNat ==
  ASSUME NEW f, NEW S, IsFiniteSet(S), \A y \in S : f[y] \in Nat
  PROVE  SumFunctionOnSet(f, S) \in Nat
<1> DEFINE Good == {T \in SUBSET S : SumFunctionOnSet(f, T) \in Nat}
<1>1. ASSUME NEW T \in SUBSET S, \A U \in SUBSET T : U # T => U \in Good
      PROVE  T \in Good
  <2>1. CASE T = {}
    BY <2>1, SumOfNone
  <2>2. CASE T # {}
    <3>1. PICK x \in T : TRUE
      BY <2>2
    <3>2. IsFiniteSet(T) /\ \A y \in T : f[y] \in Int
      BY FS_Subset
    <3>3. SumFunctionOnSet(f, T) = f[x] + SumFunctionOnSet(f, T \ {x})
      BY <3>1, <3>2, SumStep
    <3>4. SumFunctionOnSet(f, T \ {x}) \in Nat
      BY <1>1, <3>1
    <3> QED BY <3>1, <3>3, <3>4
  <2> QED BY <2>1, <2>2
<1>2. SUBSET S \subseteq Good
  <2> HIDE DEF Good
  <2> QED BY <1>1, SubsetInduction
<1> QED BY <1>2

\* What is larger in every summand is larger as a sum.
LEMMA SumMonotone ==
  ASSUME NEW f, NEW g, NEW S, IsFiniteSet(S),
         \A y \in S : f[y] \in Int /\ g[y] \in Int /\ f[y] <= g[y]
  PROVE  SumFunctionOnSet(f, S) <= SumFunctionOnSet(g, S)
<1> DEFINE Good == {T \in SUBSET S :
                      /\ SumFunctionOnSet(f, T) \in Int /\ SumFunctionOnSet(g, T) \in Int
                      /\ SumFunctionOnSet(f, T) <= SumFunctionOnSet(g, T)}
<1>1. ASSUME NEW T \in SUBSET S, \A U \in SUBSET T : U # T => U \in Good
      PROVE  T \in Good
  <2>1. CASE T = {}
    BY <2>1, SumOfNone
  <2>2. CASE T # {}
    <3>1. PICK x \in T : TRUE
      BY <2>2
    <3>2. IsFiniteSet(T) /\ \A y \in T : f[y] \in Int /\ g[y] \in Int
      BY FS_Subset
    <3>3. /\ SumFunctionOnSet(f, T) = f[x] + SumFunctionOnSet(f, T \ {x})
          /\ SumFunctionOnSet(g, T) = g[x] + SumFunctionOnSet(g, T \ {x})
      BY <3>1, <3>2, SumStep
    <3>4. T \ {x} \in Good /\ f[x] <= g[x]
      BY <1>1, <3>1
    <3> QED BY <3>1, <3>2, <3>3, <3>4
  <2> QED BY <2>1, <2>2
<1>2. SUBSET S \subseteq Good
  <2> HIDE DEF Good
  <2> QED BY <1>1, SubsetInduction
<1> QED BY <1>2

\* A sum depends on its summands only.
LEMMA SumAgrees ==
  ASSUME NEW f, NEW g, NEW S, IsFiniteSet(S), \A y \in S : f[y] \in Int /\ f[y] = g[y]
  PROVE  SumFunctionOnSet(f, S) = SumFunctionOnSet(g, S)
<1> DEFINE Good == {T \in SUBSET S : SumFunctionOnSet(f, T) = SumFunctionOnSet(g, T)}
<1>1. ASSUME NEW T \in SUBSET S, \A U \in SUBSET T : U # T => U \in Good
      PROVE  T \in Good
  <2>1. CASE T = {}
    BY <2>1, SumOfNone
  <2>2. CASE T # {}
    <3>1. PICK x \in T : TRUE
      BY <2>2
    <3>2. IsFiniteSet(T) /\ \A y \in T : f[y] \in Int /\ g[y] \in Int
      BY FS_Subset
    <3>3. /\ SumFunctionOnSet(f, T) = f[x] + SumFunctionOnSet(f, T \ {x})
          /\ SumFunctionOnSet(g, T) = g[x] + SumFunctionOnSet(g, T \ {x})
      BY <3>1, <3>2, SumStep
    <3>4. T \ {x} \in Good
      BY <1>1, <3>1
    <3> QED BY <3>1, <3>3, <3>4
  <2> QED BY <2>1, <2>2
<1>2. SUBSET S \subseteq Good
  <2> HIDE DEF Good
  <2> QED BY <1>1, SubsetInduction
<1> QED BY <1>2

\* One summand changed.
LEMMA SumChanged ==
  ASSUME NEW f, NEW g, NEW S, IsFiniteSet(S), NEW x \in S,
         \A y \in S : f[y] \in Int /\ g[y] \in Int /\ (y # x => g[y] = f[y])
  PROVE  /\ SumFunctionOnSet(f, S) \in Int
         /\ SumFunctionOnSet(g, S) = SumFunctionOnSet(f, S) - f[x] + g[x]
<1>1. /\ SumFunctionOnSet(f, S) \in Int
      /\ SumFunctionOnSet(f, S) = f[x] + SumFunctionOnSet(f, S \ {x})
  BY SumStep
<1>2. SumFunctionOnSet(g, S) = g[x] + SumFunctionOnSet(g, S \ {x})
  BY SumStep
<1>3. IsFiniteSet(S \ {x}) /\ \A y \in S \ {x} : f[y] \in Int /\ f[y] = g[y]
  BY FS_Subset
<1>4. SumFunctionOnSet(f, S \ {x}) = SumFunctionOnSet(g, S \ {x})
  BY <1>3, SumAgrees
<1>5. SumFunctionOnSet(f, S \ {x}) \in Int
  <2>1. CASE S \ {x} = {}
    BY <2>1, SumOfNone
  <2>2. CASE S \ {x} # {}
    BY <1>3, <2>2, SumStep
  <2> QED BY <2>1, <2>2
<1> QED BY <1>1, <1>2, <1>4, <1>5

\* A sum of zeros.
LEMMA SumOfZeros ==
  ASSUME NEW f, NEW S, IsFiniteSet(S), \A y \in S : f[y] = 0
  PROVE  SumFunctionOnSet(f, S) = 0
<1> DEFINE Good == {T \in SUBSET S : SumFunctionOnSet(f, T) = 0}
<1>1. ASSUME NEW T \in SUBSET S, \A U \in SUBSET T : U # T => U \in Good
      PROVE  T \in Good
  <2>1. CASE T = {}
    BY <2>1, SumOfNone
  <2>2. CASE T # {}
    <3>1. PICK x \in T : TRUE
      BY <2>2
    <3>2. IsFiniteSet(T) /\ \A y \in T : f[y] \in Int
      BY FS_Subset
    <3>3. SumFunctionOnSet(f, T) = f[x] + SumFunctionOnSet(f, T \ {x})
      BY <3>1, <3>2, SumStep
    <3>4. T \ {x} \in Good
      BY <1>1, <3>1
    <3> QED BY <3>1, <3>3, <3>4
  <2> QED BY <2>1, <2>2
<1>2. SUBSET S \subseteq Good
  <2> HIDE DEF Good
  <2> QED BY <1>1, SubsetInduction
<1> QED BY <1>2

-----------------------------------------------------------------------------
(* What is held and what is ordered                                         *)

\* What the working buys among B may still cost, for the contracts of C
WorkingIn(B, C) == SumFunctionOnSet(Working, {b \in B : b.c \in C})

\* Less of a thing costs less.
LEMMA CostGrows ==
  ASSUME NEW n \in Nat, NEW q \in Nat, NEW p \in Nat, n <= q
  PROVE  n * p \in Nat /\ q * p \in Nat /\ n * p <= q * p /\ q * p = n * p + (q - n) * p
<1>1. PICK k \in Nat : q = n + k
  <2>1. q - n \in Nat /\ q = n + (q - n)
    OBVIOUS
  <2> QED BY <2>1
<1>2. q * p = n * p + k * p
  BY <1>1
<1>3. n * p \in Nat /\ k * p \in Nat
  OBVIOUS
<1>4. k = q - n
  BY <1>1
<1> QED BY <1>2, <1>3, <1>4

\* The limits and the prices are numbers.
LEMMA ConstantTypes ==
  /\ Cash \in Nat /\ MaxTotal \in Nat /\ MaxSymbol \in Nat /\ MaxOrders \in Nat
  /\ MaxPositions \in Nat \ {0} /\ MaxQty \in Nat \ {0} /\ PlanCapital \in Nat
  /\ \A c \in Contracts : Price[c] \in Nat /\ StopPrice[c] \in Nat
  /\ IsFiniteSet(Contracts)
  BY LimitsAssumption, PricesAssumption, ContractsAssumption

\* What a buy costs is a number.
LEMMA BuyCosts ==
  ASSUME NEW b \in BuyOrders
  PROVE  /\ b.c \in Contracts /\ b.left \in Nat /\ b.qty \in Nat /\ Price[b.c] \in Nat
         /\ Working[b] = b.left * Price[b.c] /\ Working[b] \in Nat
         /\ Whole[b] = b.qty * Price[b.c] /\ Whole[b] \in Nat
<1>1. b.c \in Contracts /\ b.left \in Nat /\ b.qty \in Nat
  BY ConstantTypes DEF BuyOrders
<1>2. Price[b.c] \in Nat
  BY <1>1, ConstantTypes
<1>3. Working[b] = b.left * Price[b.c] /\ Whole[b] = b.qty * Price[b.c]
  BY DEF Working, Whole
<1> QED BY <1>1, <1>2, <1>3

\* What the working buys may cost is a number, and no more than their whole cost.
LEMMA WorkingIsNat ==
  ASSUME NEW B \in SUBSET BuyOrders, IsFiniteSet(B), NEW C
  PROVE  WorkingIn(B, C) \in Nat
<1> DEFINE S == {b \in B : b.c \in C}
<1>1. IsFiniteSet(S) /\ \A b \in S : Working[b] \in Nat
  BY FS_Subset, BuyCosts
<1> QED BY <1>1, SumIsNat DEF WorkingIn

\* A buy less.
LEMMA WorkingWithout ==
  ASSUME NEW B \in SUBSET BuyOrders, IsFiniteSet(B), NEW C, NEW o \in B
  PROVE  WorkingIn(B, C) = WorkingIn(B \ {o}, C) +
           IF o.c \in C THEN o.left * Price[o.c] ELSE 0
<1> DEFINE S == {b \in B : b.c \in C}
           T == {b \in B \ {o} : b.c \in C}
<1>1. IsFiniteSet(S) /\ \A b \in S : Working[b] \in Int
  BY FS_Subset, BuyCosts
<1>2. CASE o.c \in C
  <2>1. o \in S /\ T = S \ {o}
    BY <1>2
  <2>2. SumFunctionOnSet(Working, S) = Working[o] + SumFunctionOnSet(Working, S \ {o})
    <3> HIDE DEF S
    <3> QED BY <1>1, <2>1, SumStep
  <2>3. WorkingIn(B, C) = Working[o] + WorkingIn(B \ {o}, C)
    BY <2>1, <2>2 DEF WorkingIn
  <2>4. IsFiniteSet(B \ {o}) /\ B \ {o} \in SUBSET BuyOrders
    BY FS_Subset
  <2>5. WorkingIn(B \ {o}, C) \in Nat
    BY <2>4, WorkingIsNat
  <2>6. o \in BuyOrders
    OBVIOUS
  <2>7. Working[o] = o.left * Price[o.c] /\ Working[o] \in Nat
    BY <2>6, BuyCosts
  <2> QED BY <1>2, <2>3, <2>5, <2>7
<1>3. CASE o.c \notin C
  <2>1. S = T
    BY <1>3
  <2>2. WorkingIn(B, C) = WorkingIn(B \ {o}, C)
    BY <2>1 DEF WorkingIn
  <2>3. WorkingIn(B, C) \in Nat
    BY WorkingIsNat
  <2> QED BY <1>3, <2>2, <2>3
<1> QED BY <1>2, <1>3

\* One working buy more, or none when it is filled entirely.
With(B, id, c, qty, left) ==
  B \cup {b \in BuyOrders : b = [id |-> id, c |-> c, qty |-> qty, left |-> left]}

\* They are still buys.
LEMMA BuysWith ==
  ASSUME NEW B \in SUBSET BuyOrders, IsFiniteSet(B),
         NEW id \in 1..MaxOrders, NEW c \in Contracts,
         NEW qty \in 0..MaxQty, NEW left \in 0..qty
  PROVE  /\ With(B, id, c, qty, left) \in SUBSET BuyOrders
         /\ IsFiniteSet(With(B, id, c, qty, left))
         /\ left = 0 => With(B, id, c, qty, left) = B
         /\ left # 0 => [id |-> id, c |-> c, qty |-> qty, left |-> left] \in BuyOrders
<1> DEFINE o == [id |-> id, c |-> c, qty |-> qty, left |-> left]
           N == With(B, id, c, qty, left)
<1>1. CASE left = 0
  <2>1. o \notin BuyOrders
    BY <1>1 DEF BuyOrders
  <2>2. N = B
    BY <2>1 DEF With
  <2> HIDE DEF N
  <2>3. N \in SUBSET BuyOrders /\ IsFiniteSet(N)
    BY <2>2
  <2> QED BY <1>1, <2>2, <2>3 DEF N
<1>2. CASE left # 0
  <2>1. o \in BuyOrders
    BY <1>2, ConstantTypes DEF BuyOrders
  <2>2. N = B \cup {o}
    BY <2>1 DEF With
  <2>3. N \in SUBSET BuyOrders /\ IsFiniteSet(N)
    <3> HIDE DEF o, N
    <3> QED BY <2>1, <2>2, FS_AddElement
  <2> QED BY <1>2, <2>1, <2>3
<1> QED BY <1>1, <1>2

\* What it may still cost comes on top.
LEMMA WorkingWith ==
  ASSUME NEW B \in SUBSET BuyOrders, IsFiniteSet(B), NEW C,
         NEW id \in 1..MaxOrders, \A b \in B : b.id # id,
         NEW c \in Contracts, NEW qty \in 0..MaxQty, NEW left \in 0..qty
  PROVE  WorkingIn(With(B, id, c, qty, left), C) =
           WorkingIn(B, C) + IF c \in C THEN left * Price[c] ELSE 0
<1> DEFINE o == [id |-> id, c |-> c, qty |-> qty, left |-> left]
           N == With(B, id, c, qty, left)
<1>1. left \in Nat /\ Price[c] \in Nat /\ WorkingIn(B, C) \in Nat
  BY ConstantTypes, WorkingIsNat
<1>2. CASE left = 0
  <2>1. N = B
    BY <1>2, BuysWith
  <2>2. left * Price[c] = 0
    BY <1>1, <1>2
  <2>3. WorkingIn(B, C) = WorkingIn(B, C) + IF c \in C THEN left * Price[c] ELSE 0
    BY <1>1, <2>2
  <2> QED BY <2>1, <2>3
<1>3. CASE left # 0
  <2>1. N \in SUBSET BuyOrders /\ IsFiniteSet(N) /\ o \in BuyOrders
    BY <1>3, BuysWith
  <2>2. o \in N /\ N \ {o} = B /\ o.c = c /\ o.left = left
    BY <2>1 DEF With
  <2>3. WorkingIn(N, C) = WorkingIn(B, C) + IF o.c \in C THEN o.left * Price[o.c] ELSE 0
    <3>1. N \in SUBSET BuyOrders /\ IsFiniteSet(N) /\ o \in N
      BY <2>1, <2>2
    <3>2. N \ {o} = B
      BY <2>2
    <3> HIDE DEF o, N
    <3>3. WorkingIn(N, C) = WorkingIn(N \ {o}, C) + IF o.c \in C THEN o.left * Price[o.c] ELSE 0
      BY <3>1, WorkingWithout
    <3> QED BY <3>2, <3>3
  <2>4. o.left * Price[o.c] = left * Price[c] /\ (o.c \in C <=> c \in C)
    BY <2>2
  <2> HIDE DEF o
  <2> QED BY <2>3, <2>4
<1> QED BY <1>2, <1>3

\* The positions are worth a number.
LEMMA PositionsAreNat ==
  ASSUME NEW p \in Held, NEW C \in SUBSET Contracts
  PROVE  /\ PositionsNotional(p, C) \in Nat /\ IsFiniteSet(C)
         /\ \A c \in C : Value(p, Price)[c] = p[c] * Price[c] /\ p[c] * Price[c] \in Nat
<1>1. IsFiniteSet(C)
  BY ConstantTypes, FS_Subset
<1>2. \A c \in C : Value(p, Price)[c] = p[c] * Price[c] /\ p[c] \in Nat /\ Price[c] \in Nat
  BY ConstantTypes DEF Value, Held
<1>3. \A c \in C : p[c] * Price[c] \in Nat
  BY <1>2
<1>4. \A c \in C : Value(p, Price)[c] \in Nat
  BY <1>2, <1>3
<1>5. PositionsNotional(p, C) \in Nat
  BY <1>1, <1>4, SumIsNat DEF PositionsNotional
<1> QED BY <1>1, <1>2, <1>3, <1>5

\* The quantity of one contract changes.
LEMMA PositionChanged ==
  ASSUME NEW p \in Held, NEW q \in Held, NEW C \in SUBSET Contracts, NEW c \in Contracts,
         \A d \in Contracts : d # c => q[d] = p[d]
  PROVE  PositionsNotional(q, C) =
           PositionsNotional(p, C) + IF c \in C THEN q[c] * Price[c] - p[c] * Price[c] ELSE 0
<1> DEFINE f == Value(p, Price)
           g == Value(q, Price)
<1>1. /\ IsFiniteSet(C) /\ PositionsNotional(p, C) \in Nat
      /\ \A d \in C : f[d] = p[d] * Price[d] /\ p[d] * Price[d] \in Nat
      /\ \A d \in C : g[d] = q[d] * Price[d] /\ q[d] * Price[d] \in Nat
  BY PositionsAreNat
<1>2. PositionsNotional(p, C) = SumFunctionOnSet(f, C) /\ PositionsNotional(q, C) = SumFunctionOnSet(g, C)
  BY DEF PositionsNotional
<1> HIDE DEF f, g
<1>3. \A d \in C : f[d] \in Int /\ g[d] \in Int /\ (d # c => g[d] = f[d])
  BY <1>1
<1>4. CASE c \in C
  <2>1. SumFunctionOnSet(g, C) = SumFunctionOnSet(f, C) - f[c] + g[c]
    BY <1>1, <1>3, <1>4, SumChanged
  <2>2. /\ f[c] = p[c] * Price[c] /\ p[c] * Price[c] \in Nat
        /\ g[c] = q[c] * Price[c] /\ q[c] * Price[c] \in Nat
    BY <1>1, <1>4
  <2> QED BY <1>1, <1>2, <1>4, <2>1, <2>2
<1>5. CASE c \notin C
  <2>1. \A d \in C : f[d] \in Int /\ f[d] = g[d]
    BY <1>3, <1>5
  <2>2. SumFunctionOnSet(f, C) = SumFunctionOnSet(g, C)
    BY <1>1, <2>1, SumAgrees
  <2> QED BY <1>1, <1>2, <1>5, <2>2
<1> QED BY <1>4, <1>5

\* More contracts are worth more.
LEMMA PositionsGrow ==
  ASSUME NEW p \in Held, NEW q \in Held, NEW C \in SUBSET Contracts,
         \A c \in Contracts : p[c] <= q[c]
  PROVE  PositionsNotional(p, C) <= PositionsNotional(q, C)
<1> DEFINE f == Value(p, Price)
           g == Value(q, Price)
<1>1. /\ IsFiniteSet(C)
      /\ \A d \in C : f[d] = p[d] * Price[d] /\ g[d] = q[d] * Price[d]
  BY PositionsAreNat
<1> HIDE DEF f, g
<1>2. ASSUME NEW d \in C PROVE f[d] \in Int /\ g[d] \in Int /\ f[d] <= g[d]
  <2>1. p[d] \in Nat /\ q[d] \in Nat /\ Price[d] \in Nat /\ p[d] <= q[d]
    BY ConstantTypes DEF Held
  <2>2. p[d] * Price[d] \in Nat /\ q[d] * Price[d] \in Nat /\ p[d] * Price[d] <= q[d] * Price[d]
    BY <2>1, CostGrows
  <2> QED BY <1>1, <2>2
<1>3. SumFunctionOnSet(f, C) <= SumFunctionOnSet(g, C)
  BY <1>1, <1>2, SumMonotone
<1> QED BY <1>3 DEF PositionsNotional, f, g

-----------------------------------------------------------------------------
(* The books                                                                *)

\* The working buys have an id each, and work for no more than was ordered.
Ordered ==
  /\ IsFiniteSet(buys)
  /\ \A b \in buys : b.id <= sent /\ b.left <= b.qty
  /\ \A b, d \in buys : b.id = d.id => b = d

\* Behind every open trade there are the positions it tracks, until its stop has
\* filled; a stop protects the whole trade; and handle_signal buys for no open trade.
Backed ==
  /\ \A c \in Contracts :
       /\ stop[c] \in {0, trade[c]}
       /\ c \in hit => stop[c] = 0 /\ trade[c] > 0
       /\ c \notin hit => trade[c] <= pos[c]
  /\ pc # "idle" => trade[target] = 0

Books == TypeOK /\ Ordered /\ Backed

\* What the order is sized to is a quantity.
LEMMA SizedIsNat ==
  ASSUME NEW byRisk \in Nat, NEW c \in Contracts, NEW money \in Nat
  PROVE  Sized(byRisk, c, money) \in Nat
<1>1. ASSUME NEW a \in Nat, NEW b \in Nat PROVE Min({a, b}) \in Nat
  <2>1. PICK m \in {a, b} : \A y \in {a, b} : m <= y
    <3>1. CASE a <= b
      BY <3>1
    <3>2. CASE b <= a
      BY <3>2
    <3> QED BY <3>1, <3>2
  <2> QED BY <2>1 DEF Min
<1>2. ASSUME NEW a \in Nat, NEW b \in Nat, NEW d \in Nat PROVE Min({a, b, d}) \in Nat
  <2>1. PICK m \in {a, b, d} : \A y \in {a, b, d} : m <= y
    <3>1. CASE a <= b /\ a <= d
      BY <3>1
    <3>2. CASE b <= a /\ b <= d
      BY <3>2
    <3>3. CASE d <= a /\ d <= b
      BY <3>3
    <3> QED BY <3>1, <3>2, <3>3
  <2> QED BY <2>1 DEF Min
<1>3. Min({money, PlanCapital}) \in Nat
  BY <1>1, ConstantTypes
<1>4. Price[c] \in Nat \ {0}
  BY PricesAssumption
<1>5. Min({money, PlanCapital}) \div Price[c] \in Nat
  BY <1>3, <1>4
<1> QED BY <1>2, <1>5, ConstantTypes DEF Sized

\* The start.
LEMMA BooksInit == Init => Books
<1> SUFFICES ASSUME Init PROVE Books
  OBVIOUS
<1>1. TypeOK
  <2>1. None \in Held
    BY DEF None, Held
  <2>2. seen \in [pos : Held, cash : Nat, qty : 0..MaxQty]
    BY <2>1, ConstantTypes DEF Init
  <2>3. pos \in Held /\ stop \in Held /\ trade \in Held /\ cash \in Nat /\ sent \in 0..MaxOrders
    BY <2>1, ConstantTypes DEF Init
  <2>4. buys \subseteq BuyOrders /\ hit \subseteq Contracts /\ target \in Contracts
    BY DEF Init
  <2>5. /\ pc \in {"idle", "account", "orders", "submit"}
        /\ raced \in BOOLEAN /\ rested \in BOOLEAN
    BY DEF Init
  <2> QED BY <2>2, <2>3, <2>4, <2>5 DEF TypeOK
<1>2. Ordered
  BY FS_EmptySet DEF Init, Ordered
<1>3. Backed
  BY DEF Init, Backed, None
<1> QED BY <1>1, <1>2, <1>3 DEF Books

\* The steps of handle_signal that only read, and its refusals.
LEMMA ReadsKeepBooks ==
  ASSUME Books,
         \/ \E c \in Contracts : ReadPositions(c)
         \/ ReadAccount
         \/ \E byRisk \in 0..MaxQty + 1 : ReadOrders(byRisk)
         \/ Refuse
  PROVE  Books'
<1>1. CASE \E c \in Contracts : ReadPositions(c)
  <2>1. TypeOK'
    BY <1>1 DEF Books, TypeOK, ReadPositions, broker, past
  <2>2. Ordered'
    BY <1>1 DEF Books, Ordered, ReadPositions, broker
  <2>3. Backed'
    BY <1>1 DEF Books, Backed, ReadPositions, broker
  <2> QED BY <2>1, <2>2, <2>3 DEF Books
<1>2. CASE ReadAccount
  <2>1. TypeOK'
    BY <1>2 DEF Books, TypeOK, ReadAccount, broker, past
  <2>2. Ordered'
    BY <1>2 DEF Books, Ordered, ReadAccount, broker
  <2>3. Backed'
    BY <1>2 DEF Books, Backed, ReadAccount, broker
  <2> QED BY <2>1, <2>2, <2>3 DEF Books
<1>3. ASSUME NEW byRisk \in 0..MaxQty + 1, ReadOrders(byRisk) PROVE Books'
  <2> DEFINE qty == Sized(byRisk, target, seen.cash)
  <2>1. qty \in Nat
    <3>1. byRisk \in Nat /\ target \in Contracts /\ seen.cash \in Nat
      BY ConstantTypes DEF Books, TypeOK
    <3> QED BY <3>1, SizedIsNat
  <2>2. qty <= MaxQty /\ seen' = [seen EXCEPT !.qty = qty]
    BY <1>3 DEF ReadOrders, Authorized
  <2> HIDE DEF qty
  <2>3. seen' \in [pos : Held, cash : Nat, qty : 0..MaxQty]
    BY <2>1, <2>2, ConstantTypes DEF Books, TypeOK
  <2>4. TypeOK'
    BY <1>3, <2>3 DEF Books, TypeOK, ReadOrders, broker, past
  <2>5. Ordered'
    BY <1>3 DEF Books, Ordered, ReadOrders, broker
  <2>6. Backed'
    BY <1>3 DEF Books, Backed, ReadOrders, broker
  <2> QED BY <2>4, <2>5, <2>6 DEF Books
<1>4. CASE Refuse
  <2>1. TypeOK'
    BY <1>4 DEF Books, TypeOK, Refuse, broker, past
  <2>2. Ordered'
    BY <1>4 DEF Books, Ordered, Refuse, broker
  <2>3. Backed'
    BY <1>4 DEF Books, Backed, Refuse, broker
  <2> QED BY <2>1, <2>2, <2>3 DEF Books
<1> QED BY <1>1, <1>2, <1>3, <1>4

\* The quantity that is sent, and what fills of it at once, can be paid.
LEMMA SubmitPays ==
  ASSUME Books, NEW n, NEW protected, Submit(n, protected)
  PROVE  /\ seen.qty \in 0..MaxQty /\ n \in 0..seen.qty /\ seen.qty - n \in 0..seen.qty
         /\ target \in Contracts /\ sent + 1 \in 1..MaxOrders
         /\ \A b \in buys : b.id # sent + 1
         /\ n * Price[target] \in Nat /\ seen.qty * Price[target] \in Nat
         /\ seen.qty * Price[target] =
              n * Price[target] + (seen.qty - n) * Price[target]
         /\ (seen.qty - n) * Price[target] \in Nat
         /\ n * Price[target] <= cash
<1>1. /\ seen.qty \in 0..MaxQty /\ n \in 0..seen.qty /\ target \in Contracts
      /\ sent \in 0..MaxOrders /\ sent < MaxOrders /\ cash \in Nat
      /\ buys \in SUBSET BuyOrders /\ IsFiniteSet(buys)
      /\ seen.qty * Price[target] + SumFunctionOnSet(Working, buys) <= cash
  BY DEF Books, TypeOK, Ordered, Submit
<1>2. /\ seen.qty \in Nat /\ n \in Nat /\ n <= seen.qty /\ Price[target] \in Nat
      /\ seen.qty - n \in 0..seen.qty /\ sent + 1 \in 1..MaxOrders /\ seen.qty - n \in Nat
  BY <1>1, ConstantTypes
<1>3. \A b \in buys : b.id # sent + 1
  <2> SUFFICES ASSUME NEW b \in buys PROVE b.id # sent + 1
    OBVIOUS
  <2>1. b.id <= sent /\ b.id \in Nat
    BY <1>1, ConstantTypes DEF Books, Ordered, BuyOrders
  <2> QED BY <1>1, <2>1, ConstantTypes
<1>4. /\ n * Price[target] \in Nat /\ seen.qty * Price[target] \in Nat
      /\ n * Price[target] <= seen.qty * Price[target]
      /\ seen.qty * Price[target] = n * Price[target] + (seen.qty - n) * Price[target]
  BY <1>2, CostGrows
<1>5. (seen.qty - n) * Price[target] \in Nat
  BY <1>2
<1>6. SumFunctionOnSet(Working, buys) \in Nat
  BY <1>1, BuyCosts, SumIsNat
<1>7. n * Price[target] <= cash
  <2> DEFINE a == n * Price[target]
             w == seen.qty * Price[target]
             s == SumFunctionOnSet(Working, buys)
  <2>1. a \in Nat /\ w \in Nat /\ s \in Nat /\ a <= w /\ w + s <= cash /\ cash \in Nat
    BY <1>1, <1>4, <1>6
  <2> HIDE DEF a, w, s
  <2>2. a <= cash
    BY <2>1
  <2> QED BY <2>2 DEF a
<1> QED BY <1>1, <1>2, <1>3, <1>4, <1>5, <1>7

\* The order that is sent.
LEMMA SubmitKeepsBooks ==
  ASSUME Books, NEW n, NEW protected, Submit(n, protected)
  PROVE  Books'
<1> DEFINE c == target
           q == seen.qty
<1>1. /\ q \in 0..MaxQty /\ n \in 0..q /\ q - n \in 0..q /\ c \in Contracts
      /\ sent + 1 \in 1..MaxOrders /\ \A b \in buys : b.id # sent + 1
      /\ n * Price[c] \in Nat /\ n * Price[c] <= cash
  BY SubmitPays
<1>2. /\ sent' = sent + 1 /\ cash' = cash - n * Price[c]
      /\ pos' = [pos EXCEPT ![c] = @ + n] /\ trade' = [trade EXCEPT ![c] = n]
      /\ stop' = [stop EXCEPT ![c] = IF protected > 0 THEN @ + n ELSE @]
      /\ protected \in {0, n} /\ pc' = "idle" /\ rested' \in BOOLEAN
      /\ buys' = With(buys, sent + 1, c, q, q - n)
      /\ UNCHANGED <<hit, target, seen, raced>>
  BY DEF Submit, Books, TypeOK, With
<1>3. buys' \in SUBSET BuyOrders /\ IsFiniteSet(buys')
  <2>1. buys \in SUBSET BuyOrders /\ IsFiniteSet(buys)
    BY DEF Books, TypeOK, Ordered
  <2> HIDE DEF c, q
  <2> QED BY <1>1, <1>2, <2>1, BuysWith
<1>4. n \in Nat /\ q \in Nat /\ cash \in Nat /\ trade[c] = 0 /\ c \notin hit /\ stop[c] = 0
  BY <1>1, ConstantTypes DEF Books, TypeOK, Backed, Submit, Held
<1> HIDE DEF c, q
<1>5. pos' \in Held /\ trade' \in Held /\ stop' \in Held /\ cash' \in Nat
  BY <1>1, <1>2, <1>4 DEF Books, TypeOK, Held
<1>6. TypeOK'
  BY <1>1, <1>2, <1>3, <1>5 DEF Books, TypeOK
<1>7. Ordered'
  <2>1. ASSUME NEW b \in buys', b \notin buys
        PROVE  b.id = sent + 1 /\ b.left <= b.qty
               /\ b = [id |-> sent + 1, c |-> c, qty |-> q, left |-> q - n]
    BY <1>1, <1>2, <1>4, <2>1 DEF With
  <2>2. \A b \in buys' : b.id <= sent' /\ b.left <= b.qty
    <3> SUFFICES ASSUME NEW b \in buys' PROVE b.id <= sent' /\ b.left <= b.qty
      OBVIOUS
    <3>1. CASE b \in buys
      <4>1. b.id <= sent /\ b.left <= b.qty /\ b.id \in Nat /\ sent \in Nat
        BY <3>1, ConstantTypes DEF Books, Ordered, TypeOK, BuyOrders
      <4> QED BY <1>2, <4>1
    <3>2. CASE b \notin buys
      BY <1>1, <1>2, <2>1, <3>2, ConstantTypes
    <3> QED BY <3>1, <3>2
  <2>3. \A b, d \in buys' : b.id = d.id => b = d
    BY <1>1, <2>1 DEF Books, Ordered
  <2> QED BY <1>3, <2>2, <2>3 DEF Ordered
<1>8. Backed'
  <2> SUFFICES ASSUME NEW d \in Contracts
               PROVE  /\ stop'[d] \in {0, trade'[d]}
                      /\ d \in hit' => stop'[d] = 0 /\ trade'[d] > 0
                      /\ d \notin hit' => trade'[d] <= pos'[d]
    BY <1>2 DEF Backed
  <2>1. CASE d = c
    BY <1>1, <1>2, <1>4, <2>1 DEF Books, TypeOK, Held
  <2>2. CASE d # c
    BY <1>1, <1>2, <2>2 DEF Books, TypeOK, Held, Backed
  <2> QED BY <2>1, <2>2
<1> QED BY <1>6, <1>7, <1>8 DEF Books

\* What is held of a contract covers its protective stop.
LEMMA StopCovered ==
  ASSUME Books, NEW c \in Contracts
  PROVE  /\ stop[c] \in Nat /\ trade[c] \in Nat /\ pos[c] \in Nat /\ stop[c] <= pos[c]
         /\ c \notin hit => trade[c] <= pos[c]
  BY DEF Books, TypeOK, Held, Backed

\* The trades that are sold or dropped.
LEMMA BookKeepsBooks ==
  ASSUME Books, NEW c \in Contracts, Exit(c) \/ Ingest(c)
  PROVE  Books'
<1>1. CASE Exit(c)
  <2>1. /\ pos[c] - trade[c] \in Nat /\ trade[c] \in Nat /\ Price[c] \in Nat /\ cash \in Nat
    BY <1>1, StopCovered, ConstantTypes DEF Exit, Books, TypeOK
  <2>2. cash' \in Nat
    BY <1>1, <2>1 DEF Exit
  <2>3. pos' \in Held /\ stop' \in Held /\ trade' \in Held
    BY <1>1, <2>1 DEF Exit, Books, TypeOK, Held
  <2>4. TypeOK'
    BY <1>1, <2>2, <2>3 DEF Exit, Books, TypeOK, call, past
  <2>5. Ordered'
    BY <1>1 DEF Exit, Books, Ordered
  <2>6. Backed'
    BY <1>1, <2>1, <2>3 DEF Exit, Books, TypeOK, Held, Backed, call
  <2> QED BY <2>4, <2>5, <2>6 DEF Books
<1>2. CASE Ingest(c)
  <2>1. trade' \in Held
    BY <1>2 DEF Ingest, Books, TypeOK, Held
  <2>2. TypeOK'
    BY <1>2, <2>1 DEF Ingest, Books, TypeOK, call, past
  <2>3. Ordered'
    BY <1>2 DEF Ingest, Books, Ordered
  <2>4. Backed'
    BY <1>2 DEF Ingest, Books, TypeOK, Held, Backed, call
  <2> QED BY <2>2, <2>3, <2>4 DEF Books
<1> QED BY <1>1, <1>2

\* The rest of a buy after a fill of n is another working buy, or none.
LEMMA FillBuyRest ==
  ASSUME Books, NEW b \in buys, NEW n \in 1..b.left, FillBuy(b, n)
  PROVE  /\ b \in BuyOrders /\ n \in Nat /\ b.left - n \in 0..b.qty
         /\ buys \ {b} \in SUBSET BuyOrders /\ IsFiniteSet(buys \ {b})
         /\ b.id \in 1..MaxOrders /\ b.c \in Contracts /\ b.qty \in 0..MaxQty
         /\ \A d \in buys \ {b} : d.id # b.id
         /\ buys' = With(buys \ {b}, b.id, b.c, b.qty, b.left - n)
         /\ n * Price[b.c] \in Nat /\ (b.left - n) * Price[b.c] \in Nat
         /\ b.left * Price[b.c] = n * Price[b.c] + (b.left - n) * Price[b.c]
<1>1. b \in BuyOrders /\ buys \ {b} \in SUBSET BuyOrders /\ IsFiniteSet(buys \ {b})
  BY FS_Subset DEF Books, TypeOK, Ordered
<1>2. b.id \in 1..MaxOrders /\ b.c \in Contracts /\ b.qty \in 1..MaxQty /\ b.left \in 1..MaxQty
  BY <1>1 DEF BuyOrders
<1>3. b.left <= b.qty /\ \A d \in buys \ {b} : d.id # b.id
  BY DEF Books, Ordered
<1>4. /\ n \in Nat /\ n <= b.left /\ b.left \in Nat /\ b.qty \in Nat /\ b.left - n \in 0..b.qty
      /\ b.left - n \in Nat /\ b.qty \in 0..MaxQty /\ Price[b.c] \in Nat
  BY <1>2, <1>3, ConstantTypes
<1>5. [b EXCEPT !.left = @ - n] = [id |-> b.id, c |-> b.c, qty |-> b.qty, left |-> b.left - n]
  BY <1>1 DEF BuyOrders
<1>6. buys' = With(buys \ {b}, b.id, b.c, b.qty, b.left - n)
  BY <1>5 DEF FillBuy, With
<1>7. /\ n * Price[b.c] \in Nat
      /\ b.left * Price[b.c] = n * Price[b.c] + (b.left - n) * Price[b.c]
  BY <1>4, CostGrows
<1>8. (b.left - n) * Price[b.c] \in Nat
  BY <1>4
<1> QED BY <1>1, <1>2, <1>3, <1>4, <1>6, <1>7, <1>8

\* The fills of the buys.
LEMMA FillBuyKeepsBooks ==
  ASSUME Books, NEW b \in buys, NEW n \in 1..b.left, FillBuy(b, n)
  PROVE  Books'
<1> DEFINE o == [id |-> b.id, c |-> b.c, qty |-> b.qty, left |-> b.left - n]
<1>1. /\ b \in BuyOrders /\ n \in Nat /\ b.left - n \in 0..b.qty
      /\ buys \ {b} \in SUBSET BuyOrders /\ IsFiniteSet(buys \ {b})
      /\ b.id \in 1..MaxOrders /\ b.c \in Contracts /\ b.qty \in 0..MaxQty
      /\ \A d \in buys \ {b} : d.id # b.id
      /\ buys' = With(buys \ {b}, b.id, b.c, b.qty, b.left - n)
      /\ n * Price[b.c] \in Nat
  BY FillBuyRest
<1>2. /\ pos' = [pos EXCEPT ![b.c] = @ + n] /\ cash' = cash - n * Price[b.c]
      /\ n * Price[b.c] <= cash /\ raced' \in BOOLEAN
      /\ UNCHANGED <<stop, hit, trade, sent, pc, target, seen, rested>>
  BY DEF FillBuy, Books, TypeOK, call
<1>3. buys' \in SUBSET BuyOrders /\ IsFiniteSet(buys')
  BY <1>1, BuysWith
<1>4. pos' \in Held /\ cash' \in Nat
  BY <1>1, <1>2 DEF Books, TypeOK, Held
<1>5. TypeOK'
  BY <1>2, <1>3, <1>4 DEF Books, TypeOK
<1>6. o.id = b.id /\ o.left <= o.qty /\ \A d \in buys' : d \in buys \ {b} \/ d = o
  BY <1>1, ConstantTypes DEF With
<1> HIDE DEF o
<1>7. Ordered'
  <2>1. \A d \in buys' : d.id <= sent' /\ d.left <= d.qty
    BY <1>2, <1>6 DEF Books, Ordered
  <2>2. \A d, e \in buys' : d.id = e.id => d = e
    BY <1>1, <1>6 DEF Books, Ordered
  <2> QED BY <1>3, <2>1, <2>2 DEF Ordered
<1>8. Backed'
  <2> SUFFICES ASSUME NEW d \in Contracts
               PROVE  /\ stop'[d] \in {0, trade'[d]}
                      /\ d \in hit' => stop'[d] = 0 /\ trade'[d] > 0
                      /\ d \notin hit' => trade'[d] <= pos'[d]
    BY <1>2 DEF Backed, Books
  <2>1. pos'[d] >= pos[d] /\ pos[d] \in Nat /\ trade[d] \in Nat /\ pos'[d] \in Nat
    BY <1>1, <1>2, <1>4 DEF Books, TypeOK, Held
  <2> QED BY <1>2, <2>1 DEF Books, Backed
<1> QED BY <1>5, <1>7, <1>8 DEF Books

\* The fills of the stops.
LEMMA FillStopKeepsBooks ==
  ASSUME Books, NEW c \in Contracts, FillStop(c)
  PROVE  Books'
<1>1. /\ stop[c] \in Nat /\ pos[c] - stop[c] \in Nat /\ StopPrice[c] \in Nat /\ cash \in Nat
  BY StopCovered, ConstantTypes DEF Books, TypeOK
<1>2. cash' \in Nat
  BY <1>1 DEF FillStop
<1>3. pos' \in Held /\ stop' \in Held
  BY <1>1 DEF FillStop, Books, TypeOK, Held
<1>4. TypeOK'
  BY <1>2, <1>3 DEF FillStop, Books, TypeOK, call, past
<1>5. Ordered'
  BY DEF FillStop, Books, Ordered
<1>6. Backed'
  <2> SUFFICES ASSUME NEW d \in Contracts
               PROVE  /\ stop'[d] \in {0, trade'[d]}
                      /\ d \in hit' => stop'[d] = 0 /\ trade'[d] > 0
                      /\ d \notin hit' => trade'[d] <= pos'[d]
    BY DEF Backed, Books, FillStop, call
  <2>1. CASE d = c
    BY <1>3, <2>1 DEF FillStop, Books, TypeOK, Held, Backed
  <2>2. CASE d # c
    BY <1>3, <2>2 DEF FillStop, Books, TypeOK, Held, Backed
  <2> QED BY <2>1, <2>2
<1> QED BY <1>4, <1>5, <1>6 DEF Books

\* Every step.
LEMMA BooksStep == Books /\ [Next]_vars => Books'
<1> SUFFICES ASSUME Books, [Next]_vars PROVE Books'
  OBVIOUS
<1>1. ASSUME Signal PROVE Books'
  BY <1>1, ReadsKeepBooks, SubmitKeepsBooks DEF Signal
<1>2. ASSUME Book PROVE Books'
  BY <1>2, BookKeepsBooks DEF Book
<1>3. ASSUME NEW b \in buys, NEW n, FillBuy(b, n) PROVE Books'
  <2>1. n \in 1..b.left
    BY <1>3 DEF FillBuy
  <2> QED BY <1>3, <2>1, FillBuyKeepsBooks
<1>4. ASSUME NEW c \in Contracts, FillStop(c) PROVE Books'
  BY <1>4, FillStopKeepsBooks
<1>5. ASSUME UNCHANGED vars PROVE Books'
  BY <1>5 DEF vars, broker, call, past, Books, TypeOK, Ordered, Backed
<1> QED BY <1>1, <1>2, <1>3, <1>4, <1>5 DEF Next, Fills

\* The books never go wrong.
LEMMA AlwaysBooks == Spec => []Books
  BY BooksInit, BooksStep, PTL DEF Spec

\* Positions, cash, orders and trades keep their types: nothing is sold that is not
\* held, and nothing is paid that is not there.
THEOREM ExposureTyped == Spec => []TypeOK
<1>1. Books => TypeOK
  BY DEF Books
<1> QED BY <1>1, AlwaysBooks, PTL

-----------------------------------------------------------------------------
(* The limits                                                               *)

\* What is committed, and its parts, are numbers.
LEMMA CommittedIsNat ==
  ASSUME Books, NEW C \in SUBSET Contracts
  PROVE  /\ PositionsNotional(pos, C) \in Nat /\ PositionsNotional(seen.pos, C) \in Nat
         /\ WorkingIn(buys, C) \in Nat
         /\ Committed(C) = PositionsNotional(pos, C) + WorkingIn(buys, C)
<1>1. pos \in Held /\ seen.pos \in Held /\ buys \in SUBSET BuyOrders /\ IsFiniteSet(buys)
  BY DEF Books, TypeOK, Ordered
<1>2. PositionsNotional(pos, C) \in Nat /\ PositionsNotional(seen.pos, C) \in Nat
  BY <1>1, PositionsAreNat
<1>3. WorkingIn(buys, C) \in Nat
  BY <1>1, WorkingIsNat
<1> QED BY <1>2, <1>3 DEF Committed, WorkingIn, BuysOf

\* The open orders that are counted cover what the working buys may still cost.
LEMMA OrdersCover ==
  ASSUME Books, NEW C \in SUBSET Contracts, NEW p
  PROVE  OrdersNotional(p, C) \in Nat /\ WorkingIn(buys, C) <= OrdersNotional(p, C)
<1> DEFINE S == BuysOf(C)
           protection == SumFunctionOnSet(Value(stop, StopReference(p)), C)
<1>1. IsFiniteSet(S)
  BY FS_Subset DEF Books, Ordered, BuysOf
<1>2. ASSUME NEW b \in S
      PROVE  Working[b] \in Nat /\ Whole[b] \in Nat /\ Working[b] <= Whole[b]
  <2>1. b \in BuyOrders /\ b.left <= b.qty
    BY DEF Books, TypeOK, Ordered, BuysOf
  <2>2. /\ b.left \in Nat /\ b.qty \in Nat /\ Price[b.c] \in Nat
        /\ Working[b] = b.left * Price[b.c] /\ Whole[b] = b.qty * Price[b.c]
    BY <2>1, BuyCosts
  <2>3. /\ b.left * Price[b.c] \in Nat /\ b.qty * Price[b.c] \in Nat
        /\ b.left * Price[b.c] <= b.qty * Price[b.c]
    BY <2>1, <2>2, CostGrows
  <2> QED BY <2>2, <2>3
<1> HIDE DEF S
<1>3. /\ SumFunctionOnSet(Whole, S) \in Nat
      /\ SumFunctionOnSet(Working, S) <= SumFunctionOnSet(Whole, S)
  BY <1>1, <1>2, SumIsNat, SumMonotone
<1>4. protection \in Nat
  <2>1. \A c \in C : Value(stop, StopReference(p))[c] = stop[c] * StopReference(p)[c]
    BY DEF Value
  <2>2. \A c \in C : stop[c] \in Nat /\ StopReference(p)[c] \in Nat
    BY ConstantTypes, PricesAssumption DEF Books, TypeOK, Held, StopReference
  <2>3. \A c \in C : Value(stop, StopReference(p))[c] \in Nat
    BY <2>1, <2>2
  <2>4. IsFiniteSet(C)
    BY ConstantTypes, FS_Subset
  <2> QED BY <2>3, <2>4, SumIsNat
<1>5. /\ OrdersNotional(p, C) = SumFunctionOnSet(Whole, S) + protection
      /\ WorkingIn(buys, C) = SumFunctionOnSet(Working, S)
  BY DEF OrdersNotional, WorkingIn, BuysOf, S
<1>6. WorkingIn(buys, C) \in Nat
  BY CommittedIsNat
<1> HIDE DEF protection
<1> QED BY <1>3, <1>4, <1>5, <1>6

\* The order that is sent comes on top of what is committed.
LEMMA SubmitCommits ==
  ASSUME Books, NEW C \in SUBSET Contracts, NEW n, NEW protected, Submit(n, protected)
  PROVE  /\ seen.qty * Price[target] \in Nat
         /\ Committed(C)' = Committed(C) + IF target \in C THEN seen.qty * Price[target] ELSE 0
         /\ WorkingIn(buys', C) <=
              WorkingIn(buys, C) + IF target \in C THEN seen.qty * Price[target] ELSE 0
<1> DEFINE c == target
           q == seen.qty
           now == n * Price[c]
           rest == (q - n) * Price[c]
           all == q * Price[c]
<1>1. /\ q \in 0..MaxQty /\ n \in 0..q /\ q - n \in 0..q /\ c \in Contracts
      /\ sent + 1 \in 1..MaxOrders /\ \A b \in buys : b.id # sent + 1
      /\ now \in Nat /\ all \in Nat /\ rest \in Nat /\ all = now + rest
  BY SubmitPays
<1>2. /\ pos' = [pos EXCEPT ![c] = @ + n]
      /\ buys' = With(buys, sent + 1, c, q, q - n)
  BY DEF Submit, With
<1>3. buys \in SUBSET BuyOrders /\ IsFiniteSet(buys) /\ pos \in Held
  BY DEF Books, TypeOK, Ordered
<1>4. Books'
  BY SubmitKeepsBooks
<1>5. WorkingIn(buys', C) = WorkingIn(buys, C) + IF c \in C THEN rest ELSE 0
  <2> HIDE DEF c, q
  <2> QED BY <1>1, <1>2, <1>3, WorkingWith
<1>6. pos' \in Held
  BY <1>4 DEF Books, TypeOK
<1>7. pos'[c] = pos[c] + n /\ pos[c] \in Nat /\ n \in Nat /\ Price[c] \in Nat
  BY <1>1, <1>2, <1>3, ConstantTypes DEF Held
<1>8. pos'[c] * Price[c] = pos[c] * Price[c] + now /\ pos[c] * Price[c] \in Nat
  BY <1>7
<1>9. PositionsNotional(pos', C) = PositionsNotional(pos, C) +
        IF c \in C THEN pos'[c] * Price[c] - pos[c] * Price[c] ELSE 0
  <2> HIDE DEF c
  <2>1. \A d \in Contracts : d # c => pos'[d] = pos[d]
    BY <1>2, <1>3 DEF Held
  <2> QED BY <1>1, <1>3, <1>6, <2>1, PositionChanged
<1>10. /\ Committed(C) = PositionsNotional(pos, C) + WorkingIn(buys, C)
       /\ PositionsNotional(pos, C) \in Nat /\ WorkingIn(buys, C) \in Nat
  BY CommittedIsNat
<1>11. Committed(C)' = PositionsNotional(pos', C) + WorkingIn(buys', C)
  BY <1>4 DEF Committed, WorkingIn, BuysOf, PositionsNotional
<1> HIDE DEF now, rest, all
<1>12. Committed(C)' = Committed(C) + IF c \in C THEN all ELSE 0
  <2>1. CASE c \in C
    <3>1. PositionsNotional(pos', C) = PositionsNotional(pos, C) + now
      BY <1>1, <1>8, <1>9, <1>10, <2>1
    <3> QED BY <1>1, <1>5, <1>10, <1>11, <2>1, <3>1
  <2>2. CASE c \notin C
    BY <1>5, <1>9, <1>10, <1>11, <2>2
  <2> QED BY <2>1, <2>2
<1>13. WorkingIn(buys', C) <= WorkingIn(buys, C) + IF c \in C THEN all ELSE 0
  BY <1>1, <1>5, <1>10
<1> QED BY <1>1, <1>12, <1>13 DEF all

\* A fill moves what a working buy may cost to the positions.
LEMMA FillBuyCommits ==
  ASSUME Books, NEW C \in SUBSET Contracts, NEW b \in buys, NEW n \in 1..b.left, FillBuy(b, n)
  PROVE  Committed(C)' = Committed(C) /\ WorkingIn(buys', C) <= WorkingIn(buys, C)
<1> DEFINE c == b.c
           B == buys \ {b}
           now == n * Price[c]
           rest == (b.left - n) * Price[c]
           all == b.left * Price[c]
<1>1. /\ b \in BuyOrders /\ n \in Nat /\ b.left - n \in 0..b.qty
      /\ B \in SUBSET BuyOrders /\ IsFiniteSet(B)
      /\ b.id \in 1..MaxOrders /\ c \in Contracts /\ b.qty \in 0..MaxQty
      /\ \A d \in B : d.id # b.id
      /\ buys' = With(B, b.id, c, b.qty, b.left - n)
      /\ now \in Nat /\ rest \in Nat /\ all = now + rest
  BY FillBuyRest
<1>2. buys \in SUBSET BuyOrders /\ IsFiniteSet(buys) /\ pos \in Held
  BY DEF Books, TypeOK, Ordered
<1>3. Books' /\ pos' = [pos EXCEPT ![c] = @ + n]
  BY FillBuyKeepsBooks DEF FillBuy
<1>4. WorkingIn(buys, C) = WorkingIn(B, C) + IF c \in C THEN all ELSE 0
  BY <1>2, WorkingWithout
<1>5. WorkingIn(buys', C) = WorkingIn(B, C) + IF c \in C THEN rest ELSE 0
  <2> HIDE DEF c, B
  <2> QED BY <1>1, WorkingWith
<1>6. pos' \in Held
  BY <1>3 DEF Books, TypeOK
<1>7. pos'[c] = pos[c] + n /\ pos[c] \in Nat /\ Price[c] \in Nat
  BY <1>1, <1>2, <1>3, ConstantTypes DEF Held
<1>8. pos'[c] * Price[c] = pos[c] * Price[c] + now /\ pos[c] * Price[c] \in Nat
  BY <1>1, <1>7
<1>9. PositionsNotional(pos', C) = PositionsNotional(pos, C) +
        IF c \in C THEN pos'[c] * Price[c] - pos[c] * Price[c] ELSE 0
  <2>1. \A d \in Contracts : d # c => pos'[d] = pos[d]
    BY <1>2, <1>3 DEF Held
  <2> HIDE DEF c
  <2> QED BY <1>1, <1>2, <1>6, <2>1, PositionChanged
<1>10. /\ Committed(C) = PositionsNotional(pos, C) + WorkingIn(buys, C)
       /\ PositionsNotional(pos, C) \in Nat /\ WorkingIn(buys, C) \in Nat
  BY CommittedIsNat
<1>11. Committed(C)' = PositionsNotional(pos', C) + WorkingIn(buys', C)
  BY DEF Committed, WorkingIn, BuysOf, PositionsNotional
<1>12. WorkingIn(B, C) \in Nat
  BY <1>1, WorkingIsNat
<1> HIDE DEF now, rest, all, B, c
<1>13. CASE c \in C
  <2>1. PositionsNotional(pos', C) = PositionsNotional(pos, C) + now
    BY <1>1, <1>8, <1>9, <1>10, <1>13
  <2> QED BY <1>1, <1>4, <1>5, <1>10, <1>11, <1>12, <1>13, <2>1
<1>14. CASE c \notin C
  BY <1>4, <1>5, <1>9, <1>10, <1>11, <1>12, <1>14
<1> QED BY <1>13, <1>14

\* No sale commits anything.
LEMMA SalesFree ==
  ASSUME Books, NEW C \in SUBSET Contracts, NEW c \in Contracts, Exit(c) \/ FillStop(c)
  PROVE  /\ Committed(C)' <= Committed(C) /\ buys' = buys
         /\ \A d \in Contracts : pos'[d] <= pos[d]
<1>1. Books' /\ buys' = buys
  BY BookKeepsBooks, FillStopKeepsBooks DEF Exit, FillStop
<1>2. pos' \in Held /\ pos \in Held
  BY <1>1 DEF Books, TypeOK
<1>3. \A d \in Contracts : pos'[d] <= pos[d]
  <2> SUFFICES ASSUME NEW d \in Contracts PROVE pos'[d] <= pos[d]
    OBVIOUS
  <2>1. pos[d] \in Nat /\ trade[c] \in Nat /\ stop[c] \in Nat
    BY StopCovered
  <2> QED BY <1>2, <2>1 DEF Exit, FillStop, Held
<1>4. PositionsNotional(pos', C) <= PositionsNotional(pos, C)
  BY <1>2, <1>3, PositionsGrow
<1>5. /\ Committed(C) = PositionsNotional(pos, C) + WorkingIn(buys, C)
      /\ PositionsNotional(pos, C) \in Nat /\ WorkingIn(buys, C) \in Nat
  BY CommittedIsNat
<1>6. PositionsNotional(pos', C) \in Nat
  BY <1>2, PositionsAreNat
<1>7. Committed(C)' = PositionsNotional(pos', C) + WorkingIn(buys', C)
  BY DEF Committed, WorkingIn, BuysOf, PositionsNotional
<1> QED BY <1>1, <1>3, <1>4, <1>5, <1>6, <1>7

\* What the order costs that handle_signal is about to send
Cost == seen.qty * Price[target]

\* The contracts of C are kept to the limit M: the buys still working never exceed it,
\* nor do the positions that were seen when the order was authorized, and so all that
\* is committed, and the order to be sent with it, never exceeds twice the limit.  It
\* stays within the limit unless a buy filled between the reads.
Bounded(C, M) ==
  /\ WorkingIn(buys, C) <= M
  /\ Committed(C) <= 2 * M
  /\ pc \in {"account", "orders"} => Committed(C) <= PositionsNotional(seen.pos, C) + M
  /\ pc = "submit" /\ target \in C =>
       WorkingIn(buys, C) + Cost <= M /\ Committed(C) + Cost <= 2 * M
  /\ ~raced => Committed(C) <= M
  /\ ~raced /\ pc = "submit" /\ target \in C => Committed(C) + Cost <= M

\* The positions that were read are still there, unless a buy filled between the reads.
ReadStands ==
  ~raced /\ pc \in {"account", "orders"} => \A c \in Contracts : pos[c] <= seen.pos[c]

\* The risk governor holds the contracts of C to M.
Governed(C, M) ==
  \A qty, p, money :
    Authorized(target, qty, p, money) /\ target \in C =>
      Notional(p, C) + qty * Price[target] <= M

\* The same after a step.
LEMMA BoundedAfter ==
  ASSUME NEW C, NEW M
  PROVE  Bounded(C, M)' <=>
        /\ WorkingIn(buys', C) <= M
        /\ Committed(C)' <= 2 * M
        /\ pc' \in {"account", "orders"} => Committed(C)' <= PositionsNotional(seen'.pos, C) + M
        /\ pc' = "submit" /\ target' \in C =>
             WorkingIn(buys', C) + Cost' <= M /\ Committed(C)' + Cost' <= 2 * M
        /\ ~raced' => Committed(C)' <= M
        /\ ~raced' /\ pc' = "submit" /\ target' \in C => Committed(C)' + Cost' <= M
  BY DEF Bounded, WorkingIn, PositionsNotional, Value

\* Nothing is committed at the start.
LEMMA BoundedInit ==
  ASSUME Init, NEW C \in SUBSET Contracts, NEW M \in Nat
  PROVE  Bounded(C, M)
<1>1. Books
  BY BooksInit
<1>2. \A c \in C : Value(pos, Price)[c] = 0
  <2> SUFFICES ASSUME NEW c \in C PROVE Value(pos, Price)[c] = 0
    OBVIOUS
  <2>1. Price[c] \in Nat /\ pos[c] = 0
    BY ConstantTypes DEF Init, None
  <2> QED BY <2>1 DEF Value
<1>3. IsFiniteSet(C)
  BY ConstantTypes, FS_Subset
<1>4. PositionsNotional(pos, C) = 0
  BY <1>2, <1>3, SumOfZeros DEF PositionsNotional
<1>5. WorkingIn(buys, C) = 0
  <2>1. {b \in buys : b.c \in C} = {}
    BY DEF Init
  <2> QED BY <2>1, SumOfNone DEF WorkingIn
<1>6. Committed(C) = 0
  BY <1>1, <1>4, <1>5, CommittedIsNat
<1> QED BY <1>5, <1>6 DEF Bounded, Init

\* A step that commits nothing more, and does not go on with an order, keeps to the
\* limits.
LEMMA BoundedQuiet ==
  ASSUME Books, Books', NEW C \in SUBSET Contracts, NEW M \in Nat, Bounded(C, M),
         Committed(C)' <= Committed(C), WorkingIn(buys', C) <= WorkingIn(buys, C),
         pc' = "idle" \/ UNCHANGED <<pc, target, seen>>, raced => raced'
  PROVE  Bounded(C, M)'
<1>1. /\ PositionsNotional(pos, C) \in Nat /\ PositionsNotional(seen.pos, C) \in Nat
      /\ WorkingIn(buys, C) \in Nat /\ Committed(C) \in Nat
  BY CommittedIsNat
<1>2. WorkingIn(buys', C) \in Nat
  BY WorkingIsNat DEF Books, TypeOK, Ordered
<1>3. Committed(C)' \in Nat
  <2>1. pos' \in Held
    BY DEF Books, TypeOK
  <2>2. PositionsNotional(pos', C) \in Nat
    BY <2>1, PositionsAreNat
  <2> QED BY <1>2, <2>2 DEF Committed, WorkingIn, BuysOf, PositionsNotional
<1>4. Cost \in Nat
  <2>1. seen.qty \in Nat /\ Price[target] \in Nat
    BY ConstantTypes DEF Books, TypeOK
  <2> QED BY <2>1 DEF Cost
<1>6. CASE pc' = "idle"
  BY <1>1, <1>2, <1>3, <1>6, BoundedAfter DEF Bounded
<1>7. CASE UNCHANGED <<pc, target, seen>>
  <2>1. Cost' = Cost
    BY <1>7 DEF Cost
  <2> HIDE DEF Cost
  <2> QED BY <1>1, <1>2, <1>3, <1>4, <1>7, <2>1, BoundedAfter DEF Bounded
<1> QED BY <1>6, <1>7

\* The order is authorized on what was read.
LEMMA BoundedOrders ==
  ASSUME Books, NEW C \in SUBSET Contracts, NEW M \in Nat, Bounded(C, M), Governed(C, M),
         ReadStands, NEW byRisk \in 0..MaxQty + 1, ReadOrders(byRisk)
  PROVE  Bounded(C, M)'
<1>0. Books'
  BY ReadsKeepBooks
<1>1. /\ PositionsNotional(pos, C) \in Nat /\ PositionsNotional(seen.pos, C) \in Nat
      /\ WorkingIn(buys, C) \in Nat
      /\ Committed(C) = PositionsNotional(pos, C) + WorkingIn(buys, C)
  BY CommittedIsNat
<1>2. /\ OrdersNotional(seen.pos, C) \in Nat
      /\ WorkingIn(buys, C) <= OrdersNotional(seen.pos, C)
  BY OrdersCover
<1>3. /\ pc = "orders" /\ pc' = "submit" /\ target' = target /\ raced' = raced
      /\ pos' = pos /\ buys' = buys
      /\ Authorized(target, seen'.qty, seen.pos, seen.cash)
  BY DEF ReadOrders, broker, past, Books, TypeOK
<1>4. Committed(C)' = Committed(C) /\ WorkingIn(buys', C) = WorkingIn(buys, C)
  BY <1>3 DEF Committed, BuysOf, PositionsNotional, Value
<1>5. Cost' = seen'.qty * Price[target] /\ Cost' \in Nat
  <2>1. seen'.qty \in Nat /\ Price[target] \in Nat
    BY <1>0, <1>3, ConstantTypes DEF Books, TypeOK
  <2> QED BY <1>3, <2>1 DEF Cost
<1>6. target \in C => PositionsNotional(seen.pos, C) + OrdersNotional(seen.pos, C) + Cost' <= M
  BY <1>3, <1>5 DEF Governed, Notional
<1>7. ~raced => PositionsNotional(pos, C) <= PositionsNotional(seen.pos, C)
  <2>1. pos \in Held /\ seen.pos \in Held
    BY DEF Books, TypeOK
  <2> QED BY <1>3, <2>1, PositionsGrow DEF ReadStands
<1>8. /\ WorkingIn(buys, C) <= M /\ Committed(C) <= 2 * M
      /\ Committed(C) <= PositionsNotional(seen.pos, C) + M
      /\ ~raced => Committed(C) <= M
  BY <1>3 DEF Bounded
<1>9. target \in C =>
        /\ WorkingIn(buys, C) + Cost' <= M /\ Committed(C) + Cost' <= 2 * M
        /\ ~raced => Committed(C) + Cost' <= M
  BY <1>1, <1>2, <1>5, <1>6, <1>7, <1>8
<1> QED BY <1>3, <1>4, <1>8, <1>9, BoundedAfter

\* The order is sent.
LEMMA BoundedSubmit ==
  ASSUME Books, NEW C \in SUBSET Contracts, NEW M \in Nat, Bounded(C, M),
         NEW n, NEW protected, Submit(n, protected)
  PROVE  Bounded(C, M)'
<1>1. Books'
  BY SubmitKeepsBooks
<1>2. /\ Cost \in Nat
      /\ Committed(C)' = Committed(C) + IF target \in C THEN Cost ELSE 0
      /\ WorkingIn(buys', C) <= WorkingIn(buys, C) + IF target \in C THEN Cost ELSE 0
  BY SubmitCommits DEF Cost
<1>3. /\ PositionsNotional(pos, C) \in Nat /\ WorkingIn(buys, C) \in Nat
      /\ Committed(C) = PositionsNotional(pos, C) + WorkingIn(buys, C)
  BY CommittedIsNat
<1>4. WorkingIn(buys', C) \in Nat
  BY <1>1, WorkingIsNat DEF Books, TypeOK, Ordered
<1>5. pc = "submit" /\ pc' = "idle" /\ raced' = raced
  BY DEF Submit
<1> HIDE DEF Cost
<1>7. /\ WorkingIn(buys', C) <= M
      /\ Committed(C)' <= 2 * M
      /\ ~raced => Committed(C)' <= M
  BY <1>2, <1>3, <1>4, <1>5 DEF Bounded
<1> QED BY <1>5, <1>7, BoundedAfter

\* The positions and the account are read.
LEMMA BoundedReads ==
  ASSUME Books, NEW C \in SUBSET Contracts, NEW M \in Nat, Bounded(C, M),
         (\E c \in Contracts : ReadPositions(c)) \/ ReadAccount
  PROVE  Bounded(C, M)'
<1>1. /\ PositionsNotional(pos, C) \in Nat /\ WorkingIn(buys, C) \in Nat
      /\ Committed(C) = PositionsNotional(pos, C) + WorkingIn(buys, C)
  BY CommittedIsNat
<1>2. /\ pos' = pos /\ buys' = buys /\ raced' = raced
      /\ pc' \in {"account", "orders"}
      /\ seen'.pos = pos \/ (pc = "account" /\ seen'.pos = seen.pos)
  BY DEF ReadPositions, ReadAccount, broker, past, Books, TypeOK
<1>3. Committed(C)' = Committed(C) /\ WorkingIn(buys', C) = WorkingIn(buys, C)
  BY <1>2 DEF Committed, BuysOf, PositionsNotional, Value
<1>5. /\ WorkingIn(buys, C) <= M /\ Committed(C) <= 2 * M /\ (~raced => Committed(C) <= M)
  BY DEF Bounded
<1>6. Committed(C) <= PositionsNotional(seen'.pos, C) + M
  <2>1. CASE seen'.pos = pos
    BY <1>1, <1>5, <2>1
  <2>2. CASE pc = "account" /\ seen'.pos = seen.pos
    BY <2>2 DEF Bounded
  <2> QED BY <1>2, <2>1, <2>2
<1> QED BY <1>2, <1>3, <1>5, <1>6, BoundedAfter

\* Every step keeps the contracts that are governed to their limit.
LEMMA BoundedStep ==
  ASSUME Books, NEW C \in SUBSET Contracts, NEW M \in Nat, Bounded(C, M), Governed(C, M),
         ReadStands, [Next]_vars
  PROVE  Bounded(C, M)'
<1>1. Books'
  BY BooksStep
<1>2. Committed(C) \in Nat /\ WorkingIn(buys, C) \in Nat
  BY CommittedIsNat
<1>3. ASSUME Signal PROVE Bounded(C, M)'
  <2>1. CASE Refuse
    <3>1. pos' = pos /\ buys' = buys /\ raced' = raced /\ pc' = "idle"
      BY <2>1 DEF Refuse, broker, past
    <3>2. Committed(C)' = Committed(C) /\ WorkingIn(buys', C) = WorkingIn(buys, C)
      BY <3>1 DEF Committed, BuysOf, PositionsNotional, Value
    <3> QED BY <1>1, <1>2, <3>1, <3>2, BoundedQuiet
  <2> QED BY <1>3, <2>1, BoundedReads, BoundedOrders, BoundedSubmit DEF Signal
<1>4. ASSUME NEW c \in Contracts, Exit(c) \/ FillStop(c) PROVE Bounded(C, M)'
  <2>1. /\ Committed(C)' <= Committed(C) /\ buys' = buys
    BY <1>4, SalesFree
  <2>2. UNCHANGED <<pc, target, seen, raced>>
    BY <1>4 DEF Exit, FillStop, call, past
  <2> QED BY <1>1, <1>2, <2>1, <2>2, BoundedQuiet
<1>5. ASSUME NEW c \in Contracts, Ingest(c) PROVE Bounded(C, M)'
  <2>1. UNCHANGED <<pos, buys, pc, target, seen, raced>>
    BY <1>5 DEF Ingest, call, past
  <2>2. Committed(C)' = Committed(C) /\ WorkingIn(buys', C) = WorkingIn(buys, C)
    BY <2>1 DEF Committed, BuysOf, PositionsNotional, Value
  <2> QED BY <1>1, <1>2, <2>1, <2>2, BoundedQuiet
<1>6. ASSUME NEW b \in buys, NEW n, FillBuy(b, n) PROVE Bounded(C, M)'
  <2>1. n \in 1..b.left
    BY <1>6 DEF FillBuy
  <2>2. Committed(C)' = Committed(C) /\ WorkingIn(buys', C) <= WorkingIn(buys, C)
    BY <1>6, <2>1, FillBuyCommits
  <2>3. UNCHANGED <<pc, target, seen>> /\ (raced => raced')
    BY <1>6 DEF FillBuy, call
  <2> QED BY <1>1, <1>2, <2>2, <2>3, BoundedQuiet
<1>7. ASSUME UNCHANGED vars PROVE Bounded(C, M)'
  <2>1. UNCHANGED <<pos, buys, pc, target, seen, raced>>
    BY <1>7 DEF vars, broker, call, past
  <2>2. Committed(C)' = Committed(C) /\ WorkingIn(buys', C) = WorkingIn(buys, C)
    BY <2>1 DEF Committed, BuysOf, PositionsNotional, Value
  <2> QED BY <1>1, <1>2, <2>1, <2>2, BoundedQuiet
<1> QED BY <1>3, <1>4, <1>5, <1>6, <1>7 DEF Next, Book, Fills

\* Positions that were read only shrink, unless a buy fills.
LEMMA ReadStandsStep ==
  ASSUME Books, ReadStands, [Next]_vars
  PROVE  ReadStands'
<1>0. \A c \in Contracts : pos[c] \in Nat /\ seen.pos[c] \in Nat
  BY DEF Books, TypeOK, Held
<1>1. ASSUME Signal PROVE ReadStands'
  <2>1. CASE \E c \in Contracts : ReadPositions(c)
    BY <1>0, <2>1 DEF ReadPositions, broker, ReadStands, Books, TypeOK
  <2>2. CASE ReadAccount
    BY <2>2 DEF ReadAccount, broker, past, ReadStands, Books, TypeOK
  <2>3. pc' \notin {"account", "orders"} \/ (\E c \in Contracts : ReadPositions(c)) \/ ReadAccount
    BY <1>1 DEF Signal, ReadOrders, Refuse, Submit
  <2> QED BY <2>1, <2>2, <2>3 DEF ReadStands
<1>2. ASSUME NEW c \in Contracts, Exit(c) \/ FillStop(c) PROVE ReadStands'
  <2>1. \A d \in Contracts : pos'[d] <= pos[d]
    BY <1>2, SalesFree
  <2>2. UNCHANGED <<pc, seen, raced>>
    BY <1>2 DEF Exit, FillStop, call, past
  <2>3. Books'
    BY <1>2, BookKeepsBooks, FillStopKeepsBooks
  <2>4. \A d \in Contracts : pos'[d] \in Nat
    BY <2>3 DEF Books, TypeOK, Held
  <2> QED BY <1>0, <2>1, <2>2, <2>4 DEF ReadStands
<1>3. ASSUME NEW b \in buys, NEW n, FillBuy(b, n) PROVE ReadStands'
  BY <1>3 DEF FillBuy, call, ReadStands
<1>4. ASSUME NEW c \in Contracts, Ingest(c) PROVE ReadStands'
  BY <1>4 DEF Ingest, call, past, ReadStands
<1>5. ASSUME UNCHANGED vars PROVE ReadStands'
  BY <1>5 DEF vars, broker, call, past, ReadStands
<1> QED BY <1>1, <1>2, <1>3, <1>4, <1>5 DEF Next, Book, Fills

\* The books are right, and all contracts and every family are kept to their limits.
Limited ==
  /\ Books /\ ReadStands
  /\ Bounded(Contracts, MaxTotal)
  /\ \A c \in Contracts : Bounded(Family(c), MaxSymbol)

\* The start.
LEMMA LimitedInit == Init => Limited
<1> SUFFICES ASSUME Init PROVE Limited
  OBVIOUS
<1>1. Books
  BY BooksInit
<1>2. ReadStands
  BY DEF Init, ReadStands
<1>3. Bounded(Contracts, MaxTotal)
  BY BoundedInit, ConstantTypes
<1>4. ASSUME NEW c \in Contracts PROVE Bounded(Family(c), MaxSymbol)
  <2>1. Family(c) \in SUBSET Contracts
    BY DEF Family
  <2> QED BY <2>1, BoundedInit, ConstantTypes
<1> QED BY <1>1, <1>2, <1>3, <1>4 DEF Limited

\* The risk governor holds all contracts to the aggregate limit, and every family to the
\* limit of a symbol: that of the contract which is bought is the only one that changes.
LEMMA AllGoverned ==
  /\ Governed(Contracts, MaxTotal)
  /\ \A c \in Contracts : Governed(Family(c), MaxSymbol)
<1>1. Governed(Contracts, MaxTotal)
  BY DEF Governed, Authorized
<1>2. ASSUME NEW c \in Contracts PROVE Governed(Family(c), MaxSymbol)
  <2>1. target \in Family(c) => Family(target) = Family(c)
    BY DEF Family
  <2> QED BY <2>1 DEF Governed, Authorized
<1> QED BY <1>1, <1>2

\* Every step.
LEMMA LimitedStep == Limited /\ [Next]_vars => Limited'
<1> SUFFICES ASSUME Limited, [Next]_vars PROVE Limited'
  OBVIOUS
<1>1. Books' /\ ReadStands'
  BY BooksStep, ReadStandsStep DEF Limited
<1>2. Bounded(Contracts, MaxTotal)'
  BY BoundedStep, AllGoverned, ConstantTypes DEF Limited
<1>3. ASSUME NEW c \in Contracts PROVE Bounded(Family(c), MaxSymbol)'
  <2> DEFINE C == Family(c)
  <2>1. C \in SUBSET Contracts /\ Bounded(C, MaxSymbol) /\ Governed(C, MaxSymbol)
    BY AllGoverned DEF Limited, Family
  <2> HIDE DEF C
  <2>2. Bounded(C, MaxSymbol)'
    BY <2>1, BoundedStep, ConstantTypes DEF Limited
  <2> QED BY <2>2 DEF C
<1> QED BY <1>1, <1>2, <1>3 DEF Limited

\* Always.
LEMMA AlwaysLimited == Spec => []Limited
  BY LimitedInit, LimitedStep, PTL DEF Spec

\* However the broker fills in between the three reads of handle_signal: what is held
\* and ordered stays within max_total_notional and max_symbol_exposure unless a buy
\* fills between the reads.
THEOREM LimitsHold == Spec => []WithinLimits
<1>1. Limited => WithinLimits
  BY DEF Limited, Bounded, WithinLimits
<1> QED BY <1>1, AlwaysLimited, PTL

\* And if any number of them do, it stays within twice the limits.
THEOREM TwiceTheLimits == Spec => []AtMostTwice
<1>1. Limited => AtMostTwice
  BY DEF Limited, Bounded, AtMostTwice
<1> QED BY <1>1, AlwaysLimited, PTL

-----------------------------------------------------------------------------
(* The number of positions                                                  *)

\* As long as every buy fills when it is sent there is no working buy, and the
\* positions read are all there is until the order is sent.
Sparse ==
  ~rested =>
    /\ buys = {}
    /\ OpenPositions(pos) <= MaxPositions
    /\ pc # "idle" => \A c \in Contracts : pos[c] # 0 => seen.pos[c] # 0
    /\ pc = "submit" => OpenPositions(seen.pos) < MaxPositions

\* Positions are counted.
LEMMA OpenIsNat ==
  ASSUME NEW p
  PROVE  OpenPositions(p) \in Nat /\ IsFiniteSet({c \in Contracts : p[c] # 0})
<1>1. IsFiniteSet({c \in Contracts : p[c] # 0})
  BY ConstantTypes, FS_Subset
<1> QED BY <1>1, FS_CardinalityType DEF OpenPositions

\* Fewer contracts are fewer positions.
LEMMA OpenShrinks ==
  ASSUME NEW p, NEW q, \A c \in Contracts : p[c] # 0 => q[c] # 0
  PROVE  OpenPositions(p) <= OpenPositions(q)
<1> DEFINE P == {c \in Contracts : p[c] # 0}
           Q == {c \in Contracts : q[c] # 0}
<1>1. P \subseteq Q /\ IsFiniteSet(Q)
  BY OpenIsNat
<1>2. Cardinality(P) <= Cardinality(Q)
  <2> HIDE DEF P, Q
  <2> QED BY <1>1, FS_Subset
<1> QED BY <1>2 DEF OpenPositions

\* One contract more is one position more, or none.
LEMMA OpenGrows ==
  ASSUME NEW p, NEW q, NEW a \in Contracts, \A c \in Contracts : c # a => q[c] = p[c]
  PROVE  OpenPositions(q) <= OpenPositions(p) + 1
<1> DEFINE P == {c \in Contracts : p[c] # 0}
           Q == {c \in Contracts : q[c] # 0}
<1>1. Q \subseteq P \cup {a} /\ IsFiniteSet(P)
  BY OpenIsNat
<1>2. IsFiniteSet(P \cup {a}) /\ Cardinality(P \cup {a}) <= Cardinality(P) + 1
  <2>1. Cardinality(P) \in Nat
    BY <1>1, FS_CardinalityType
  <2>2. IsFiniteSet(P)
    BY <1>1
  <2> HIDE DEF P
  <2>3. /\ IsFiniteSet(P \cup {a})
        /\ Cardinality(P \cup {a}) = IF a \in P THEN Cardinality(P) ELSE Cardinality(P) + 1
    BY <2>2, FS_AddElement
  <2> QED BY <2>1, <2>3
<1>3. Cardinality(Q) <= Cardinality(P \cup {a})
  <2> HIDE DEF P, Q
  <2> QED BY <1>1, <1>2, FS_Subset
<1>4. Cardinality(Q) \in Nat /\ Cardinality(P) \in Nat /\ Cardinality(P \cup {a}) \in Nat
  BY <1>1, <1>2, OpenIsNat, FS_CardinalityType
<1>5. Cardinality(Q) <= Cardinality(P) + 1
  <2> HIDE DEF P, Q
  <2> QED BY <1>2, <1>3, <1>4
<1> QED BY <1>5 DEF OpenPositions

\* The start.
LEMMA SparseInit == Init => Sparse
<1> SUFFICES ASSUME Init PROVE Sparse
  OBVIOUS
<1>1. {c \in Contracts : pos[c] # 0} = {}
  BY DEF Init, None
<1>2. OpenPositions(pos) = 0
  BY <1>1, FS_EmptySet DEF OpenPositions
<1> QED BY <1>2, ConstantTypes DEF Init, Sparse

\* The order that is sent takes one position at most, and was sent for one below the
\* limit.
LEMMA SubmitSparse ==
  ASSUME Books, Sparse, NEW n, NEW protected, Submit(n, protected)
  PROVE  Sparse'
<1> SUFFICES ASSUME ~rested' PROVE Sparse'
  BY DEF Sparse
<1>1. ~rested /\ ~(n < seen.qty) /\ pc = "submit" /\ pc' = "idle"
  BY DEF Submit
<1>2. /\ seen.qty \in 0..MaxQty /\ n \in 0..seen.qty /\ target \in Contracts
      /\ sent + 1 \in 1..MaxOrders /\ seen.qty - n \in 0..seen.qty
  BY SubmitPays
<1>3. seen.qty - n = 0
  BY <1>1, <1>2, ConstantTypes
<1>4. buys' = With(buys, sent + 1, target, seen.qty, seen.qty - n)
  BY DEF Submit, With
<1>5. buys' = {}
  <2>1. buys \in SUBSET BuyOrders /\ IsFiniteSet(buys) /\ buys = {}
    BY <1>1 DEF Books, TypeOK, Ordered, Sparse
  <2> QED BY <1>2, <1>3, <1>4, <2>1, BuysWith
<1>6. \A c \in Contracts : c # target => pos'[c] = pos[c]
  BY <1>2 DEF Submit, Books, TypeOK, Held
<1>7. OpenPositions(pos') <= OpenPositions(pos) + 1
  BY <1>2, <1>6, OpenGrows
<1>8. OpenPositions(pos) <= OpenPositions(seen.pos) /\ OpenPositions(seen.pos) < MaxPositions
  BY <1>1, OpenShrinks DEF Sparse
<1>9. OpenPositions(pos') <= MaxPositions
  <2>1. OpenPositions(pos') \in Nat /\ OpenPositions(pos) \in Nat /\ OpenPositions(seen.pos) \in Nat
    BY OpenIsNat
  <2>2. MaxPositions \in Nat
    BY ConstantTypes
  <2> QED BY <1>7, <1>8, <2>1, <2>2
<1> QED BY <1>1, <1>5, <1>9 DEF Sparse, OpenPositions

\* The reads.
LEMMA ReadsSparse ==
  ASSUME Books, Sparse,
         \/ \E c \in Contracts : ReadPositions(c)
         \/ ReadAccount
         \/ \E byRisk \in 0..MaxQty + 1 : ReadOrders(byRisk)
         \/ Refuse
  PROVE  Sparse'
<1>1. /\ pos' = pos /\ buys' = buys /\ rested' = rested
  BY DEF ReadPositions, ReadAccount, ReadOrders, Refuse, broker, past
<1>2. OpenPositions(pos') = OpenPositions(pos)
  BY <1>1
<1>3. CASE \E c \in Contracts : ReadPositions(c)
  <2>1. pc' = "account" /\ seen'.pos = pos
    BY <1>3 DEF ReadPositions, Books, TypeOK
  <2> QED BY <1>1, <1>2, <2>1 DEF Sparse, OpenPositions
<1>4. CASE ReadAccount
  <2>1. pc # "idle" /\ pc' = "orders" /\ seen'.pos = seen.pos
    BY <1>4 DEF ReadAccount, Books, TypeOK
  <2> QED BY <1>1, <1>2, <2>1 DEF Sparse, OpenPositions
<1>5. CASE \E byRisk \in 0..MaxQty + 1 : ReadOrders(byRisk)
  <2>1. pc # "idle" /\ seen'.pos = seen.pos /\ OpenPositions(seen.pos) < MaxPositions
    BY <1>5 DEF ReadOrders, Authorized, RoomForPosition, Books, TypeOK
  <2> QED BY <1>1, <1>2, <2>1 DEF Sparse, OpenPositions
<1>6. CASE Refuse
  <2>1. pc' = "idle"
    BY <1>6 DEF Refuse
  <2> QED BY <1>1, <1>2, <2>1 DEF Sparse, OpenPositions
<1> QED BY <1>3, <1>4, <1>5, <1>6

\* The sales.
LEMMA SalesSparse ==
  ASSUME Books, Sparse, NEW c \in Contracts, Exit(c) \/ FillStop(c) \/ Ingest(c)
  PROVE  Sparse'
<1>1. UNCHANGED <<buys, pc, seen, rested>>
  BY DEF Exit, FillStop, Ingest, call, past
<1>2. Books'
  BY BookKeepsBooks, FillStopKeepsBooks
<1>3. \A d \in Contracts : pos'[d] # 0 => pos[d] # 0
  <2>1. CASE Exit(c) \/ FillStop(c)
    <3>1. \A d \in Contracts : pos'[d] <= pos[d]
      BY <2>1, SalesFree
    <3>2. \A d \in Contracts : pos'[d] \in Nat /\ pos[d] \in Nat
      BY <1>2 DEF Books, TypeOK, Held
    <3> QED BY <3>1, <3>2
  <2>2. CASE Ingest(c)
    BY <2>2 DEF Ingest
  <2> QED BY <2>1, <2>2
<1>4. OpenPositions(pos') <= OpenPositions(pos)
  BY <1>3, OpenShrinks
<1>5. OpenPositions(pos') \in Nat /\ OpenPositions(pos) \in Nat
  BY OpenIsNat
<1> QED BY <1>1, <1>3, <1>4, <1>5, ConstantTypes DEF Sparse, OpenPositions

\* Every step.
LEMMA SparseStep == Books /\ Sparse /\ [Next]_vars => Sparse'
<1> SUFFICES ASSUME Books, Sparse, [Next]_vars PROVE Sparse'
  OBVIOUS
<1>1. ASSUME Signal PROVE Sparse'
  BY <1>1, ReadsSparse, SubmitSparse DEF Signal
<1>2. ASSUME NEW b \in buys, NEW n, FillBuy(b, n) PROVE Sparse'
  BY <1>2 DEF FillBuy, Sparse
<1>3. ASSUME NEW c \in Contracts, Exit(c) \/ FillStop(c) \/ Ingest(c) PROVE Sparse'
  BY <1>3, SalesSparse
<1>4. ASSUME UNCHANGED vars PROVE Sparse'
  BY <1>4 DEF vars, broker, call, past, Sparse, OpenPositions
<1> QED BY <1>1, <1>2, <1>3, <1>4 DEF Next, Book, Fills

\* While every buy fills when it is sent, there are never more positions than
\* MAX_POSITIONS: those that are counted when an order is authorized are all there are
\* when it is sent.
THEOREM PositionsLimited == Spec => []PositionsWithinLimit
<1>1. Init => Books /\ Sparse
  BY BooksInit, SparseInit
<1>2. (Books /\ Sparse) /\ [Next]_vars => (Books /\ Sparse)'
  BY BooksStep, SparseStep
<1>3. Sparse => PositionsWithinLimit
  BY DEF Sparse, PositionsWithinLimit
<1> QED BY <1>1, <1>2, <1>3, PTL DEF Spec

=============================================================================
