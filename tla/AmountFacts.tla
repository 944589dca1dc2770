---------------------------- MODULE AmountFacts ----------------------------
(***************************************************************************)
(* Facts about the arithmetic of CopyAmounts, and about sums of amounts    *)
(* over finite sets: what one element, a subset, another function and a    *)
(* renaming of the elements do to SumFunctionOnSet of the community        *)
(* modules.  The sum is a fold, a recursive function on the subsets of its *)
(* set; in place of an induction the proofs take a smallest set that the   *)
(* fact fails for.                                                         *)
(***************************************************************************)
EXTENDS CopyAmounts, Functions, FiniteSetTheorems, WellFoundedInduction, TLAPS

-----------------------------------------------------------------------------
(* The amounts.                                                            *)

\* A quotient of naturals is a natural, and its multiple does not exceed the
\* dividend.
LEMMA Quotient ==
    ASSUME NEW a \in Nat, NEW b \in Nat \ {0}
    PROVE  a \div b \in Nat /\ b * (a \div b) <= a
  OBVIOUS

\* Dividing a product by one factor's bound gives at most the other factor.
LEMMA QuotientBound ==
    ASSUME NEW a \in Nat, NEW c \in Nat, NEW b \in Nat \ {0}, a <= b
    PROVE  (a * c) \div b \in Nat /\ (a * c) \div b <= c
<1> DEFINE p == a * c
           q == p \div b
<1>1. p \in Nat /\ p <= b * c
  OBVIOUS
<1>2. q \in Nat /\ b * q <= p
  BY <1>1, Quotient
<1> HIDE DEF p, q
<1>3. b * q <= b * c
  BY <1>1, <1>2
<1>4. q <= c
  <2>1. SUFFICES ASSUME q >= c + 1 PROVE FALSE
    BY <1>2
  <2>2. b * q >= b * (c + 1)
    BY <1>2, <2>1
  <2>3. b * (c + 1) = b * c + b
    OBVIOUS
  <2>4. b * q \in Nat /\ b * c \in Nat
    BY <1>2
  <2> QED
    BY <1>3, <2>2, <2>3, <2>4
<1> QED
  BY <1>2, <1>4 DEF q, p

\* get_execution_input never asks to sell more than was bought for the
\* position and is not sold yet.
LEMMA SellInputBound ==
    ASSUME NEW h \in Volumes, NEW amount \in Nat, ~NothingLeft(h)
    PROVE  /\ SellInput(h, amount) \in Nat
           /\ SellInput(h, amount) > 0 => SellInput(h, amount) + h.execSell <= h.execBuy
<1>1. h.originBuy \in Nat \ {0} /\ h.originSell \in Nat /\ h.execBuy \in Nat /\ h.execSell \in Nat
  BY DEF Volumes, NothingLeft
<1>2. OriginSellTotal(h, amount) \in Nat /\ OriginSellTotal(h, amount) <= h.originBuy
  BY <1>1 DEF OriginSellTotal, Lesser
<1>3. ExecTargetAmount(h, amount) \in Nat /\ ExecTargetAmount(h, amount) <= h.execBuy
  BY <1>1, <1>2, QuotientBound DEF ExecTargetAmount
<1> QED
  BY <1>1, <1>3 DEF SellInput

\* A buy spends no more than the configured maximum, and a buy with SOL no
\* more than the origin wallet spent.
LEMMA BuyInputBound ==
    ASSUME NEW min \in Nat, NEW max \in Nat, min < max, NEW fromSOL \in BOOLEAN,
           NEW amount \in Nat, NEW pre \in Nat
    PROVE  /\ BuyInput(min, max, fromSOL, amount, pre) \in Nat
           /\ BuyInput(min, max, fromSOL, amount, pre) <= max
           /\ fromSOL => BuyInput(min, max, fromSOL, amount, pre) <= amount
<1>1. max - min \in Nat /\ amount * (max - min) \in Nat
  OBVIOUS
<1>2. CASE fromSOL /\ pre # 0 /\ amount < pre
  <2>1. (amount * (max - min)) \div pre \in Nat
    BY <1>1, <1>2, Quotient
  <2> QED
    BY <1>2, <2>1 DEF BuyInput, Lesser
<1>3. CASE ~(fromSOL /\ pre # 0 /\ amount < pre)
  BY <1>3 DEF BuyInput, Lesser
<1> QED
  BY <1>2, <1>3

\* The share of a buy that is set aside is a part of it.
LEMMA DustBound ==
    ASSUME NEW bps \in Nat, bps <= 10000, NEW amount \in Nat
    PROVE  DustVolume(bps, amount) \in Nat /\ DustVolume(bps, amount) <= amount
<1> DEFINE p == bps * amount
<1>1. p \in Nat /\ p <= 10000 * amount
  OBVIOUS
<1>2. DustVolume(bps, amount) = p \div 10000
  BY DEF DustVolume
<1> HIDE DEF p
<1> QED
  BY <1>1, <1>2

\* The fee of an attempt is a number of lamports.
LEMMA FeeNat ==
    ASSUME NEW minFee \in Nat, NEW maxFee \in Nat, NEW p95 \in Nat, NEW increase \in Nat,
           NEW n \in Nat
    PROVE  FeeLamports(minFee, maxFee, p95, increase, n) \in Nat
<1>1. n * increase \in Nat
  OBVIOUS
<1>2. Lesser(maxFee, Greater(minFee, p95 + 1)) \in Nat
  BY DEF Lesser, Greater
<1> QED
  BY <1>1, <1>2 DEF FeeLamports

\* What insert_trade_inner does to the volumes of an entry.
LEMMA AddTradeFacts ==
    ASSUME NEW h \in Volumes, NEW d, NEW o \in Nat, NEW e \in Nat
    PROVE  /\ AddTrade(h, d, o, e) \in Volumes
           /\ d = "buy" => /\ AddTrade(h, d, o, e).originBuy = h.originBuy + o
                           /\ AddTrade(h, d, o, e).execBuy = h.execBuy + e
                           /\ AddTrade(h, d, o, e).originSell = h.originSell
                           /\ AddTrade(h, d, o, e).execSell = h.execSell
           /\ d # "buy" => /\ AddTrade(h, d, o, e).originSell = h.originSell + o
                           /\ AddTrade(h, d, o, e).execSell = h.execSell + e
                           /\ AddTrade(h, d, o, e).originBuy = h.originBuy
                           /\ AddTrade(h, d, o, e).execBuy = h.execBuy
<1> DEFINE ob == h.originBuy + o
           eb == h.execBuy + e
           os == h.originSell + o
           es == h.execSell + e
<1>1. ob \in Nat /\ eb \in Nat /\ os \in Nat /\ es \in Nat
  BY DEF Volumes
<1>2. AddTrade(h, d, o, e) = IF d = "buy" THEN [h EXCEPT !.originBuy = ob, !.execBuy = eb]
                             ELSE [h EXCEPT !.originSell = os, !.execSell = es]
  BY DEF AddTrade, Volumes
<1>3. /\ ob = h.originBuy + o /\ eb = h.execBuy + e
      /\ os = h.originSell + o /\ es = h.execSell + e
  OBVIOUS
<1> HIDE DEF ob, eb, os, es
<1>4. CASE d = "buy"
  BY <1>1, <1>2, <1>3, <1>4 DEF Volumes
<1>5. CASE d # "buy"
  BY <1>1, <1>2, <1>3, <1>5 DEF Volumes
<1> QED
  BY <1>4, <1>5

-----------------------------------------------------------------------------
(* Sums as a fold.                                                         *)

Some(s) == CHOOSE x \in s : TRUE

\* The equation of the fold, for subsets of S.
SumBody(F, S, g) ==
    [s \in SUBSET S |-> IF s = {} THEN 0 ELSE F[Some(s)] + g[s \ {Some(s)}]]

Summing(F, S) == CHOOSE g : g = SumBody(F, S, g)

-----------------------------------------------------------------------------
(* Smallest elements.                                                      *)

\* A set of natural numbers has a least element.
LEMMA LeastElement ==
    ASSUME NEW S \in SUBSET Nat, S # {}
    PROVE  \E x \in S : \A y \in S : x <= y
<1> DEFINE R == OpToRel(<, Nat)
<1>1. IsWellFoundedOn(R, Nat)
  BY NatLessThanWellFounded, Zenon
<1>2. \A x, y \in Nat : <<y, x>> \in R <=> y < x
  BY Zenon DEF OpToRel
<1> HIDE DEF R
<1>3. PICK x \in S : \A y \in S : ~(<<y, x>> \in R)
  BY <1>1, WFMin
<1>4. \A y \in S : ~(y < x)
  BY <1>2, <1>3
<1> QED
  BY <1>4

\* Among subsets of a finite set, one contains no other.
LEMMA MinimalSubset ==
    ASSUME NEW S, IsFiniteSet(S), NEW B \in SUBSET (SUBSET S), B # {}
    PROVE  \E T \in B : /\ IsFiniteSet(T)
                        /\ \A x \in T : T \ {x} \notin B
                        /\ \A U \in SUBSET T : U # T => U \notin B
<1> DEFINE Sizes == {Cardinality(T) : T \in B}
<1>1. \A T \in B : IsFiniteSet(T) /\ Cardinality(T) \in Nat
  BY FS_Subset, FS_CardinalityType
<1>2. Sizes \in SUBSET Nat /\ Sizes # {}
  BY <1>1
<1>3. PICK n \in Sizes : \A k \in Sizes : n <= k
  <2> HIDE DEF Sizes
  <2> QED
    BY <1>2, LeastElement
<1>4. PICK T \in B : Cardinality(T) = n
  BY <1>3
<1>5. ASSUME NEW U \in SUBSET T, U # T PROVE U \notin B
  <2>1. IsFiniteSet(T) /\ Cardinality(T) \in Nat
    BY <1>1
  <2>2. Cardinality(U) <= Cardinality(T) /\ (Cardinality(U) = Cardinality(T) => U = T)
    BY <1>5, <2>1, FS_Subset
  <2>3. Cardinality(U) \in Nat
    BY <1>5, <2>1, FS_Subset, FS_CardinalityType
  <2>4. U \in B => n <= Cardinality(U)
    BY <1>3
  <2> HIDE DEF Sizes
  <2> QED
    BY <1>4, <1>5, <2>1, <2>2, <2>3, <2>4
<1>6. \A x \in T : T \ {x} \notin B
  BY <1>5
<1> QED
  BY <1>1, <1>4, <1>5, <1>6

-----------------------------------------------------------------------------
(* The equation of the fold has one solution.                              *)

\* The community operator is the solution that CHOOSE names.
LEMMA SumUnfold ==
    ASSUME NEW F, NEW S
    PROVE  SumFunctionOnSet(F, S) = Summing(F, S)[S]
  BY DEF SumFunctionOnSet, FoldFunctionOnSet, MapThenFoldSet, Summing, SumBody, Some

\* A choice from a set that is not empty is one of its elements.
LEMMA SomeIn == ASSUME NEW s, s # {} PROVE Some(s) \in s
  BY DEF Some

\* Solutions on a set and on a subset of it agree on the subset.
LEMMA SumUnique ==
    ASSUME NEW F, NEW S, IsFiniteSet(S), NEW T \in SUBSET S,
           NEW g, g = SumBody(F, S, g), NEW h, h = SumBody(F, T, h)
    PROVE  \A U \in SUBSET T : g[U] = h[U]
<1> DEFINE Bad == {U \in SUBSET T : g[U] # h[U]}
<1> SUFFICES ASSUME Bad # {} PROVE FALSE
  OBVIOUS
<1>1. IsFiniteSet(T)
  BY FS_Subset
<1>2. PICK U \in Bad : \A x \in U : U \ {x} \notin Bad
  <2>1. Bad \in SUBSET (SUBSET T)
    OBVIOUS
  <2> HIDE DEF Bad
  <2> QED
    BY <1>1, <2>1, MinimalSubset
<1>3. /\ g[U] = IF U = {} THEN 0 ELSE F[Some(U)] + g[U \ {Some(U)}]
      /\ h[U] = IF U = {} THEN 0 ELSE F[Some(U)] + h[U \ {Some(U)}]
  BY DEF SumBody
<1>4. CASE U = {}
  BY <1>3, <1>4
<1>5. CASE U # {}
  <2>1. Some(U) \in U
    BY <1>5, SomeIn
  <2>2. g[U \ {Some(U)}] = h[U \ {Some(U)}]
    BY <1>2, <2>1
  <2> QED
    BY <1>3, <1>5, <2>2
<1> QED
  BY <1>4, <1>5

\* Every finite set has one.
LEMMA SumExists ==
    ASSUME NEW F, NEW S, IsFiniteSet(S)
    PROVE  Summing(F, S) = SumBody(F, S, Summing(F, S))
<1> DEFINE Solved(T) == \E g : g = SumBody(F, T, g)
           Bad == {T \in SUBSET S : ~Solved(T)}
<1> SUFFICES Bad = {}
  BY DEF Summing
<1> SUFFICES ASSUME Bad # {} PROVE FALSE
  OBVIOUS
<1>1. PICK T \in Bad : IsFiniteSet(T) /\ \A U \in SUBSET T : U # T => U \notin Bad
  <2>1. Bad \in SUBSET (SUBSET S)
    OBVIOUS
  <2> HIDE DEF Bad
  <2> QED
    BY <2>1, MinimalSubset
<1>2. ASSUME NEW U \in SUBSET T, U # T
      PROVE  Summing(F, U) = SumBody(F, U, Summing(F, U))
  BY <1>1, <1>2 DEF Summing
<1> DEFINE G(U) == Summing(F, U)
           c == Some(T)
           h == [s \in SUBSET T |-> IF s = T THEN (IF T = {} THEN 0 ELSE F[c] + G(T \ {c})[T \ {c}])
                                    ELSE G(s)[s]]
<1>3. h = SumBody(F, T, h)
  <2> SUFFICES ASSUME NEW s \in SUBSET T
               PROVE  h[s] = IF s = {} THEN 0 ELSE F[Some(s)] + h[s \ {Some(s)}]
    BY Zenon DEF SumBody
  <2>1. CASE s = T
    <3>1. CASE T = {}
      BY <2>1, <3>1
    <3>2. CASE T # {}
      <4>1. c \in T
        BY <3>2, SomeIn
      <4>2. T \ {c} \in SUBSET T /\ T \ {c} # T
        BY <4>1
      <4>3. h[T \ {c}] = G(T \ {c})[T \ {c}]
        BY <4>2
      <4> QED
        BY <2>1, <3>2, <4>3
    <3> QED
      BY <3>1, <3>2
  <2>2. CASE s # T
    <3>1. h[s] = G(s)[s]
      BY <2>2
    <3>2. G(s) = SumBody(F, s, G(s))
      BY <1>2, <2>2
    <3>3. G(s)[s] = IF s = {} THEN 0 ELSE F[Some(s)] + G(s)[s \ {Some(s)}]
      <4> HIDE DEF G, h
      <4> QED
        BY <3>2 DEF SumBody
    <3>4. CASE s = {}
      BY <3>1, <3>3, <3>4
    <3>5. CASE s # {}
      <4> DEFINE u == s \ {Some(s)}
      <4>1. Some(s) \in s
        BY <3>5, SomeIn
      <4>2. u \in SUBSET s /\ u \in SUBSET T /\ u # T
        BY <4>1
      <4>3. h[u] = G(u)[u]
        BY <4>2
      <4>4. G(u) = SumBody(F, u, G(u))
        BY <1>2, <4>2
      <4>5. IsFiniteSet(s)
        BY <1>1, FS_Subset
      <4>6. G(s)[u] = G(u)[u]
        <5> HIDE DEF G, h, u
        <5> QED
          BY <3>2, <4>2, <4>4, <4>5, SumUnique
      <4> HIDE DEF G, h
      <4> QED
        BY <3>1, <3>3, <3>5, <4>3, <4>6
    <3> QED
      BY <3>4, <3>5
  <2> QED
    BY <2>1, <2>2
<1> HIDE DEF h
<1> QED
  BY <1>1, <1>3

-----------------------------------------------------------------------------
(* Sums.                                                                   *)

\* Nothing adds up to zero.
LEMMA SumEmpty == ASSUME NEW F PROVE SumFunctionOnSet(F, {}) = 0
<1>1. Summing(F, {}) = SumBody(F, {}, Summing(F, {}))
  BY SumExists, FS_EmptySet
<1>2. Summing(F, {})[{}] = 0
  BY <1>1 DEF SumBody
<1> QED
  BY <1>2, SumUnfold

\* The recursion of the fold, with the element that it takes first.
LEMMA SumFirst ==
    ASSUME NEW F, NEW S, IsFiniteSet(S), S # {}
    PROVE  SumFunctionOnSet(F, S) = F[Some(S)] + SumFunctionOnSet(F, S \ {Some(S)})
<1> DEFINE T == S \ {Some(S)}
           G == Summing(F, S)
           H == Summing(F, T)
<1>1. IsFiniteSet(T) /\ T \in SUBSET S
  BY FS_Subset
<1>2. G = SumBody(F, S, G) /\ H = SumBody(F, T, H)
  BY <1>1, SumExists
<1>3. G[T] = H[T]
  <2> HIDE DEF G, H, T
  <2> QED
    BY <1>1, <1>2, SumUnique
<1>4. G[S] = F[Some(S)] + G[T]
  <2> HIDE DEF G, H
  <2> QED
    BY <1>2 DEF SumBody
<1>5. SumFunctionOnSet(F, S) = G[S] /\ SumFunctionOnSet(F, T) = H[T]
  BY SumUnfold
<1> HIDE DEF G, H
<1> QED
  BY <1>3, <1>4, <1>5

\* A sum of natural numbers is one.
LEMMA SumNat ==
    ASSUME NEW F, NEW S, IsFiniteSet(S), \A x \in S : F[x] \in Nat
    PROVE  SumFunctionOnSet(F, S) \in Nat
<1> DEFINE Bad == {T \in SUBSET S : SumFunctionOnSet(F, T) \notin Nat}
<1> SUFFICES ASSUME Bad # {} PROVE FALSE
  OBVIOUS
<1>1. PICK T \in Bad : IsFiniteSet(T) /\ \A x \in T : T \ {x} \notin Bad
  <2>1. Bad \in SUBSET (SUBSET S)
    OBVIOUS
  <2> HIDE DEF Bad
  <2> QED
    BY <2>1, MinimalSubset
<1>2. T # {}
  BY SumEmpty
<1>3. Some(T) \in T /\ F[Some(T)] \in Nat
  BY <1>2, SomeIn
<1>4. SumFunctionOnSet(F, T \ {Some(T)}) \in Nat
  BY <1>1, <1>3
<1>5. SumFunctionOnSet(F, T) = F[Some(T)] + SumFunctionOnSet(F, T \ {Some(T)})
  BY <1>1, <1>2, SumFirst
<1> QED
  BY <1>3, <1>4, <1>5

\* Any element may be taken first.
LEMMA SumRemove ==
    ASSUME NEW F, NEW S, IsFiniteSet(S), \A x \in S : F[x] \in Nat, NEW a \in S
    PROVE  SumFunctionOnSet(F, S) = F[a] + SumFunctionOnSet(F, S \ {a})
<1> DEFINE sum(T) == SumFunctionOnSet(F, T)
           Bad == {T \in SUBSET S : \E x \in T : sum(T) # F[x] + sum(T \ {x})}
<1> SUFFICES ASSUME Bad # {} PROVE FALSE
  OBVIOUS
<1>1. PICK T \in Bad : IsFiniteSet(T) /\ \A x \in T : T \ {x} \notin Bad
  <2>1. Bad \in SUBSET (SUBSET S)
    OBVIOUS
  <2> HIDE DEF Bad
  <2> QED
    BY <2>1, MinimalSubset
<1>2. PICK x \in T : sum(T) # F[x] + sum(T \ {x})
  BY <1>1
<1> DEFINE c == Some(T)
<1>3. c \in T
  BY SomeIn
<1>4. sum(T) = F[c] + sum(T \ {c})
  BY <1>1, <1>2, SumFirst
<1>5. x # c
  BY <1>2, <1>4
<1>6. x \in T \ {c} /\ c \in T \ {x}
  BY <1>3, <1>5
<1>7. \A U \in SUBSET S : IsFiniteSet(U) /\ \A y \in U : F[y] \in Nat
  BY FS_Subset
<1>8. \A U \in SUBSET S : sum(U) \in Nat
  <2> SUFFICES ASSUME NEW U \in SUBSET S PROVE sum(U) \in Nat
    OBVIOUS
  <2> QED
    BY <1>7, SumNat
<1>9. T \ {c} \notin Bad /\ T \ {x} \notin Bad
  BY <1>1, <1>3
<1>10. /\ sum(T \ {c}) = F[x] + sum((T \ {c}) \ {x})
       /\ sum(T \ {x}) = F[c] + sum((T \ {x}) \ {c})
  BY <1>6, <1>9
<1>11. (T \ {c}) \ {x} = (T \ {x}) \ {c}
  OBVIOUS
<1>12. F[x] \in Nat /\ F[c] \in Nat /\ sum((T \ {x}) \ {c}) \in Nat
  BY <1>3, <1>7, <1>8
<1>13. sum(T) = F[c] + (F[x] + sum((T \ {x}) \ {c}))
  BY <1>4, <1>10, <1>11
<1>14. F[x] + sum(T \ {x}) = F[x] + (F[c] + sum((T \ {x}) \ {c}))
  BY <1>10
<1>15. F[c] + (F[x] + sum((T \ {x}) \ {c})) = F[x] + (F[c] + sum((T \ {x}) \ {c}))
  <2> HIDE DEF sum, c, Bad
  <2> QED
    BY <1>12
<1> QED
  BY <1>2, <1>13, <1>14, <1>15, Zenon

\* An element that is new adds its value.
LEMMA SumAdd ==
    ASSUME NEW F, NEW S, IsFiniteSet(S), NEW a, a \notin S,
           \A x \in S \cup {a} : F[x] \in Nat
    PROVE  SumFunctionOnSet(F, S \cup {a}) = F[a] + SumFunctionOnSet(F, S)
<1>1. IsFiniteSet(S \cup {a})
  BY FS_AddElement
<1>2. (S \cup {a}) \ {a} = S
  OBVIOUS
<1> QED
  BY <1>1, <1>2, SumRemove

\* One element's sum is its value.
LEMMA SumOne ==
    ASSUME NEW F, NEW a, F[a] \in Nat
    PROVE  SumFunctionOnSet(F, {a}) = F[a]
<1>1. SumFunctionOnSet(F, {a}) = F[a] + SumFunctionOnSet(F, {a} \ {a})
  BY SumRemove, FS_Singleton
<1>2. {a} \ {a} = {}
  OBVIOUS
<1> QED
  BY <1>1, <1>2, SumEmpty

\* A sum depends on the values on its set only.
LEMMA SumSame ==
    ASSUME NEW F, NEW G, NEW S, IsFiniteSet(S), \A x \in S : F[x] = G[x]
    PROVE  SumFunctionOnSet(F, S) = SumFunctionOnSet(G, S)
<1> DEFINE Bad == {T \in SUBSET S : SumFunctionOnSet(F, T) # SumFunctionOnSet(G, T)}
<1> SUFFICES ASSUME Bad # {} PROVE FALSE
  OBVIOUS
<1>1. PICK T \in Bad : IsFiniteSet(T) /\ \A x \in T : T \ {x} \notin Bad
  <2>1. Bad \in SUBSET (SUBSET S)
    OBVIOUS
  <2> HIDE DEF Bad
  <2> QED
    BY <2>1, MinimalSubset
<1>2. T # {}
  BY SumEmpty
<1>3. Some(T) \in T /\ F[Some(T)] = G[Some(T)]
  BY <1>2, SomeIn
<1>4. SumFunctionOnSet(F, T \ {Some(T)}) = SumFunctionOnSet(G, T \ {Some(T)})
  BY <1>1, <1>3
<1> QED
  BY <1>1, <1>2, <1>3, <1>4, SumFirst

\* Larger values, a larger sum.
LEMMA SumLeq ==
    ASSUME NEW F, NEW G, NEW S, IsFiniteSet(S),
           \A x \in S : F[x] \in Nat /\ G[x] \in Nat /\ F[x] <= G[x]
    PROVE  SumFunctionOnSet(F, S) <= SumFunctionOnSet(G, S)
<1> DEFINE Bad == {T \in SUBSET S : ~(SumFunctionOnSet(F, T) <= SumFunctionOnSet(G, T))}
<1> SUFFICES ASSUME Bad # {} PROVE FALSE
  OBVIOUS
<1>1. PICK T \in Bad : IsFiniteSet(T) /\ \A x \in T : T \ {x} \notin Bad
  <2>1. Bad \in SUBSET (SUBSET S)
    OBVIOUS
  <2> HIDE DEF Bad
  <2> QED
    BY <2>1, MinimalSubset
<1>2. T # {}
  BY SumEmpty
<1>3. Some(T) \in T
  BY <1>2, SomeIn
<1> DEFINE U == T \ {Some(T)}
<1>4. SumFunctionOnSet(F, U) <= SumFunctionOnSet(G, U)
  BY <1>1, <1>3
<1>5. IsFiniteSet(U) /\ U \in SUBSET S
  BY <1>1, FS_Subset
<1>6. SumFunctionOnSet(F, U) \in Nat /\ SumFunctionOnSet(G, U) \in Nat
  BY <1>5, SumNat
<1>7. /\ SumFunctionOnSet(F, T) = F[Some(T)] + SumFunctionOnSet(F, U)
      /\ SumFunctionOnSet(G, T) = G[Some(T)] + SumFunctionOnSet(G, U)
  BY <1>1, <1>2, SumFirst
<1>8. F[Some(T)] \in Nat /\ G[Some(T)] \in Nat /\ F[Some(T)] <= G[Some(T)]
  BY <1>3
<1>9. ~(SumFunctionOnSet(F, T) <= SumFunctionOnSet(G, T))
  BY <1>1
<1> HIDE DEF U, Bad
<1> QED
  BY <1>4, <1>6, <1>7, <1>8, <1>9

\* A set and the rest of its superset.
LEMMA SumSplit ==
    ASSUME NEW F, NEW S, IsFiniteSet(S), \A x \in S : F[x] \in Nat, NEW T \in SUBSET S
    PROVE  SumFunctionOnSet(F, S) = SumFunctionOnSet(F, T) + SumFunctionOnSet(F, S \ T)
<1> DEFINE sum(A) == SumFunctionOnSet(F, A)
           Bad == {A \in SUBSET T : sum(S) # sum(A) + sum(S \ A)}
<1>1. \A U \in SUBSET S : IsFiniteSet(U) /\ sum(U) \in Nat
  <2> SUFFICES ASSUME NEW U \in SUBSET S PROVE IsFiniteSet(U) /\ sum(U) \in Nat
    OBVIOUS
  <2> QED
    BY FS_Subset, SumNat
<1> SUFFICES ASSUME Bad # {} PROVE FALSE
  OBVIOUS
<1>2. PICK A \in Bad : \A x \in A : A \ {x} \notin Bad
  <2>1. Bad \in SUBSET (SUBSET S)
    OBVIOUS
  <2> HIDE DEF Bad
  <2> QED
    BY <2>1, MinimalSubset
<1>3. A # {}
  <2> SUFFICES ASSUME A = {} PROVE FALSE
    OBVIOUS
  <2>1. S \ A = S
    OBVIOUS
  <2>2. sum(A) = 0 /\ sum(S) \in Nat
    BY <1>1, SumEmpty
  <2>3. sum(S) # sum(A) + sum(S \ A)
    BY <1>2
  <2> HIDE DEF sum
  <2> QED
    BY <2>1, <2>2, <2>3
<1>4. PICK a \in A : TRUE
  BY <1>3
<1>5. sum(S) = sum(A \ {a}) + sum(S \ (A \ {a}))
  BY <1>2, <1>4
<1>6. sum(A) = F[a] + sum(A \ {a})
  BY <1>1, <1>4, SumRemove
<1>7. sum(S \ (A \ {a})) = F[a] + sum(S \ A)
  <2>1. (S \ (A \ {a})) \ {a} = S \ A /\ a \in S \ (A \ {a})
    BY <1>4
  <2> QED
    BY <1>1, <2>1, SumRemove
<1>8. F[a] \in Nat /\ sum(A \ {a}) \in Nat /\ sum(S \ A) \in Nat
  BY <1>1
<1>9. sum(S) # sum(A) + sum(S \ A)
  BY <1>2
<1> HIDE DEF sum
<1> QED
  BY <1>5, <1>6, <1>7, <1>8, <1>9

\* More elements, a larger sum.
LEMMA SumSubset ==
    ASSUME NEW F, NEW S, IsFiniteSet(S), \A x \in S : F[x] \in Nat, NEW T \in SUBSET S
    PROVE  SumFunctionOnSet(F, T) <= SumFunctionOnSet(F, S)
<1>1. IsFiniteSet(T) /\ IsFiniteSet(S \ T)
  BY FS_Subset
<1>2. SumFunctionOnSet(F, T) \in Nat /\ SumFunctionOnSet(F, S \ T) \in Nat
  BY <1>1, SumNat
<1> QED
  BY <1>2, SumSplit

\* Different names for the elements leave the sum alone.
LEMMA SumRenamed ==
    ASSUME NEW F, NEW G, NEW m, NEW S, IsFiniteSet(S),
           \A x, y \in S : m[x] = m[y] => x = y,
           \A x \in S : F[x] = G[m[x]] /\ F[x] \in Nat
    PROVE  SumFunctionOnSet(F, S) = SumFunctionOnSet(G, {m[x] : x \in S})
<1> DEFINE img(T) == {m[x] : x \in T}
           Bad == {T \in SUBSET S : SumFunctionOnSet(F, T) # SumFunctionOnSet(G, img(T))}
<1> SUFFICES ASSUME Bad # {} PROVE FALSE
  OBVIOUS
<1>1. PICK T \in Bad : IsFiniteSet(T) /\ \A x \in T : T \ {x} \notin Bad
  <2>1. Bad \in SUBSET (SUBSET S)
    OBVIOUS
  <2> HIDE DEF Bad
  <2> QED
    BY <2>1, MinimalSubset
<1>2. T # {}
  <2> SUFFICES ASSUME T = {} PROVE FALSE
    OBVIOUS
  <2>1. img(T) = {}
    OBVIOUS
  <2> QED
    BY <2>1, SumEmpty
<1>3. PICK a \in T : TRUE
  BY <1>2
<1> DEFINE U == T \ {a}
<1>4. SumFunctionOnSet(F, U) = SumFunctionOnSet(G, img(U))
  BY <1>1, <1>3
<1>5. IsFiniteSet(U) /\ IsFiniteSet(img(U))
  <2>1. IsFiniteSet(U)
    BY <1>1, FS_Subset
  <2>2. [x \in U |-> m[x]] \in Surjection(U, img(U))
    BY DEF Surjection
  <2> QED
    BY <2>1, <2>2, FS_Surjection
<1>6. m[a] \notin img(U) /\ img(T) = img(U) \cup {m[a]}
  BY <1>3
<1>7. \A y \in img(U) \cup {m[a]} : G[y] \in Nat
  BY <1>3
<1>8. SumFunctionOnSet(G, img(T)) = G[m[a]] + SumFunctionOnSet(G, img(U))
  <2> HIDE DEF img, U, Bad
  <2> QED
    BY <1>5, <1>6, <1>7, SumAdd
<1>9. SumFunctionOnSet(F, T) = F[a] + SumFunctionOnSet(F, U)
  BY <1>1, <1>3, SumRemove
<1>10. F[a] = G[m[a]] /\ SumFunctionOnSet(F, T) # SumFunctionOnSet(G, img(T))
  BY <1>1, <1>3
<1> HIDE DEF img, U, Bad
<1> QED
  BY <1>4, <1>8, <1>9, <1>10

\* The sum of two functions is the sum of their sums.
LEMMA SumPlus ==
    ASSUME NEW F, NEW G, NEW H, NEW S, IsFiniteSet(S),
           \A x \in S : F[x] \in Nat /\ G[x] \in Nat /\ H[x] = F[x] + G[x]
    PROVE  SumFunctionOnSet(H, S) = SumFunctionOnSet(F, S) + SumFunctionOnSet(G, S)
<1> DEFINE f(T) == SumFunctionOnSet(F, T)
           g(T) == SumFunctionOnSet(G, T)
           h(T) == SumFunctionOnSet(H, T)
           Bad == {T \in SUBSET S : h(T) # f(T) + g(T)}
<1> SUFFICES ASSUME Bad # {} PROVE FALSE
  OBVIOUS
<1>1. PICK T \in Bad : IsFiniteSet(T) /\ \A x \in T : T \ {x} \notin Bad
  <2>1. Bad \in SUBSET (SUBSET S)
    OBVIOUS
  <2> HIDE DEF Bad
  <2> QED
    BY <2>1, MinimalSubset
<1>2. T # {}
  <2>1. f({}) = 0 /\ g({}) = 0 /\ h({}) = 0
    BY SumEmpty
  <2>2. h(T) # f(T) + g(T)
    OBVIOUS
  <2> HIDE DEF f, g, h
  <2> QED
    BY <2>1, <2>2, 0 = 0 + 0
<1>3. Some(T) \in T
  BY <1>2, SomeIn
<1> DEFINE U == T \ {Some(T)}
           c == Some(T)
<1>4. h(U) = f(U) + g(U)
  BY <1>1, <1>3
<1>5. IsFiniteSet(U) /\ U \in SUBSET S
  BY <1>1, FS_Subset
<1>6. f(U) \in Nat /\ g(U) \in Nat
  BY <1>5, SumNat
<1>7. /\ f(T) = F[c] + f(U) /\ g(T) = G[c] + g(U) /\ h(T) = H[c] + h(U)
  BY <1>1, <1>2, SumFirst
<1>8. F[c] \in Nat /\ G[c] \in Nat /\ H[c] = F[c] + G[c]
  BY <1>3
<1>9. h(T) # f(T) + g(T)
  BY <1>1
<1>10. ASSUME NEW p \in Nat, NEW q \in Nat, NEW x \in Nat, NEW y \in Nat
       PROVE  (p + q) + (x + y) = (p + x) + (q + y)
  OBVIOUS
<1>11. h(T) = (F[c] + G[c]) + (f(U) + g(U))
  BY <1>4, <1>7, <1>8
<1>12. f(T) + g(T) = (F[c] + f(U)) + (G[c] + g(U))
  BY <1>7
<1> HIDE DEF U, c, Bad, f, g, h
<1> QED
  BY <1>6, <1>8, <1>9, <1>10, <1>11, <1>12

\* Values that grow on a part of the set.
LEMMA SumGrows ==
    ASSUME NEW F, NEW G, NEW H, NEW S, IsFiniteSet(S), NEW C \in SUBSET S,
           \A x \in S : F[x] \in Nat,
           \A x \in C : G[x] \in Nat /\ H[x] = F[x] + G[x],
           \A x \in S \ C : H[x] = F[x]
    PROVE  SumFunctionOnSet(H, S) = SumFunctionOnSet(F, S) + SumFunctionOnSet(G, C)
<1>1. IsFiniteSet(C) /\ IsFiniteSet(S \ C)
  BY FS_Subset
<1>2. \A x \in S : H[x] \in Nat
  OBVIOUS
<1>3. SumFunctionOnSet(H, S) = SumFunctionOnSet(H, C) + SumFunctionOnSet(H, S \ C)
  BY <1>2, SumSplit
<1>4. SumFunctionOnSet(F, S) = SumFunctionOnSet(F, C) + SumFunctionOnSet(F, S \ C)
  BY SumSplit
<1>5. SumFunctionOnSet(H, S \ C) = SumFunctionOnSet(F, S \ C)
  BY <1>1, SumSame
<1>6. SumFunctionOnSet(H, C) = SumFunctionOnSet(F, C) + SumFunctionOnSet(G, C)
  BY <1>1, SumPlus
<1>7. /\ SumFunctionOnSet(F, C) \in Nat /\ SumFunctionOnSet(F, S \ C) \in Nat
      /\ SumFunctionOnSet(G, C) \in Nat
  BY <1>1, SumNat
<1> QED
  BY <1>3, <1>4, <1>5, <1>6, <1>7
=============================================================================
