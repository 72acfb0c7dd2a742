---------------------------- MODULE TxPoolProofs ----------------------------
(***************************************************************************)
(* Proofs about TxPool: the fee accounts of the pool are exact, what is    *)
(* proposed passes verification, and no transaction is executed before its *)
(* turn.  They rest on one invariant, PoolInv, which relates the list, the *)
(* map and the accounts of the pool with the ledger.                       *)
(***************************************************************************)
EXTENDS TxPool, WellFoundedInduction, FiniteSetTheorems, SequenceTheorems, TLAPS

---------------------------------------------------------------------------
(* Sums over finite sets *)

(* A set of naturals that is not empty has a least element.                *)
LEMMA LeastIs ==
  ASSUME NEW B, B \subseteq Nat, B # {}
  PROVE  \E m \in B : \A k \in B : m <= k
  <1>1. PICK m \in B : \A k \in B : ~(<<k, m>> \in OpToRel(<, Nat))
    BY NatLessThanWellFounded, WFMin
  <1>2. ASSUME NEW k \in B PROVE m <= k
    <2>1. <<k, m>> \in Nat \X Nat
      OBVIOUS
    <2>2. k < m => <<k, m>> \in OpToRel(<, Nat)
      BY <2>1, Zenon DEF OpToRel
    <2>3. ~(k < m)
      BY <1>1, <2>2
    <2> QED BY <2>3
  <1> QED BY <1>2

(* Among some subsets of a finite set there is a smallest.                 *)
LEMMA SmallestIs ==
  ASSUME NEW S, IsFiniteSet(S), NEW Bad, Bad \subseteq SUBSET S, Bad # {}
  PROVE  \E s \in Bad : \A t \in Bad : Cardinality(s) <= Cardinality(t)
  <1> DEFINE B == {Cardinality(s) : s \in Bad}
  <1>1. \A s \in Bad : Cardinality(s) \in Nat
    BY FS_Subset, FS_CardinalityType
  <1>2. B \subseteq Nat /\ B # {}
    BY <1>1
  <1>3. PICK m \in B : \A k \in B : m <= k
    <2> HIDE DEF B
    <2> QED BY <1>2, LeastIs
  <1>4. PICK s \in Bad : m = Cardinality(s)
    OBVIOUS
  <1> QED BY <1>3, <1>4

LEMMA SmallerIs ==
  ASSUME NEW S, IsFiniteSet(S), NEW x \in S
  PROVE  /\ IsFiniteSet(S \ {x}) /\ Cardinality(S) \in Nat /\ Cardinality(S \ {x}) \in Nat
         /\ Cardinality(S \ {x}) + 1 = Cardinality(S)
  BY FS_RemoveElement, FS_CardinalityType

(* What MapThenSumSet is: the value at S of a function on the subsets.     *)
Pick(s) == CHOOSE x \in s : TRUE
Rule(g, f, s) == IF s = {} THEN 0 ELSE f[Pick(s)] + g[s \ {Pick(s)}]
IsSummer(g, f, S) == g = [s \in SUBSET S |-> Rule(g, f, s)]
Sums(g, f, S) == \A s \in SUBSET S : g[s] = Rule(g, f, s)
Sum(f, S) == (CHOOSE g : IsSummer(g, f, S))[S]

LEMMA SummerIs ==
  ASSUME NEW f, NEW S, IsFiniteSet(S)
  PROVE  \E g : IsSummer(g, f, S)
  <1> DEFINE Part(n) == {s \in SUBSET S : Cardinality(s) <= n}
             Upto(n, h) == h = [s \in SUBSET S |-> h[s]] /\ \A s \in Part(n) : h[s] = Rule(h, f, s)
             Bad == {n \in Nat : ~\E h : Upto(n, h)}
  <1>1. \A s \in SUBSET S : IsFiniteSet(s) /\ Cardinality(s) \in Nat
    BY FS_Subset, FS_CardinalityType
  <1>2. \A s \in SUBSET S : s # {} => Pick(s) \in s
    BY DEF Pick
  <1>3. Bad = {}
    <2> SUFFICES ASSUME Bad # {} PROVE FALSE
      OBVIOUS
    <2>1. PICK n \in Bad : \A k \in Bad : n <= k
      <3>1. Bad \subseteq Nat
        OBVIOUS
      <3> HIDE DEF Bad
      <3> QED BY <3>1, LeastIs
    <2>2. CASE n = 0
      <3> DEFINE z == [s \in SUBSET S |-> 0]
      <3>1. \A s \in Part(0) : s = {}
        BY <1>1, FS_EmptySet
      <3>2. Upto(0, z)
        BY <3>1 DEF Rule
      <3> QED BY <2>1, <2>2, <3>2
    <2>3. CASE n # 0
      <3>1. n - 1 \in Nat /\ n - 1 \notin Bad
        <4>1. n \in Nat /\ n - 1 \in Nat /\ ~(n <= n - 1)
          BY <2>3
        <4> QED BY <2>1, <4>1
      <3>2. PICK h : Upto(n - 1, h)
        BY <3>1
      <3> DEFINE e == [s \in SUBSET S |-> Rule(h, f, s)]
      <3>3. \A s \in SUBSET S : e[s] = Rule(h, f, s)
        OBVIOUS
      <3>4. ASSUME NEW s \in Part(n) PROVE e[s] = Rule(e, f, s)
        <4>1. CASE s = {}
          BY <4>1 DEF Rule
        <4>2. CASE s # {}
          <5> DEFINE t == s \ {Pick(s)}
          <5>1. t \in SUBSET S /\ Cardinality(t) <= n - 1
            BY <1>1, <1>2, <4>2, SmallerIs
          <5>2. h[t] = Rule(h, f, t)
            BY <3>2, <5>1
          <5>3. e[t] = h[t]
            BY <3>3, <5>1, <5>2
          <5>4. e[s] = f[Pick(s)] + h[t]
            BY <4>2 DEF Rule
          <5>5. Rule(e, f, s) = f[Pick(s)] + e[t]
            BY <4>2 DEF Rule
          <5> QED BY <5>3, <5>4, <5>5
        <4> QED BY <4>1, <4>2
      <3>5. Upto(n, e)
        BY <3>4
      <3> HIDE DEF e, Upto
      <3> QED BY <3>5
    <2> QED BY <2>2, <2>3
  <1>4. Cardinality(S) \in Nat
    BY FS_CardinalityType
  <1>5. PICK h : Upto(Cardinality(S), h)
    BY <1>3, <1>4
  <1>6. \A s \in SUBSET S : s \in Part(Cardinality(S))
    BY FS_Subset
  <1>7. IsSummer(h, f, S)
    BY <1>5, <1>6 DEF IsSummer
  <1> QED BY <1>7

(* The function that Sum chooses, at every subset.                         *)
LEMMA SumRule ==
  ASSUME NEW f, NEW S, IsFiniteSet(S)
  PROVE  \E g : /\ Sum(f, S) = g[S]
                /\ Sums(g, f, S)
  <1>1. PICK g : g = CHOOSE h : IsSummer(h, f, S)
    OBVIOUS
  <1>2. IsSummer(g, f, S)
    BY <1>1, SummerIs
  <1>3. Sums(g, f, S)
    BY <1>2 DEF IsSummer, Sums
  <1> QED BY <1>1, <1>3 DEF Sum

(* Two such functions agree where the functions they sum up do.            *)
LEMMA SummersAgree ==
  ASSUME NEW f, NEW e, NEW S, IsFiniteSet(S), \A x \in S : f[x] = e[x],
         NEW g, Sums(g, f, S),
         NEW h, Sums(h, e, S)
  PROVE  g[S] = h[S]
  <1> DEFINE Bad == {s \in SUBSET S : g[s] # h[s]}
  <1> SUFFICES ASSUME Bad # {} PROVE FALSE
    OBVIOUS
  <1>1. PICK s \in Bad : \A t \in Bad : Cardinality(s) <= Cardinality(t)
    <2>1. Bad \subseteq SUBSET S
      OBVIOUS
    <2> HIDE DEF Bad
    <2> QED BY <2>1, SmallestIs
  <1>2. CASE s = {}
    BY <1>2 DEF Rule, Sums
  <1>3. CASE s # {}
    <2> DEFINE x == Pick(s)
    <2>1. x \in s
      BY <1>3 DEF Pick
    <2>2. IsFiniteSet(s)
      BY FS_Subset
    <2>3. s \ {x} \in SUBSET S /\ ~(Cardinality(s) <= Cardinality(s \ {x}))
      BY <2>1, <2>2, SmallerIs
    <2>4. g[s \ {x}] = h[s \ {x}]
      BY <1>1, <2>3
    <2>5. g[s] = f[x] + g[s \ {x}] /\ h[s] = e[x] + h[s \ {x}]
      BY <1>3 DEF Rule, Sums
    <2> QED BY <2>1, <2>4, <2>5
  <1> QED BY <1>2, <1>3

LEMMA SumSub ==
  ASSUME NEW f, NEW S, IsFiniteSet(S), NEW g, Sums(g, f, S), NEW T \in SUBSET S
  PROVE  Sum(f, T) = g[T]
  <1>1. IsFiniteSet(T)
    BY FS_Subset
  <1>2. PICK h : Sum(f, T) = h[T] /\ Sums(h, f, T)
    BY <1>1, SumRule
  <1>3. Sums(g, f, T)
    BY DEF Sums
  <1> QED BY <1>1, <1>2, <1>3, SummersAgree

LEMMA SumNone == ASSUME NEW f PROVE Sum(f, {}) = 0
  <1>1. PICK g : Sum(f, {}) = g[{}] /\ Sums(g, f, {})
    BY FS_EmptySet, SumRule
  <1> QED BY <1>1 DEF Rule, Sums

(* One summand, whichever, taken out of the sum.                           *)
LEMMA SumOut ==
  ASSUME NEW f, NEW S, IsFiniteSet(S), \A x \in S : f[x] \in Int
  PROVE  Sum(f, S) \in Int /\ \A x \in S : Sum(f, S) = f[x] + Sum(f, S \ {x})
  <1>1. PICK g : Sum(f, S) = g[S] /\ Sums(g, f, S)
    BY SumRule
  <1> DEFINE Fit(s) == g[s] \in Int /\ \A x \in s : g[s] = f[x] + g[s \ {x}]
             Bad == {s \in SUBSET S : ~Fit(s)}
  <1>2. Bad = {}
    <2> SUFFICES ASSUME Bad # {} PROVE FALSE
      OBVIOUS
    <2>1. PICK s \in Bad : \A t \in Bad : Cardinality(s) <= Cardinality(t)
      <3>1. Bad \subseteq SUBSET S
        OBVIOUS
      <3> HIDE DEF Bad
      <3> QED BY <3>1, SmallestIs
    <2>2. CASE s = {}
      <3>1. s \in SUBSET S /\ ~Fit(s)
        OBVIOUS
      <3>2. g[s] = 0
        BY <1>1, <2>2, <3>1 DEF Rule, Sums
      <3> QED BY <2>2, <3>1, <3>2
    <2>3. CASE s # {}
      <3> DEFINE y == Pick(s)
      <3>1. y \in s /\ IsFiniteSet(s) /\ s \subseteq S
        BY <2>3, FS_Subset DEF Pick
      <3>2. ASSUME NEW x \in s PROVE s \ {x} \in SUBSET S /\ Fit(s \ {x})
        <4>1. s \ {x} \in SUBSET S /\ ~(Cardinality(s) <= Cardinality(s \ {x}))
          BY <3>1, SmallerIs
        <4> QED BY <2>1, <4>1
      <3>3. g[s] = f[y] + g[s \ {y}]
        BY <1>1, <2>3 DEF Rule, Sums
      <3> HIDE DEF y
      <3>4. g[s] \in Int
        <4>1. g[s \ {y}] \in Int /\ f[y] \in Int
          BY <3>1, <3>2
        <4> QED BY <3>3, <4>1
      <3>5. ASSUME NEW x \in s PROVE g[s] = f[x] + g[s \ {x}]
        <4>1. CASE x = y
          BY <3>3, <4>1
        <4>2. CASE x # y
          <5>1. x \in s \ {y} /\ y \in s \ {x} /\ (s \ {y}) \ {x} = (s \ {x}) \ {y}
            BY <3>1, <4>2
          <5>2. g[s \ {y}] = f[x] + g[(s \ {y}) \ {x}]
            BY <3>1, <3>2, <5>1
          <5>3. g[s \ {x}] = f[y] + g[(s \ {x}) \ {y}]
            BY <3>2, <5>1
          <5>4. f[x] \in Int /\ f[y] \in Int
            BY <3>1
          <5>5. (s \ {x}) \ {y} \in SUBSET S
            BY <3>1
          <5>6. g[(s \ {x}) \ {y}] \in Int
            <6>1. (s \ {x}) \ {y} \notin Bad
              <7>1. IsFiniteSet(s \ {x}) /\ Cardinality((s \ {x}) \ {y}) \in Nat
                BY <3>1, <5>1, SmallerIs
              <7>2. ~(Cardinality(s) <= Cardinality((s \ {x}) \ {y}))
                <8>1. Cardinality((s \ {x}) \ {y}) + 1 = Cardinality(s \ {x})
                  BY <5>1, <7>1, SmallerIs
                <8>2. Cardinality(s \ {x}) + 1 = Cardinality(s) /\ Cardinality(s \ {x}) \in Nat
                  BY <3>1, SmallerIs
                <8> QED BY <7>1, <8>1, <8>2
              <7> HIDE DEF Bad
              <7> QED BY <2>1, <7>2
            <6> QED BY <5>5, <6>1
          <5>7. g[s] = f[y] + (f[x] + g[(s \ {x}) \ {y}])
            BY <3>3, <5>1, <5>2
          <5> HIDE DEF Fit, Bad
          <5> QED BY <5>3, <5>4, <5>6, <5>7
        <4> QED BY <4>1, <4>2
      <3> QED BY <3>4, <3>5
    <2> QED BY <2>2, <2>3
  <1>3. Fit(S)
    BY <1>2
  <1>4. \A x \in S : Sum(f, S \ {x}) = g[S \ {x}]
    BY <1>1, SumSub
  <1> QED BY <1>1, <1>3, <1>4


(* Summands that are not negative: a part has a smaller sum.               *)
LEMMA SumMore ==
  ASSUME NEW f, NEW T, IsFiniteSet(T), \A x \in T : f[x] \in Int /\ f[x] >= 0,
         NEW S, S \subseteq T
  PROVE  Sum(f, S) <= Sum(f, T)
  <1> DEFINE Bad == {s \in SUBSET T : S \subseteq s /\ ~(Sum(f, S) <= Sum(f, s))}
  <1> SUFFICES ASSUME Bad # {} PROVE FALSE
    OBVIOUS
  <1>1. PICK s \in Bad : \A t \in Bad : Cardinality(s) <= Cardinality(t)
    <2>1. Bad \subseteq SUBSET T
      OBVIOUS
    <2> HIDE DEF Bad
    <2> QED BY <2>1, SmallestIs
  <1>2. IsFiniteSet(s) /\ s \subseteq T /\ S \subseteq s /\ ~(Sum(f, S) <= Sum(f, s)) /\ IsFiniteSet(S)
    BY FS_Subset
  <1>3. Sum(f, S) \in Int /\ Sum(f, s) \in Int
    BY <1>2, SumOut
  <1>4. PICK x \in s : x \notin S
    <2>1. s # S
      BY <1>2, <1>3
    <2> QED BY <1>2, <2>1
  <1>5. s \ {x} \in SUBSET T /\ ~(Cardinality(s) <= Cardinality(s \ {x})) /\ IsFiniteSet(s \ {x})
    <2>1. IsFiniteSet(s)
      BY <1>2
    <2>2. IsFiniteSet(s \ {x}) /\ ~(Cardinality(s) <= Cardinality(s \ {x}))
      <3> HIDE DEF Bad
      <3> QED BY <2>1, SmallerIs
    <2> QED BY <1>2, <2>2
  <1>6. S \subseteq s \ {x}
    BY <1>2, <1>4
  <1>7. Sum(f, S) <= Sum(f, s \ {x})
    BY <1>1, <1>5, <1>6
  <1>8. Sum(f, s) = f[x] + Sum(f, s \ {x}) /\ Sum(f, s \ {x}) \in Int
    BY <1>2, <1>5, SumOut
  <1>9. f[x] \in Int /\ f[x] >= 0
    BY <1>2
  <1> HIDE DEF Bad
  <1> QED BY <1>2, <1>3, <1>7, <1>8, <1>9

LEMMA ImageFinite == ASSUME NEW S, IsFiniteSet(S), NEW q PROVE IsFiniteSet({q[i] : i \in S})
  <1> DEFINE T == {q[i] : i \in S}
             f == [i \in S |-> q[i]]
  <1>1. f \in Surjection(S, T)
    BY DEF Surjection
  <1> QED BY <1>1, FS_Surjection

(* The sum over different places is the sum over what is there.            *)
LEMMA SumImage ==
  ASSUME NEW q, NEW S, IsFiniteSet(S), \A i, j \in S : q[i] = q[j] => i = j,
         NEW f, NEW e, \A i \in S : e[i] = f[q[i]] /\ e[i] \in Int
  PROVE  Sum(e, S) = Sum(f, {q[i] : i \in S})
  <1> DEFINE Img(s) == {q[i] : i \in s}
             Bad == {s \in SUBSET S : Sum(e, s) # Sum(f, Img(s))}
  <1> SUFFICES ASSUME Bad # {} PROVE FALSE
    OBVIOUS
  <1>1. PICK s \in Bad : \A t \in Bad : Cardinality(s) <= Cardinality(t)
    <2>1. Bad \subseteq SUBSET S
      OBVIOUS
    <2> HIDE DEF Bad
    <2> QED BY <2>1, SmallestIs
  <1>2. IsFiniteSet(s) /\ s \subseteq S /\ Sum(e, s) # Sum(f, Img(s))
    BY FS_Subset
  <1>3. CASE s = {}
    <2>1. Img(s) = {}
      BY <1>3
    <2> HIDE DEF Img, Bad
    <2> QED BY <1>2, <1>3, <2>1, SumNone
  <1>4. CASE s # {}
    <2>1. PICK x \in s : TRUE
      BY <1>4
    <2>2. s \ {x} \in SUBSET S /\ ~(Cardinality(s) <= Cardinality(s \ {x})) /\ IsFiniteSet(s \ {x})
      BY <1>2, SmallerIs
    <2>3. Sum(e, s \ {x}) = Sum(f, Img(s \ {x}))
      BY <1>1, <2>2
    <2>4. Sum(e, s) = e[x] + Sum(e, s \ {x})
      BY <1>2, SumOut
    <2>5. Img(s) \ {q[x]} = Img(s \ {x}) /\ q[x] \in Img(s)
      BY <1>2
    <2>6. IsFiniteSet(Img(s)) /\ \A y \in Img(s) : f[y] \in Int
      BY <1>2, ImageFinite
    <2>7. e[x] = f[q[x]]
      BY <1>2
    <2> HIDE DEF Img, Bad
    <2>8. Sum(f, Img(s)) = f[q[x]] + Sum(f, Img(s) \ {q[x]})
      BY <2>5, <2>6, SumOut
    <2> QED BY <1>2, <2>3, <2>4, <2>5, <2>7, <2>8
  <1> QED BY <1>3, <1>4


---------------------------------------------------------------------------
(* Loops over sequences *)

(* The loops of RemoveStale, of getVerifiedTx and of storeBlock: what they *)
(* start from and what an iteration does.                                  *)
Begin == [txes |-> <<>>, fees |-> NoFees]
Take(txx, t, map) == IF t \in map THEN Append(txx, t) ELSE txx
Standing == [nonce |-> nonce, balance |-> balance]
First(c) == IF c.loop = "stale" THEN Begin ELSE IF c.loop = "take" THEN <<>> ELSE Standing
Pass(c, acc, t) ==
  IF c.loop = "stale" THEN Filter(acc, t, c.bal, c.drop)
  ELSE IF c.loop = "take" THEN Take(acc, t, c.map) ELSE Execute(acc, t, c.ok, c.left)

(* What FoldLeft is for them: the value at all places of the sequence of a *)
(* function on the sets of places.                                         *)
LoopRule(g, q, c, s) == IF s = {} THEN First(c) ELSE Pass(c, g[s \ {Max(s)}], q[Max(s)])
IsLoop(g, q, c) == g = [s \in SUBSET DOMAIN q |-> LoopRule(g, q, c, s)]

LEMMA MaxIs ==
  ASSUME NEW n \in Nat, NEW s, s \subseteq 1 .. n, s # {}
  PROVE  Max(s) \in s /\ \A y \in s : y <= Max(s)
  <1> DEFINE B == {n - k : k \in s}
  <1>1. B \subseteq Nat /\ B # {}
    <2>1. \A k \in s : n - k \in Nat
      <3>1. \A k \in 1 .. n : n - k \in Nat
        OBVIOUS
      <3> QED BY <3>1
    <2> QED BY <2>1
  <1>2. PICK m \in B : \A k \in B : m <= k
    <2> HIDE DEF B
    <2> QED BY <1>1, LeastIs
  <1>3. PICK x \in s : m = n - x
    OBVIOUS
  <1>4. ASSUME NEW y \in s PROVE x >= y
    <2>1. n - x <= n - y
      BY <1>2, <1>3
    <2> QED BY <2>1
  <1>5. \E z \in s : \A y \in s : z >= y
    BY <1>4
  <1>6. Max(s) \in s /\ \A y \in s : Max(s) >= y
    <2> HIDE DEF B
    <2> QED BY <1>5 DEF Max
  <1>7. \A y \in s : y <= Max(s)
    BY <1>6
  <1> QED BY <1>6, <1>7

LEMMA LoopIs ==
  ASSUME NEW n \in Nat, NEW q, DOMAIN q = 1 .. n, NEW c
  PROVE  \E g : IsLoop(g, q, c)
  <1> DEFINE S == 1 .. n
             Part(k) == {s \in SUBSET S : Cardinality(s) <= k}
             Step(h, s) == LoopRule(h, q, c, s)
             Upto(k, h) == h = [s \in SUBSET S |-> h[s]] /\ \A s \in Part(k) : h[s] = Step(h, s)
             Bad == {k \in Nat : ~\E h : Upto(k, h)}
  <1>1. \A s \in SUBSET S : IsFiniteSet(s) /\ Cardinality(s) \in Nat
    <2>1. IsFiniteSet(S)
      BY FS_Interval
    <2> HIDE DEF S
    <2> QED BY <2>1, FS_Subset, FS_CardinalityType
  <1>2. \A s \in SUBSET S : s # {} => Max(s) \in s
    BY MaxIs
  <1>3. Bad = {}
    <2> SUFFICES ASSUME Bad # {} PROVE FALSE
      OBVIOUS
    <2>1. PICK k \in Bad : \A j \in Bad : k <= j
      <3>1. Bad \subseteq Nat
        OBVIOUS
      <3> HIDE DEF Bad
      <3> QED BY <3>1, LeastIs
    <2>2. CASE k = 0
      <3> DEFINE z == [s \in SUBSET S |-> First(c)]
      <3>1. \A s \in Part(0) : s = {}
        BY <1>1, FS_EmptySet
      <3>2. Upto(0, z)
        BY <3>1 DEF LoopRule
      <3> QED BY <2>1, <2>2, <3>2
    <2>3. CASE k # 0
      <3>1. k - 1 \in Nat /\ k - 1 \notin Bad
        <4>1. k \in Nat /\ k - 1 \in Nat /\ ~(k <= k - 1)
          BY <2>3
        <4> QED BY <2>1, <4>1
      <3>2. PICK h : Upto(k - 1, h)
        BY <3>1
      <3> DEFINE e == [s \in SUBSET S |-> Step(h, s)]
      <3>3. \A s \in SUBSET S : e[s] = Step(h, s)
        OBVIOUS
      <3>4. ASSUME NEW s \in Part(k) PROVE e[s] = Step(e, s)
        <4>1. CASE s = {}
          BY <4>1 DEF LoopRule
        <4>2. CASE s # {}
          <5> DEFINE t == s \ {Max(s)}
          <5>1. t \in SUBSET S /\ Cardinality(t) <= k - 1
            BY <1>1, <1>2, <4>2, SmallerIs
          <5>2. h[t] = Step(h, t)
            BY <3>2, <5>1
          <5>3. e[t] = h[t]
            BY <3>3, <5>1, <5>2
          <5>4. e[s] = Pass(c, h[t], q[Max(s)])
            BY <4>2 DEF LoopRule
          <5>5. Step(e, s) = Pass(c, e[t], q[Max(s)])
            BY <4>2 DEF LoopRule
          <5> QED BY <5>3, <5>4, <5>5
        <4> QED BY <4>1, <4>2
      <3>5. Upto(k, e)
        BY <3>4
      <3> HIDE DEF e, Upto
      <3> QED BY <3>5
    <2> QED BY <2>2, <2>3
  <1>4. n \in Nat /\ IsFiniteSet(S) /\ Cardinality(S) \in Nat
    BY FS_Interval, FS_CardinalityType
  <1>5. PICK h : Upto(Cardinality(S), h)
    BY <1>3, <1>4
  <1>6. \A s \in SUBSET S : s \in Part(Cardinality(S))
    BY <1>4, FS_Subset
  <1>7. h = [s \in SUBSET S |-> Step(h, s)]
    BY <1>5, <1>6
  <1>8. IsLoop(h, q, c)
    BY <1>7 DEF IsLoop
  <1> QED BY <1>8

(* Iteration by iteration.                                                 *)
LEMMA LoopSteps ==
  ASSUME NEW n \in Nat, NEW q, DOMAIN q = 1 .. n, NEW c, NEW g, IsLoop(g, q, c)
  PROVE  \E h : /\ g[1 .. n] = h[n] /\ h[0] = First(c)
                /\ \A k \in 1 .. n : h[k] = Pass(c, h[k - 1], q[k])
  <1>1. \A s \in SUBSET (1 .. n) : g[s] = LoopRule(g, q, c, s)
    BY DEF IsLoop
  <1> DEFINE h == [k \in 0 .. n |-> g[1 .. k]]
  <1>2. h[0] = First(c)
    <2>1. h[0] = g[{}]
      <3>1. 1 .. 0 = {}
        OBVIOUS
      <3> QED BY <3>1
    <2> QED BY <1>1, <2>1 DEF LoopRule
  <1>3. ASSUME NEW k \in 1 .. n PROVE h[k] = Pass(c, h[k - 1], q[k])
    <2>1. 1 .. k \subseteq 1 .. n /\ 1 .. k # {} /\ k \in 1 .. k /\ k \in Nat
      <3> HIDE DEF h
      <3> QED OBVIOUS
    <2>2. Max(1 .. k) = k
      <3>1. Max(1 .. k) \in 1 .. k /\ \A y \in 1 .. k : y <= Max(1 .. k)
        <4> HIDE DEF h
        <4> QED BY <2>1, MaxIs
      <3>2. k <= Max(1 .. k)
        BY <2>1, <3>1
      <3> HIDE DEF h
      <3> QED BY <2>1, <3>1, <3>2
    <2>3. (1 .. k) \ {k} = 1 .. (k - 1)
      OBVIOUS
    <2>4. g[1 .. k] = Pass(c, g[(1 .. k) \ {k}], q[k])
      BY <1>1, <2>1, <2>2 DEF LoopRule
    <2>5. h[k] = g[1 .. k] /\ h[k - 1] = g[1 .. (k - 1)]
      <3>1. k \in 0 .. n /\ k - 1 \in 0 .. n
        OBVIOUS
      <3> QED BY <3>1
    <2> HIDE DEF h
    <2> QED BY <2>3, <2>4, <2>5
  <1>4. g[1 .. n] = h[n]
    OBVIOUS
  <1> HIDE DEF h
  <1> QED BY <1>2, <1>3, <1>4

FilterRule(g, q, bal, drop, s) ==
  IF s = {} THEN Begin ELSE Filter(g[s \ {Max(s)}], q[Max(s)], bal, drop)
IsFilter(g, q, bal, drop) == g = [s \in SUBSET DOMAIN q |-> FilterRule(g, q, bal, drop, s)]
Filtered(q, bal, drop) == (CHOOSE g : IsFilter(g, q, bal, drop))[DOMAIN q]

LEMMA FilteredIs ==
  ASSUME NEW q, NEW bal, NEW drop
  PROVE  FoldLeft(LAMBDA acc, t : Filter(acc, t, bal, drop), [txes |-> <<>>, fees |-> NoFees], q)
           = Filtered(q, bal, drop)
  BY DEF FoldLeft, MapThenFoldSet, Filtered, IsFilter, FilterRule, Begin

LEMMA FilterSteps ==
  ASSUME NEW n \in Nat, NEW q, DOMAIN q = 1 .. n, NEW bal, NEW drop
  PROVE  \E h : /\ Filtered(q, bal, drop) = h[n] /\ h[0] = Begin
                /\ \A k \in 1 .. n : h[k] = Filter(h[k - 1], q[k], bal, drop)
  <1> DEFINE c == [loop |-> "stale", bal |-> bal, drop |-> drop]
  <1>1. First(c) = Begin /\ \A acc, t : Pass(c, acc, t) = Filter(acc, t, bal, drop)
    BY DEF First, Pass
  <1> HIDE DEF c
  <1>2. \A g, s : FilterRule(g, q, bal, drop, s) = LoopRule(g, q, c, s)
    BY <1>1 DEF FilterRule, LoopRule
  <1>3. \A g : IsFilter(g, q, bal, drop) <=> IsLoop(g, q, c)
    BY <1>2 DEF IsFilter, IsLoop
  <1>4. PICK g : g = CHOOSE h : IsFilter(h, q, bal, drop)
    OBVIOUS
  <1>5. \E h : IsFilter(h, q, bal, drop)
    BY <1>3, LoopIs
  <1>6. IsFilter(g, q, bal, drop)
    BY <1>4, <1>5
  <1>7. IsLoop(g, q, c)
    BY <1>3, <1>6
  <1>8. PICK h : /\ g[1 .. n] = h[n] /\ h[0] = First(c)
                 /\ \A k \in 1 .. n : h[k] = Pass(c, h[k - 1], q[k])
    BY <1>7, LoopSteps
  <1>9. Filtered(q, bal, drop) = h[n]
    BY <1>4, <1>8 DEF Filtered
  <1> QED BY <1>1, <1>8, <1>9

TakeRule(g, q, map, s) == IF s = {} THEN <<>> ELSE Take(g[s \ {Max(s)}], q[Max(s)], map)
IsTake(g, q, map) == g = [s \in SUBSET DOMAIN q |-> TakeRule(g, q, map, s)]
Taken(q, map) == (CHOOSE g : IsTake(g, q, map))[DOMAIN q]

LEMMA TakenIs ==
  ASSUME NEW q
  PROVE  FoldLeft(LAMBDA txx, t : IF t \in verifiedMap THEN Append(txx, t) ELSE txx, <<>>, q)
           = Taken(q, verifiedMap)
  BY DEF FoldLeft, MapThenFoldSet, Taken, IsTake, TakeRule, Take

LEMMA TakeSteps ==
  ASSUME NEW n \in Nat, NEW q, DOMAIN q = 1 .. n, NEW map
  PROVE  \E h : /\ Taken(q, map) = h[n] /\ h[0] = <<>>
                /\ \A k \in 1 .. n : h[k] = Take(h[k - 1], q[k], map)
  <1> DEFINE c == [loop |-> "take", map |-> map]
  <1>1. First(c) = <<>> /\ \A acc, t : Pass(c, acc, t) = Take(acc, t, map)
    BY DEF First, Pass
  <1> HIDE DEF c
  <1>2. \A g, s : TakeRule(g, q, map, s) = LoopRule(g, q, c, s)
    BY <1>1 DEF TakeRule, LoopRule
  <1>3. \A g : IsTake(g, q, map) <=> IsLoop(g, q, c)
    BY <1>2 DEF IsTake, IsLoop
  <1>4. PICK g : g = CHOOSE h : IsTake(h, q, map)
    OBVIOUS
  <1>5. \E h : IsTake(h, q, map)
    BY <1>3, LoopIs
  <1>6. IsTake(g, q, map)
    BY <1>4, <1>5
  <1>7. IsLoop(g, q, c)
    BY <1>3, <1>6
  <1>8. PICK h : /\ g[1 .. n] = h[n] /\ h[0] = First(c)
                 /\ \A k \in 1 .. n : h[k] = Pass(c, h[k - 1], q[k])
    BY <1>7, LoopSteps
  <1>9. Taken(q, map) = h[n]
    BY <1>4, <1>8 DEF Taken
  <1> QED BY <1>1, <1>8, <1>9

RunRule(g, q, ok, left, s) ==
  IF s = {} THEN Standing ELSE Execute(g[s \ {Max(s)}], q[Max(s)], ok, left)
IsRun(g, q, ok, left) == g = [s \in SUBSET DOMAIN q |-> RunRule(g, q, ok, left, s)]
Ran(q, ok, left) == (CHOOSE g : IsRun(g, q, ok, left))[DOMAIN q]

LEMMA RanIs ==
  ASSUME NEW q, NEW ok, NEW left
  PROVE  FoldLeft(LAMBDA acc, t : Execute(acc, t, ok, left), [nonce |-> nonce, balance |-> balance], q)
           = Ran(q, ok, left)
  BY DEF FoldLeft, MapThenFoldSet, Ran, IsRun, RunRule, Standing

Runs(h, q, n, ok, left) ==
  /\ Ran(q, ok, left) = h[n] /\ h[0] = Standing
  /\ \A k \in 1 .. n : h[k] = Execute(h[k - 1], q[k], ok, left)

LEMMA RunSteps ==
  ASSUME NEW n \in Nat, NEW q, DOMAIN q = 1 .. n, NEW ok, NEW left
  PROVE  \E h : Runs(h, q, n, ok, left)
  <1> DEFINE c == [loop |-> "run", ok |-> ok, left |-> left]
  <1>1. First(c) = Standing /\ \A acc, t : Pass(c, acc, t) = Execute(acc, t, ok, left)
    BY DEF First, Pass
  <1> HIDE DEF c
  <1>2. \A g, s : RunRule(g, q, ok, left, s) = LoopRule(g, q, c, s)
    BY <1>1 DEF RunRule, LoopRule
  <1>3. \A g : IsRun(g, q, ok, left) <=> IsLoop(g, q, c)
    BY <1>2 DEF IsRun, IsLoop
  <1>4. PICK g : g = CHOOSE h : IsRun(h, q, ok, left)
    OBVIOUS
  <1>5. \E h : IsRun(h, q, ok, left)
    BY <1>3, LoopIs
  <1>6. IsRun(g, q, ok, left)
    BY <1>4, <1>5
  <1>7. IsLoop(g, q, c)
    BY <1>3, <1>6
  <1>8. PICK h : /\ g[1 .. n] = h[n] /\ h[0] = First(c)
                 /\ \A k \in 1 .. n : h[k] = Pass(c, h[k - 1], q[k])
    BY <1>7, LoopSteps
  <1>9. Ran(q, ok, left) = h[n]
    BY <1>4, <1>8 DEF Ran
  <1>10. Runs(h, q, n, ok, left)
    BY <1>1, <1>8, <1>9 DEF Runs
  <1> QED BY <1>10

---------------------------------------------------------------------------
(* Lists of different transactions *)

Different(s) == \A i, j \in DOMAIN s : s[i] = s[j] => i = j
IsList(s, set) == s \in Seq(Txs) /\ Different(s) /\ ToSet(s) = set

LEMMA PartIs ==
  ASSUME NEW s \in Seq(Txs), NEW m \in 1 .. Len(s) + 1, NEW n \in m - 1 .. Len(s)
  PROVE  /\ SubSeq(s, m, n) \in Seq(Txs)
         /\ Len(SubSeq(s, m, n)) = n - m + 1
         /\ \A i \in 1 .. n - m + 1 : SubSeq(s, m, n)[i] = s[m + i - 1]
  <1>1. \A i \in m .. n : s[i] \in Txs
    BY LenProperties
  <1>2. m \in Int /\ n \in Int
    BY LenProperties
  <1> QED BY <1>1, <1>2, SubSeqProperties

(* The elements of the list with one more or one less.                     *)
LEMMA InsertIs ==
  ASSUME NEW s \in Seq(Txs), NEW n \in 0 .. Len(s), NEW t \in Txs
  PROVE  LET r == InsertAt(s, n + 1, t)
         IN  /\ r \in Seq(Txs) /\ Len(r) = Len(s) + 1
             /\ \A i \in 1 .. Len(s) + 1 :
                  r[i] = IF i <= n THEN s[i] ELSE IF i = n + 1 THEN t ELSE s[i - 1]
  <1> DEFINE a == SubSeq(s, 1, n)
             b == SubSeq(s, n + 1, Len(s))
             c == <<t>>
             d == a \o c
             r == d \o b
  <1>0. Len(s) \in Nat /\ n \in Nat
    BY LenProperties
  <1>1. a \in Seq(Txs) /\ Len(a) = n /\ \A i \in 1 .. n : a[i] = s[i]
    <2>1. 1 \in 1 .. Len(s) + 1 /\ n \in 1 - 1 .. Len(s) /\ n - 1 + 1 = n
      BY <1>0
    <2>2. /\ a \in Seq(Txs) /\ Len(a) = n - 1 + 1
          /\ \A i \in 1 .. n - 1 + 1 : a[i] = s[1 + i - 1]
      <3> HIDE DEF d, r
      <3> QED BY <2>1, PartIs
    <2>3. \A i \in 1 .. n : 1 + i - 1 = i
      BY <1>0
    <2> HIDE DEF a, d, r
    <2> QED BY <2>1, <2>2, <2>3
  <1>2. b \in Seq(Txs) /\ Len(b) = Len(s) - n /\ \A i \in 1 .. Len(s) - n : b[i] = s[n + i]
    <2>1. n + 1 \in 1 .. Len(s) + 1 /\ Len(s) \in (n + 1) - 1 .. Len(s) /\ Len(s) - (n + 1) + 1 = Len(s) - n
      BY <1>0
    <2>2. /\ b \in Seq(Txs) /\ Len(b) = Len(s) - (n + 1) + 1
          /\ \A i \in 1 .. Len(s) - (n + 1) + 1 : b[i] = s[(n + 1) + i - 1]
      <3> HIDE DEF d, r
      <3> QED BY <2>1, PartIs
    <2>3. \A i \in 1 .. Len(s) - n : (n + 1) + i - 1 = n + i
      BY <1>0
    <2> HIDE DEF b, d, r
    <2> QED BY <2>1, <2>2, <2>3
  <1>3. c \in Seq(Txs) /\ Len(c) = 1 /\ c[1] = t
    OBVIOUS
  <1> HIDE DEF a, b, c
  <1>4. d \in Seq(Txs) /\ Len(d) = n + 1 /\ \A i \in 1 .. n + 1 : d[i] = IF i <= n THEN s[i] ELSE t
    <2>0. /\ d \in Seq(Txs) /\ Len(d) = Len(a) + Len(c)
          /\ \A i \in 1 .. Len(a) + Len(c) : d[i] = IF i <= Len(a) THEN a[i] ELSE c[i - Len(a)]
      BY <1>1, <1>3, ConcatProperties, Zenon
    <2> HIDE DEF d
    <2>1. d \in Seq(Txs) /\ Len(d) = n + 1
      BY <1>1, <1>3, <2>0
    <2>2. \A i \in 1 .. n + 1 : d[i] = IF i <= n THEN a[i] ELSE c[i - n]
      BY <1>1, <1>3, <2>0
    <2>3. ASSUME NEW i \in 1 .. n + 1 PROVE d[i] = IF i <= n THEN s[i] ELSE t
      <3>1. CASE i <= n
        BY <1>0, <1>1, <2>2, <3>1
      <3>2. CASE ~(i <= n)
        <4>1. i - n = 1
          BY <1>0, <3>2
        <4> QED BY <1>3, <2>2, <3>2, <4>1
      <3> QED BY <3>1, <3>2
    <2> QED BY <2>1, <2>3
  <1> HIDE DEF d
  <1>3a. /\ r \in Seq(Txs) /\ Len(r) = Len(d) + Len(b)
        /\ \A i \in 1 .. Len(d) + Len(b) : r[i] = IF i <= Len(d) THEN d[i] ELSE b[i - Len(d)]
    BY <1>2, <1>4, ConcatProperties, Zenon
  <1>4a. Len(d) = n + 1 /\ Len(d) + Len(b) = Len(s) + 1
    BY <1>0, <1>2, <1>4
  <1>5. r \in Seq(Txs) /\ Len(r) = Len(s) + 1
    BY <1>3a, <1>4a, Zenon
  <1>6. \A i \in 1 .. Len(s) + 1 : r[i] = IF i <= n + 1 THEN d[i] ELSE b[i - (n + 1)]
    BY <1>3a, <1>4a, Zenon
  <1>7. ASSUME NEW i \in 1 .. Len(s) + 1
        PROVE  r[i] = IF i <= n THEN s[i] ELSE IF i = n + 1 THEN t ELSE s[i - 1]
    <2>1. CASE i <= n + 1
      BY <1>0, <1>4, <1>6, <2>1
    <2>2. CASE ~(i <= n + 1)
      <3>1. i - (n + 1) \in 1 .. Len(s) - n /\ n + (i - (n + 1)) = i - 1 /\ ~(i <= n) /\ i # n + 1
        BY <1>0, <2>2
      <3> HIDE DEF r
      <3> QED BY <1>2, <1>6, <2>2, <3>1
    <2> QED BY <2>1, <2>2
  <1>8. InsertAt(s, n + 1, t) = r
    <2>1. (n + 1) - 1 = n
      BY <1>0
    <2> QED BY <2>1, Zenon DEF InsertAt, a, b, c, d
  <1> HIDE DEF r
  <1> QED BY <1>5, <1>7, <1>8

LEMMA RemoveIs ==
  ASSUME NEW s \in Seq(Txs), NEW n \in 1 .. Len(s)
  PROVE  LET r == RemoveAt(s, n)
         IN  /\ r \in Seq(Txs) /\ Len(r) = Len(s) - 1
             /\ \A i \in 1 .. Len(s) - 1 : r[i] = IF i < n THEN s[i] ELSE s[i + 1]
  <1> DEFINE a == SubSeq(s, 1, n - 1)
             b == SubSeq(s, n + 1, Len(s))
             r == a \o b
  <1>0. Len(s) \in Nat /\ n \in Nat /\ n >= 1 /\ n <= Len(s)
    BY LenProperties
  <1>1. a \in Seq(Txs) /\ Len(a) = n - 1 /\ \A i \in 1 .. n - 1 : a[i] = s[i]
    <2>1. 1 \in 1 .. Len(s) + 1 /\ n - 1 \in 1 - 1 .. Len(s) /\ (n - 1) - 1 + 1 = n - 1
      BY <1>0
    <2>2. /\ a \in Seq(Txs) /\ Len(a) = (n - 1) - 1 + 1
          /\ \A i \in 1 .. (n - 1) - 1 + 1 : a[i] = s[1 + i - 1]
      <3> HIDE DEF r
      <3> QED BY <2>1, PartIs
    <2>3. \A i \in 1 .. n - 1 : 1 + i - 1 = i
      BY <1>0
    <2> HIDE DEF a, r
    <2> QED BY <2>1, <2>2, <2>3
  <1>2. b \in Seq(Txs) /\ Len(b) = Len(s) - n /\ \A i \in 1 .. Len(s) - n : b[i] = s[n + i]
    <2>1. n + 1 \in 1 .. Len(s) + 1 /\ Len(s) \in (n + 1) - 1 .. Len(s) /\ Len(s) - (n + 1) + 1 = Len(s) - n
      BY <1>0
    <2>2. /\ b \in Seq(Txs) /\ Len(b) = Len(s) - (n + 1) + 1
          /\ \A i \in 1 .. Len(s) - (n + 1) + 1 : b[i] = s[(n + 1) + i - 1]
      <3> HIDE DEF r
      <3> QED BY <2>1, PartIs
    <2>3. \A i \in 1 .. Len(s) - n : (n + 1) + i - 1 = n + i
      BY <1>0
    <2> HIDE DEF b, r
    <2> QED BY <2>1, <2>2, <2>3
  <1> HIDE DEF a, b
  <1>3a. /\ r \in Seq(Txs) /\ Len(r) = Len(a) + Len(b)
        /\ \A i \in 1 .. Len(a) + Len(b) : r[i] = IF i <= Len(a) THEN a[i] ELSE b[i - Len(a)]
    BY <1>1, <1>2, ConcatProperties, Zenon
  <1>4a. Len(a) = n - 1 /\ Len(a) + Len(b) = Len(s) - 1
    BY <1>0, <1>1, <1>2
  <1>5. r \in Seq(Txs) /\ Len(r) = Len(s) - 1
    BY <1>3a, <1>4a, Zenon
  <1>6. \A i \in 1 .. Len(s) - 1 : r[i] = IF i <= n - 1 THEN a[i] ELSE b[i - (n - 1)]
    BY <1>3a, <1>4a, Zenon
  <1>7. ASSUME NEW i \in 1 .. Len(s) - 1
        PROVE  r[i] = IF i < n THEN s[i] ELSE s[i + 1]
    <2>1. CASE i < n
      <3>1. i <= n - 1 /\ i \in 1 .. n - 1
        BY <1>0, <2>1
      <3> QED BY <1>1, <1>6, <2>1, <3>1
    <2>2. CASE ~(i < n)
      <3>1. i - (n - 1) \in 1 .. Len(s) - n /\ n + (i - (n - 1)) = i + 1 /\ ~(i <= n - 1)
        BY <1>0, <2>2
      <3> HIDE DEF r
      <3> QED BY <1>2, <1>6, <2>2, <3>1
    <2> QED BY <2>1, <2>2
  <1>8. RemoveAt(s, n) = r
    BY <1>0 DEF RemoveAt, a, b
  <1> HIDE DEF r
  <1> QED BY <1>5, <1>7, <1>8

(* Add puts the transaction at some place of the list.                     *)
LEMMA ListInsert ==
  ASSUME NEW s, NEW set, IsList(s, set), NEW t \in Txs, t \notin set
  PROVE  IsList(InsertSorted(s, t), set \cup {t})
  <1> DEFINE P == {i \in DOMAIN s : Before(s[i], t)}
             n == Cardinality(P)
             r == InsertAt(s, n + 1, t)
  <1>1. s \in Seq(Txs) /\ Len(s) \in Nat /\ DOMAIN s = 1 .. Len(s)
    BY LenProperties DEF IsList
  <1>2. n \in 0 .. Len(s)
    <2>1. IsFiniteSet(1 .. Len(s)) /\ Cardinality(1 .. Len(s)) = Len(s)
      BY <1>1, FS_Interval
    <2>2. P \subseteq 1 .. Len(s)
      BY <1>1
    <2> HIDE DEF P
    <2>3. Cardinality(P) <= Cardinality(1 .. Len(s)) /\ Cardinality(P) \in Nat
      BY <2>1, <2>2, FS_Subset, FS_CardinalityType
    <2> QED BY <1>1, <2>1, <2>3
  <1> HIDE DEF n
  <1>3. /\ r \in Seq(Txs) /\ Len(r) = Len(s) + 1
        /\ \A i \in 1 .. Len(s) + 1 :
             r[i] = IF i <= n THEN s[i] ELSE IF i = n + 1 THEN t ELSE s[i - 1]
    BY <1>1, <1>2, InsertIs
  <1> HIDE DEF r
  <1>4. DOMAIN r = 1 .. Len(s) + 1
    BY <1>3, LenProperties
  <1>5. \A i \in 1 .. Len(s) : s[i] \in set /\ s[i] # t
    BY <1>1 DEF IsList, ToSet
  <1>6. Different(r)
    <2> SUFFICES ASSUME NEW i \in 1 .. Len(s) + 1, NEW j \in 1 .. Len(s) + 1, r[i] = r[j]
                 PROVE  i = j
      BY <1>4 DEF Different
    <2> DEFINE At(k) == IF k <= n THEN k ELSE k - 1
    <2>1. \A k \in 1 .. Len(s) + 1 : k # n + 1 => At(k) \in 1 .. Len(s) /\ r[k] = s[At(k)]
      BY <1>1, <1>2, <1>3
    <2>2. r[n + 1] = t /\ n + 1 \in 1 .. Len(s) + 1
      BY <1>1, <1>2, <1>3
    <2>3. \A k, m \in 1 .. Len(s) : s[k] = s[m] => k = m
      BY <1>1 DEF IsList, Different
    <2>4. CASE i = n + 1 \/ j = n + 1
      <3>1. i = n + 1 /\ j = n + 1
        <4> HIDE DEF At
        <4> QED BY <1>5, <2>1, <2>2, <2>4
      <3> QED BY <3>1
    <2>5. CASE i # n + 1 /\ j # n + 1
      <3>1. At(i) = At(j)
        <4> HIDE DEF At
        <4> QED BY <2>1, <2>3, <2>5
      <3> QED BY <1>1, <1>2, <2>5, <3>1
    <2> QED BY <2>4, <2>5
  <1>7. ToSet(r) = set \cup {t}
    <2>1. ASSUME NEW i \in 1 .. Len(s) + 1 PROVE r[i] \in set \cup {t}
      <3>1. CASE i = n + 1
        BY <1>1, <1>2, <1>3, <3>1
      <3>2. CASE i # n + 1
        <4>1. PICK k \in 1 .. Len(s) : r[i] = s[k]
          BY <1>1, <1>2, <1>3, <3>2
        <4> QED BY <1>5, <4>1
      <3> QED BY <3>1, <3>2
    <2>2. t \in ToSet(r)
      <3>1. n + 1 \in 1 .. Len(s) + 1 /\ r[n + 1] = t
        BY <1>1, <1>2, <1>3
      <3> QED BY <1>4, <3>1 DEF ToSet
    <2>3. ASSUME NEW u \in set PROVE u \in ToSet(r)
      <3>1. PICK k \in 1 .. Len(s) : u = s[k]
        BY <1>1 DEF IsList, ToSet
      <3>2. CASE k <= n
        <4>1. k \in 1 .. Len(s) + 1 /\ r[k] = s[k]
          BY <1>1, <1>2, <1>3, <3>2
        <4> QED BY <1>4, <3>1, <4>1 DEF ToSet
      <3>3. CASE ~(k <= n)
        <4>1. k + 1 \in 1 .. Len(s) + 1 /\ ~(k + 1 <= n) /\ k + 1 # n + 1 /\ (k + 1) - 1 = k
          BY <1>1, <1>2, <3>3
        <4>2. r[k + 1] = s[k]
          BY <1>3, <4>1
        <4> QED BY <1>4, <3>1, <4>1, <4>2 DEF ToSet
      <3> QED BY <3>2, <3>3
    <2>4. ToSet(r) \subseteq set \cup {t}
      BY <1>4, <2>1 DEF ToSet
    <2> QED BY <2>2, <2>3, <2>4
  <1>8. InsertSorted(s, t) = r
    BY DEF InsertSorted, r, n
  <1> QED BY <1>3, <1>6, <1>7, <1>8 DEF IsList

LEMMA ListRemove ==
  ASSUME NEW s, NEW set, IsList(s, set), NEW n \in 1 .. Len(s)
  PROVE  IsList(RemoveAt(s, n), set \ {s[n]})
  <1> DEFINE r == RemoveAt(s, n)
             At(k) == IF k < n THEN k ELSE k + 1
  <1>1. s \in Seq(Txs) /\ Len(s) \in Nat /\ DOMAIN s = 1 .. Len(s)
    BY LenProperties DEF IsList
  <1>2. /\ r \in Seq(Txs) /\ Len(r) = Len(s) - 1
        /\ \A i \in 1 .. Len(s) - 1 : r[i] = IF i < n THEN s[i] ELSE s[i + 1]
    BY <1>1, RemoveIs
  <1> HIDE DEF r
  <1>3. DOMAIN r = 1 .. Len(s) - 1
    BY <1>2, LenProperties
  <1>4. \A k \in 1 .. Len(s) - 1 : At(k) \in 1 .. Len(s) /\ At(k) # n /\ r[k] = s[At(k)]
    BY <1>1, <1>2
  <1>5. \A k, m \in 1 .. Len(s) : s[k] = s[m] => k = m
    BY <1>1 DEF IsList, Different
  <1>6. Different(r)
    <2> SUFFICES ASSUME NEW i \in 1 .. Len(s) - 1, NEW j \in 1 .. Len(s) - 1, r[i] = r[j]
                 PROVE  i = j
      BY <1>3 DEF Different
    <2>1. At(i) = At(j)
      <3> HIDE DEF At
      <3> QED BY <1>4, <1>5
    <2> QED BY <1>1, <2>1
  <1>7. ToSet(r) = set \ {s[n]}
    <2>1. ASSUME NEW i \in 1 .. Len(s) - 1 PROVE r[i] \in set \ {s[n]}
      <3> HIDE DEF At
      <3>1. s[At(i)] \in set
        BY <1>1, <1>4 DEF IsList, ToSet
      <3> QED BY <1>4, <1>5, <3>1
    <2>2. ASSUME NEW u \in set \ {s[n]} PROVE u \in ToSet(r)
      <3>1. PICK k \in 1 .. Len(s) : u = s[k]
        BY <1>1 DEF IsList, ToSet
      <3>2. k # n
        BY <3>1
      <3>3. PICK i \in 1 .. Len(s) - 1 : At(i) = k
        <4>1. CASE k < n
          <5>1. k \in 1 .. Len(s) - 1 /\ At(k) = k
            BY <1>1, <4>1
          <5> QED BY <5>1
        <4>2. CASE ~(k < n)
          <5>1. k - 1 \in 1 .. Len(s) - 1 /\ At(k - 1) = k
            BY <1>1, <3>2, <4>2
          <5> QED BY <5>1
        <4> QED BY <4>1, <4>2
      <3> HIDE DEF At
      <3>4. r[i] = u
        BY <1>4, <3>1, <3>3
      <3> QED BY <1>3, <3>4 DEF ToSet
    <2> QED BY <1>3, <2>1, <2>2 DEF ToSet
  <1> QED BY <1>2, <1>6, <1>7 DEF IsList, r

LEMMA ListFront ==
  ASSUME NEW s, NEW set, IsList(s, set), Len(s) # 0
  PROVE  IsList(Front(s), set \ {s[Len(s)]}) /\ s[Len(s)] \in set
  <1>1. s \in Seq(Txs) /\ Len(s) \in Nat /\ DOMAIN s = 1 .. Len(s)
    BY LenProperties DEF IsList
  <1> DEFINE n == Len(s)
             r == Front(s)
  <1>9. n \in Nat /\ DOMAIN s = 1 .. n
    BY <1>1
  <1>2. n \in 1 .. n /\ 1 \in 1 .. n + 1 /\ n - 1 \in 1 - 1 .. n /\ (n - 1) - 1 + 1 = n - 1
    BY <1>1
  <1>3. /\ r \in Seq(Txs) /\ Len(r) = n - 1
        /\ \A i \in 1 .. n - 1 : r[i] = s[i]
    <2>1. /\ r \in Seq(Txs) /\ Len(r) = (n - 1) - 1 + 1
          /\ \A i \in 1 .. (n - 1) - 1 + 1 : r[i] = s[1 + i - 1]
      BY <1>1, <1>2, PartIs DEF Front
    <2>2. \A i \in 1 .. n - 1 : 1 + i - 1 = i
      BY <1>1
    <2> HIDE DEF n, r
    <2> QED BY <1>2, <2>1, <2>2
  <1> HIDE DEF r, n
  <1>4. DOMAIN r = 1 .. n - 1
    BY <1>3, LenProperties
  <1>5. \A k, m \in 1 .. n : s[k] = s[m] => k = m
    BY <1>9 DEF IsList, Different
  <1>6. Different(r)
    BY <1>9, <1>3, <1>4, <1>5 DEF Different
  <1>7. s[n] \in set
    BY <1>9, <1>2 DEF IsList, ToSet
  <1>8. ToSet(r) = set \ {s[n]}
    <2>1. ASSUME NEW i \in 1 .. n - 1 PROVE r[i] \in set \ {s[n]}
      <3>1. i \in 1 .. n /\ i # n
        BY <1>9
      <3>2. s[i] \in set /\ s[i] # s[n]
        BY <1>9, <1>2, <1>5, <3>1 DEF IsList, ToSet
      <3> QED BY <1>3, <3>2
    <2>2. ASSUME NEW u \in set \ {s[n]} PROVE u \in ToSet(r)
      <3>1. PICK k \in 1 .. n : u = s[k]
        BY <1>9 DEF IsList, ToSet
      <3>2. k # n
        BY <3>1
      <3>3. k \in 1 .. n - 1
        BY <1>9, <3>2
      <3> QED BY <1>3, <1>4, <3>1, <3>3 DEF ToSet
    <2> QED BY <1>4, <2>1, <2>2 DEF ToSet
  <1> QED BY <1>3, <1>6, <1>7, <1>8 DEF IsList, r, n

LEMMA ListAppend ==
  ASSUME NEW s, NEW set, IsList(s, set), NEW t \in Txs, t \notin set
  PROVE  IsList(Append(s, t), set \cup {t})
  <1> DEFINE r == Append(s, t)
             n == Len(s)
  <1>1. s \in Seq(Txs) /\ n \in Nat /\ DOMAIN s = 1 .. n
    BY LenProperties DEF IsList
  <1>2. /\ r \in Seq(Txs) /\ Len(r) = n + 1 /\ r[n + 1] = t
        /\ \A i \in 1 .. n : r[i] = s[i]
    BY <1>1, AppendProperties
  <1> HIDE DEF r, n
  <1>3. DOMAIN r = 1 .. n + 1
    BY <1>2, LenProperties
  <1>4. \A i \in 1 .. n : s[i] \in set /\ s[i] # t
    BY <1>1 DEF IsList, ToSet
  <1>5. \A i \in 1 .. n + 1 : i = n + 1 \/ i \in 1 .. n
    BY <1>1
  <1>6. Different(r)
    BY <1>1, <1>2, <1>3, <1>4, <1>5 DEF Different, IsList
  <1>7. ToSet(r) = set \cup {t}
    <2>1. \A i \in 1 .. n + 1 : r[i] \in set \cup {t}
      BY <1>2, <1>4, <1>5
    <2>2. ASSUME NEW u \in set PROVE u \in ToSet(r)
      <3>1. PICK k \in 1 .. n : u = s[k]
        BY <1>1 DEF IsList, ToSet
      <3>2. k \in 1 .. n + 1
        BY <1>1
      <3> QED BY <1>2, <1>3, <3>1, <3>2 DEF ToSet
    <2>3. n + 1 \in 1 .. n + 1
      BY <1>1
    <2> QED BY <1>2, <1>3, <2>1, <2>2, <2>3 DEF ToSet
  <1> QED BY <1>2, <1>6, <1>7 DEF IsList, r

---------------------------------------------------------------------------
(* Costs *)

CostOf == [t \in Txs |-> Cost(t)]
From(set, a) == {t \in set : t.from = a}

LEMMA NatProduct == \A x, y \in Nat : x * y \in Nat
  OBVIOUS

LEMMA TxIs ==
  ASSUME NEW t \in Txs
  PROVE  /\ t.from \in Accounts /\ t.id \in Nat /\ t.nonce \in Nat /\ t.price \in Nat /\ t.gas \in Nat
         /\ t.value \in Nat /\ t.feePerByte \in Nat
         /\ Cost(t) \in Nat /\ CostOf[t] = Cost(t)
  <1>1. /\ t.from \in Accounts /\ t.id \in Nat /\ t.nonce \in Nat /\ t.price \in Nat /\ t.gas \in Nat
        /\ t.value \in Nat /\ t.feePerByte \in Nat
    BY TxsAssumption
  <1>2. t.gas * t.price \in Nat
    BY <1>1, NatProduct
  <1>3. Cost(t) \in Nat
    BY <1>1, <1>2 DEF Cost
  <1> QED BY <1>1, <1>3 DEF CostOf

(* A summer for the operator that MapThenSumSet is given.                  *)
LEMMA CostSum ==
  ASSUME NEW S, S \subseteq Txs, IsFiniteSet(S)
  PROVE  MapThenSumSet(Cost, S) = Sum(CostOf, S)
  <1> DEFINE Is(g) == g = [s \in SUBSET S |-> IF s = {} THEN 0 ELSE Cost(Pick(s)) + g[s \ {Pick(s)}]]
  <1>1. MapThenSumSet(Cost, S) = (CHOOSE g : Is(g))[S]
    BY DEF MapThenSumSet, MapThenFoldSet, Pick
  <1>2. PICK h : IsSummer(h, CostOf, S)
    BY SummerIs
  <1>3. \A s \in SUBSET S : s # {} => CostOf[Pick(s)] = Cost(Pick(s))
    BY DEF Pick, CostOf
  <1>4. Is(h)
    BY <1>2, <1>3 DEF IsSummer, Rule
  <1>5. PICK g : g = CHOOSE x : Is(x)
    OBVIOUS
  <1>6. Is(g)
    <2> HIDE DEF Is
    <2> QED BY <1>4, <1>5
  <1>7. Sums(g, CostOf, S)
    BY <1>3, <1>6 DEF Sums, Rule
  <1>8. Sum(CostOf, S) = g[S]
    BY <1>7, SumSub
  <1> QED BY <1>1, <1>5, <1>8

LEMMA ListFinite == ASSUME NEW s, NEW set, IsList(s, set) PROVE IsFiniteSet(set) /\ set \subseteq Txs
  <1>1. s \in Seq(Txs) /\ Len(s) \in Nat /\ DOMAIN s = 1 .. Len(s) /\ set = {s[i] : i \in 1 .. Len(s)}
    BY LenProperties DEF IsList, ToSet
  <1>2. IsFiniteSet(1 .. Len(s))
    BY <1>1, FS_Interval
  <1>3. IsFiniteSet(set)
    BY <1>1, <1>2, ImageFinite
  <1>4. set \subseteq Txs
    BY <1>1, ElementOfSeq
  <1> QED BY <1>3, <1>4

(* The costs of a sender's part of some transactions.                      *)
Total(set, a) == Sum(CostOf, From(set, a))

LEMMA TotalIs ==
  ASSUME NEW set, IsFiniteSet(set), set \subseteq Txs, NEW a
  PROVE  /\ Total(set, a) \in Nat
         /\ From(set, a) = {} => Total(set, a) = 0
         /\ \A t \in Txs \ set : Total(set \cup {t}, a) = Total(set, a) + IF t.from = a THEN Cost(t) ELSE 0
         /\ \A part \in SUBSET set : Total(part, a) <= Total(set, a)
  <1>1. IsFiniteSet(From(set, a)) /\ From(set, a) \subseteq Txs
    BY FS_Subset DEF From
  <1>2. \A t \in Txs : CostOf[t] \in Int /\ CostOf[t] >= 0
    BY TxIs
  <1>3. Total(set, a) \in Int
    BY <1>1, <1>2, SumOut DEF Total
  <1>4. Total(set, a) >= 0
    <2>1. Sum(CostOf, {}) <= Sum(CostOf, From(set, a))
      BY <1>1, <1>2, SumMore
    <2> QED BY <1>3, <2>1, SumNone DEF Total
  <1>5. From(set, a) = {} => Total(set, a) = 0
    BY SumNone DEF Total
  <1>6. ASSUME NEW t \in Txs \ set
        PROVE  Total(set \cup {t}, a) = Total(set, a) + IF t.from = a THEN Cost(t) ELSE 0
    <2>1. CASE t.from = a
      <3> DEFINE F == From(set \cup {t}, a)
      <3>1. F \ {t} = From(set, a) /\ t \in F /\ F \subseteq Txs /\ F = From(set, a) \cup {t}
        BY <2>1 DEF From
      <3>2. IsFiniteSet(F)
        BY <1>1, <3>1, FS_AddElement
      <3> HIDE DEF F
      <3>3. Sum(CostOf, F) = CostOf[t] + Sum(CostOf, F \ {t})
        BY <1>2, <3>1, <3>2, SumOut
      <3>4. CostOf[t] = Cost(t) /\ Cost(t) \in Nat
        BY TxIs
      <3>5. Total(set \cup {t}, a) = Cost(t) + Total(set, a)
        BY <3>1, <3>3, <3>4 DEF Total, F
      <3> QED BY <1>3, <2>1, <3>4, <3>5
    <2>2. CASE t.from # a
      <3>1. From(set \cup {t}, a) = From(set, a)
        BY <2>2 DEF From
      <3> QED BY <1>3, <2>2, <3>1 DEF Total
    <2> QED BY <2>1, <2>2
  <1>7. ASSUME NEW part \in SUBSET set PROVE Total(part, a) <= Total(set, a)
    <2>1. From(part, a) \subseteq From(set, a)
      BY DEF From
    <2> QED BY <1>1, <1>2, <2>1, SumMore DEF Total
  <1>8. Total(set, a) \in Nat
    BY <1>3, <1>4
  <1> QED BY <1>5, <1>6, <1>7, <1>8

---------------------------------------------------------------------------
(* RemoveStale *)

Entries == [balance : Int, feeSum : Int]
Exact(e, txes, a, bal) ==
  e.balance = bal[a] /\ e.feeSum = Total(txes, a) /\ Total(txes, a) <= bal[a]
Clean(acc, bal) ==
  /\ acc = [txes |-> acc.txes, fees |-> acc.fees]
  /\ IsList(acc.txes, ToSet(acc.txes))
  /\ acc.fees \in [Accounts -> Entries \cup {None}]
  /\ \A a \in Accounts : IF acc.fees[a] = None THEN From(ToSet(acc.txes), a) = {}
                         ELSE Exact(acc.fees[a], ToSet(acc.txes), a, bal)

LEMMA FilterClean ==
  ASSUME NEW bal \in [Accounts -> Nat], NEW acc, Clean(acc, bal), NEW drop,
         NEW t \in Txs, t \notin ToSet(acc.txes)
  PROVE  LET r == Filter(acc, t, bal, drop)
         IN  /\ Clean(r, bal)
             /\ ToSet(r.txes) \subseteq ToSet(acc.txes) \cup {t}
             /\ t \in drop => t \notin ToSet(r.txes)
  <1> DEFINE a == t.from
             set == ToSet(acc.txes)
             old == acc.fees[a]
             e == IF old = None THEN [balance |-> bal[a], feeSum |-> 0] ELSE old
             r == Filter(acc, t, bal, drop)
  <1>1. a \in Accounts /\ Cost(t) \in Nat
    BY TxIs
  <1>2. IsList(acc.txes, set) /\ IsFiniteSet(set) /\ set \subseteq Txs
    BY ListFinite DEF Clean
  <1>3. /\ \A b : Total(set, b) \in Nat /\ (From(set, b) = {} => Total(set, b) = 0)
        /\ \A b : Total(set \cup {t}, b) = Total(set, b) + IF t.from = b THEN Cost(t) ELSE 0
    BY <1>2, TotalIs
  <1>4. acc.fees \in [Accounts -> Entries \cup {None}] /\ bal[a] \in Nat
    BY <1>1 DEF Clean
  <1>5. e \in Entries /\ Exact(e, set, a, bal)
    <2>1. CASE old = None
      <3>1. From(set, a) = {}
        BY <1>1, <2>1 DEF Clean
      <3>2. Total(set, a) = 0
        BY <1>3, <3>1
      <3>3. e = [balance |-> bal[a], feeSum |-> 0]
        BY <2>1
      <3> HIDE DEF e, a, set
      <3> QED BY <1>4, <3>2, <3>3 DEF Exact, Entries
    <2>2. CASE old # None
      <3>1. e = old /\ Exact(old, set, a, bal)
        BY <1>1, <2>2 DEF Clean
      <3>2. old \in Entries
        BY <1>1, <1>4, <2>2
      <3> QED BY <3>1, <3>2
    <2> QED BY <2>1, <2>2
  <1>6. None \notin Entries
    BY NoneAssumption DEF Entries
  <1>7. \A b \in Accounts : b # a => From(set \cup {t}, b) = From(set, b)
    BY DEF From
  <1>8. acc.fees \in [Accounts -> Entries \cup {None}]
    BY DEF Clean
  <1>9. \A b \in Accounts : IF acc.fees[b] = None THEN From(set, b) = {} ELSE Exact(acc.fees[b], set, b, bal)
    BY DEF Clean
  <1>10. CASE t \in drop
    <2>1. r = acc
      BY <1>10 DEF Filter
    <2> QED BY <1>10, <2>1
  <1>11. CASE t \notin drop /\ CheckBalance(t, e)
    <2> DEFINE new == [e EXCEPT !.feeSum = @ + Cost(t)]
               txes == Append(acc.txes, t)
               fee == [acc.fees EXCEPT ![a] = new]
    <2>1. r = [txes |-> txes, fees |-> fee]
      BY <1>11 DEF Filter
    <2>2. IsList(txes, set \cup {t})
      BY <1>2, ListAppend
    <2>3. ToSet(txes) = set \cup {t}
      BY <2>2 DEF IsList
    <2>4. new \in Entries /\ new.balance = e.balance /\ new.feeSum = e.feeSum + Cost(t)
      <3> HIDE DEF e
      <3> QED BY <1>1, <1>5 DEF Entries
    <2>5. Exact(new, set \cup {t}, a, bal)
      <3>1. e.balance >= Cost(t) + e.feeSum
        BY <1>11 DEF CheckBalance
      <3>2. Total(set \cup {t}, a) = Total(set, a) + Cost(t)
        BY <1>3
      <3>3. e.balance = bal[a] /\ e.feeSum = Total(set, a)
        BY <1>5 DEF Exact
      <3>4. Total(set, a) \in Nat
        BY <1>3
      <3> HIDE DEF e, set, a, new
      <3> QED BY <1>1, <1>4, <2>4, <3>1, <3>2, <3>3, <3>4 DEF Exact
    <2>6. fee \in [Accounts -> Entries \cup {None}]
      <3> HIDE DEF new, a
      <3> QED BY <1>1, <1>8, <2>4
    <2>7. ASSUME NEW b \in Accounts
          PROVE  IF fee[b] = None THEN From(set \cup {t}, b) = {} ELSE Exact(fee[b], set \cup {t}, b, bal)
      <3>1. CASE b = a
        <4>1. fee[b] = new /\ new # None
          <5> HIDE DEF new, a
          <5> QED BY <1>6, <1>8, <2>4, <3>1
        <4> HIDE DEF fee, new, a, set
        <4> QED BY <2>5, <3>1, <4>1
      <3>2. CASE b # a
        <4>1. fee[b] = acc.fees[b]
          BY <1>8, <3>2
        <4>2. Total(set \cup {t}, b) = Total(set, b)
          <5>1. Total(set \cup {t}, b) = Total(set, b) + 0
            BY <1>3, <3>2
          <5>2. Total(set, b) \in Nat
            BY <1>3
          <5> HIDE DEF set
          <5> QED BY <5>1, <5>2
        <4>3. From(set \cup {t}, b) = From(set, b)
          BY <1>7, <3>2
        <4> HIDE DEF fee, set
        <4> QED BY <1>9, <4>1, <4>2, <4>3 DEF Exact
      <3> QED BY <3>1, <3>2
    <2>8. r.txes = txes /\ r.fees = fee
      BY <2>1
    <2> HIDE DEF r, txes, fee
    <2>9. Clean(r, bal)
      BY <2>1, <2>2, <2>3, <2>6, <2>7, <2>8 DEF Clean
    <2> QED BY <1>11, <2>3, <2>8, <2>9 DEF r
  <1>12. CASE t \notin drop /\ ~CheckBalance(t, e)
    <2> DEFINE fee == [acc.fees EXCEPT ![a] = e]
    <2>1. acc = [txes |-> acc.txes, fees |-> acc.fees]
      BY DEF Clean
    <2>2. r = [txes |-> acc.txes, fees |-> fee]
      <3>1. r = [acc EXCEPT !.fees[a] = e]
        BY <1>12 DEF Filter
      <3> HIDE DEF e, a, r
      <3> QED BY <2>1, <3>1
    <2>3. r.txes = acc.txes /\ r.fees = fee
      BY <2>2
    <2>4. fee \in [Accounts -> Entries \cup {None}]
      <3> HIDE DEF e, a
      <3> QED BY <1>1, <1>5, <1>8
    <2>5. ASSUME NEW b \in Accounts
          PROVE  IF fee[b] = None THEN From(set, b) = {} ELSE Exact(fee[b], set, b, bal)
      <3>1. CASE b = a
        <4>1. fee[b] = e /\ e # None
          <5> HIDE DEF e, a
          <5> QED BY <1>5, <1>6, <1>8, <3>1
        <4> HIDE DEF fee, e, a, set
        <4> QED BY <1>5, <3>1, <4>1
      <3>2. CASE b # a
        <4>1. fee[b] = acc.fees[b]
          BY <1>8, <3>2
        <4> HIDE DEF fee
        <4> QED BY <1>9, <4>1
      <3> QED BY <3>1, <3>2
    <2> HIDE DEF r, fee
    <2>6. Clean(r, bal)
      BY <1>2, <2>2, <2>3, <2>4, <2>5 DEF Clean
    <2> QED BY <1>12, <2>3, <2>6 DEF r
  <1> QED BY <1>10, <1>11, <1>12

(* What the whole loop leaves: a list of what was there and is not         *)
(* dropped, and entries that fit it.                                       *)
LEMMA Filtering ==
  ASSUME NEW bal \in [Accounts -> Nat], NEW drop, NEW q, NEW set, IsList(q, set)
  PROVE  LET r == Filtered(q, bal, drop)
         IN  Clean(r, bal) /\ ToSet(r.txes) \subseteq set \ drop
  <1> DEFINE n == Len(q)
  <1>1. q \in Seq(Txs) /\ n \in Nat /\ DOMAIN q = 1 .. n
    BY LenProperties DEF IsList
  <1>2. \A i \in 1 .. n : q[i] \in Txs /\ q[i] \in set
    BY <1>1, ElementOfSeq DEF IsList, ToSet
  <1>3. \A i, j \in 1 .. n : q[i] = q[j] => i = j
    BY <1>1 DEF IsList, Different
  <1> HIDE DEF n
  <1>4. PICK h : /\ Filtered(q, bal, drop) = h[n] /\ h[0] = Begin
                 /\ \A k \in 1 .. n : h[k] = Filter(h[k - 1], q[k], bal, drop)
    BY <1>1, FilterSteps
  <1> DEFINE Good(k) == /\ Clean(h[k], bal)
                        /\ \A u \in ToSet(h[k].txes) : u \notin drop /\ \E i \in 1 .. k : u = q[i]
             Bad == {k \in 0 .. n : ~Good(k)}
  <1>5. Bad = {}
    <2> SUFFICES ASSUME Bad # {} PROVE FALSE
      OBVIOUS
    <2>1. PICK k \in Bad : \A j \in Bad : k <= j
      <3>1. Bad \subseteq Nat
        <4> HIDE DEF Good
        <4> QED BY <1>1
      <3> HIDE DEF Bad
      <3> QED BY <3>1, LeastIs
    <2>2. k \in 0 .. n /\ ~Good(k)
      <3> HIDE DEF Good
      <3> QED BY <2>1
    <2>3. CASE k = 0
      <3>1. h[k] = Begin
        BY <1>4, <2>3
      <3>2. ToSet(<<>>) = {}
        BY DEF ToSet
      <3>3. IsList(<<>>, {})
        BY <3>2 DEF IsList, Different
      <3>4. Begin.txes = <<>> /\ Begin.fees = NoFees /\ Begin = [txes |-> Begin.txes, fees |-> Begin.fees]
        BY DEF Begin
      <3>5. NoFees \in [Accounts -> Entries \cup {None}] /\ \A a \in Accounts : NoFees[a] = None
        BY DEF NoFees
      <3>6. Clean(Begin, bal)
        BY <3>2, <3>3, <3>4, <3>5 DEF Clean, From
      <3> QED BY <2>2, <3>1, <3>2, <3>4, <3>6
    <2>4. CASE k # 0
      <3>1. k \in 1 .. n /\ k - 1 \in 0 .. n /\ ~(k <= k - 1) /\ k \notin 1 .. k - 1
        BY <1>1, <2>2, <2>4
      <3>2. Good(k - 1)
        <4>1. k - 1 \notin Bad
          <5> HIDE DEF Bad
          <5> QED BY <2>1, <3>1
        <4> HIDE DEF Good
        <4> QED BY <3>1, <4>1
      <3>3. h[k] = Filter(h[k - 1], q[k], bal, drop) /\ q[k] \in Txs
        BY <1>4, <1>2, <3>1
      <3>4. q[k] \notin ToSet(h[k - 1].txes)
        <4> SUFFICES ASSUME NEW i \in 1 .. k - 1 PROVE q[k] # q[i]
          BY <3>2
        <4>1. i \in 1 .. n /\ i # k
          BY <1>1, <3>1
        <4> QED BY <1>3, <3>1, <4>1
      <3>5. Clean(h[k - 1], bal)
        BY <3>2
      <3>6. /\ Clean(h[k], bal)
            /\ ToSet(h[k].txes) \subseteq ToSet(h[k - 1].txes) \cup {q[k]}
            /\ q[k] \in drop => q[k] \notin ToSet(h[k].txes)
        <4> HIDE DEF Good, Bad
        <4> QED BY <3>3, <3>4, <3>5, FilterClean
      <3>7. ASSUME NEW u \in ToSet(h[k].txes) PROVE u \notin drop /\ \E i \in 1 .. k : u = q[i]
        <4>1. CASE u = q[k]
          <5>1. k \in 1 .. k
            BY <3>1
          <5> QED BY <3>6, <4>1, <5>1
        <4>2. CASE u \in ToSet(h[k - 1].txes)
          <5>1. PICK i \in 1 .. k - 1 : u = q[i]
            BY <3>2, <4>2
          <5>2. i \in 1 .. k
            BY <1>1, <3>1
          <5> QED BY <3>2, <4>2, <5>1, <5>2
        <4> QED BY <3>6, <4>1, <4>2
      <3> QED BY <2>2, <3>6, <3>7
    <2> QED BY <2>3, <2>4
  <1>6. Good(n)
    <2>1. n \in 0 .. n
      BY <1>1
    <2> HIDE DEF Good
    <2> QED BY <1>5, <2>1
  <1> QED BY <1>4, <1>2, <1>6

---------------------------------------------------------------------------
(* The invariant *)

(* A pooled transaction: it pays enough for its gas, it is in no block, and *)
(* it is next, or its turn has passed; where every block is verified, it   *)
(* has passed with another one of its sender.                              *)
InTurn(t) ==
  /\ t.price >= GasPrice /\ t \notin confirmed
  /\ t.nonce <= nonce[t.from]
  /\ (VerifyTransactions /\ t.nonce < nonce[t.from]) =>
        \E u \in confirmed : u.from = t.from /\ u.nonce <= t.nonce

PoolInv ==
  /\ IsList(verifiedTxes, verifiedMap)
  /\ nonce \in [Accounts -> Nat] /\ balance \in [Accounts -> Nat] /\ feePerByte \in Nat
  /\ fees \in [Accounts -> Entries \cup {None}]
  /\ \A t \in verifiedMap : InTurn(t) /\ fees[t.from] # None
  /\ \A a \in Accounts \ disturbed : fees[a] # None => Exact(fees[a], verifiedMap, a, balance)
  /\ \A t \in ToSet(checked) : t.nonce <= nonce[t.from]

LEMMA PoolIs ==
  ASSUME PoolInv
  PROVE  /\ verifiedTxes \in Seq(Txs) /\ Len(verifiedTxes) \in Nat
         /\ DOMAIN verifiedTxes = 1 .. Len(verifiedTxes)
         /\ IsFiniteSet(verifiedMap) /\ verifiedMap \subseteq Txs /\ None \notin verifiedMap
         /\ None \notin Entries
  <1>1. IsList(verifiedTxes, verifiedMap)
    BY DEF PoolInv
  <1>2. verifiedTxes \in Seq(Txs)
    BY <1>1 DEF IsList
  <1>3. Len(verifiedTxes) \in Nat /\ DOMAIN verifiedTxes = 1 .. Len(verifiedTxes)
    BY <1>2, LenProperties
  <1>4. IsFiniteSet(verifiedMap) /\ verifiedMap \subseteq Txs
    BY <1>1, ListFinite
  <1> QED BY <1>2, <1>3, <1>4, NoneAssumption DEF Entries

LEMMA EntryIs ==
  ASSUME PoolInv, NEW a \in Accounts
  PROVE  /\ Entry(a) \in Entries
         /\ a \notin disturbed => Exact(Entry(a), verifiedMap, a, balance)
  <1>1. fees[a] \in Entries \cup {None} /\ balance[a] \in Nat
    BY DEF PoolInv
  <1>2. CASE fees[a] = None
    <2>1. Entry(a) = [balance |-> balance[a], feeSum |-> 0]
      BY <1>2 DEF Entry
    <2>2. From(verifiedMap, a) = {}
      BY <1>2 DEF PoolInv, From
    <2>3. Total(verifiedMap, a) = 0
      BY <2>2, PoolIs, TotalIs
    <2> QED BY <1>1, <2>1, <2>3 DEF Entries, Exact
  <1>3. CASE fees[a] # None
    <2>1. Entry(a) = fees[a]
      BY <1>3 DEF Entry
    <2> QED BY <1>1, <1>3, <2>1 DEF PoolInv
  <1> QED BY <1>2, <1>3

(* Add: one transaction more, and less those that are replaced or evicted. *)
LEMMA AddsOne ==
  ASSUME PoolInv, NEW t \in Txs, t \notin verifiedMap,
         NEW u, u = None \/ (u \in verifiedMap /\ u.from = t.from),
         NEW sum, AddFitting(t, u, sum)
  PROVE  /\ IsList(verifiedTxes', verifiedMap')
         /\ \E gone \in SUBSET verifiedMap : /\ verifiedMap' = (verifiedMap \ gone) \cup {t}
                                             /\ \A g \in gone : g.from \in disturbed'
         /\ fees' = [fees EXCEPT ![t.from] = [balance |-> Entry(t.from).balance,
                       feeSum |-> (IF u = None THEN sum ELSE sum - Cost(u)) + Cost(t)]]
         /\ u # None => t.from \in disturbed'
         /\ disturbed \subseteq disturbed'
  <1> DEFINE removed == RemoveInternal(u, sum)
             txes == removed.txes
             full == Len(txes) = Capacity
             unlucky == txes[Len(txes)]
             rest == IF full THEN Front(txes) ELSE txes
             left == verifiedMap \ {u}
             ev == IF full THEN {unlucky} ELSE {}
  <1>1. /\ verifiedTxes' = InsertSorted(rest, t)
        /\ verifiedMap' = (verifiedMap \ ({u} \cup ev)) \cup {t}
        /\ fees' = [fees EXCEPT ![t.from] = [balance |-> Entry(t.from).balance,
                                             feeSum |-> removed.sum + Cost(t)]]
        /\ disturbed' = disturbed \cup (IF u = None THEN {} ELSE {t.from})
                                  \cup (IF full THEN {unlucky.from} ELSE {})
    BY DEF AddFitting
  <1>2. IsList(verifiedTxes, verifiedMap)
    BY DEF PoolInv
  <1>3. IsList(txes, left) /\ removed.sum = IF u = None THEN sum ELSE sum - Cost(u)
    <2>1. CASE u = None
      <3>1. left = verifiedMap
        BY <2>1, PoolIs
      <3>2. removed = [txes |-> verifiedTxes, sum |-> sum]
        BY <2>1 DEF RemoveInternal
      <3> QED BY <1>2, <2>1, <3>1, <3>2
    <2>2. CASE u # None
      <3> DEFINE num == CHOOSE i \in DOMAIN verifiedTxes : verifiedTxes[i] = u
      <3>1. u \in verifiedMap
        BY <2>2
      <3>2. \E i \in DOMAIN verifiedTxes : verifiedTxes[i] = u
        BY <1>2, <3>1 DEF IsList, ToSet
      <3>3. num \in DOMAIN verifiedTxes /\ verifiedTxes[num] = u
        BY <3>2
      <3>4. removed = [txes |-> RemoveAt(verifiedTxes, num), sum |-> sum - Cost(u)]
        BY <2>2 DEF RemoveInternal
      <3> HIDE DEF num, removed
      <3>5. num \in 1 .. Len(verifiedTxes)
        BY <3>3, PoolIs
      <3>6. IsList(RemoveAt(verifiedTxes, num), verifiedMap \ {u})
        BY <1>2, <3>3, <3>5, ListRemove
      <3> QED BY <2>2, <3>4, <3>6
    <2> QED BY <2>1, <2>2
  <1> HIDE DEF removed
  <1>4. IsList(rest, left \ ev) /\ ev \subseteq left
    <2>1. CASE full
      <3>1. Len(txes) # 0
        BY <2>1, PoolAssumption
      <3>2. IsList(Front(txes), left \ {unlucky}) /\ unlucky \in left
        <4> HIDE DEF txes, left
        <4> QED BY <1>3, <3>1, ListFront
      <3>3. rest = Front(txes) /\ ev = {unlucky}
        BY <2>1
      <3> HIDE DEF rest, ev, unlucky, left, txes
      <3> QED BY <3>2, <3>3
    <2>2. CASE ~full
      <3>1. rest = txes /\ ev = {}
        BY <2>2
      <3>2. left \ {} = left
        OBVIOUS
      <3> HIDE DEF rest, ev, left, txes
      <3> QED BY <1>3, <3>1, <3>2
    <2> QED BY <2>1, <2>2
  <1>5. IsList(InsertSorted(rest, t), (left \ ev) \cup {t})
    <2>1. t \notin left \ ev
      OBVIOUS
    <2> HIDE DEF rest, left, ev
    <2> QED BY <1>4, <2>1, ListInsert
  <1>6. (left \ ev) \cup {t} = verifiedMap'
    BY <1>1
  <1>7. IsList(verifiedTxes', verifiedMap')
    BY <1>1, <1>5, <1>6
  <1> DEFINE gone == verifiedMap \cap ({u} \cup ev)
  <1>8. verifiedMap' = (verifiedMap \ gone) \cup {t}
    BY <1>1
  <1>9. ASSUME NEW g \in gone PROVE g.from \in disturbed'
    <2>1. CASE g = u
      <3>1. u # None /\ u.from = t.from
        BY <2>1, PoolIs
      <3> QED BY <1>1, <2>1, <3>1
    <2>2. CASE g \in ev
      BY <1>1, <2>2
    <2> QED BY <2>1, <2>2
  <1>10. u # None => t.from \in disturbed'
    BY <1>1
  <1>11. disturbed \subseteq disturbed'
    BY <1>1
  <1>12. fees' = [fees EXCEPT ![t.from] = [balance |-> Entry(t.from).balance,
                       feeSum |-> (IF u = None THEN sum ELSE sum - Cost(u)) + Cost(t)]]
    BY <1>1, <1>3
  <1>13. \E G \in SUBSET verifiedMap : /\ verifiedMap' = (verifiedMap \ G) \cup {t}
                                       /\ \A g \in G : g.from \in disturbed'
    <2>1. gone \in SUBSET verifiedMap
      OBVIOUS
    <2> HIDE DEF gone
    <2> QED BY <1>8, <1>9, <2>1
  <1> QED BY <1>7, <1>10, <1>11, <1>12, <1>13

LEMMA SharedSubInt ==
  ASSUME NEW sum \in Int, NEW cost \in Nat, NEW x \in SharedSub(sum, cost) PROVE x \in Int
  BY DEF SharedSub

(* What PoolTx and ReplaceTx keep.                                         *)
LEMMA AddKeeps ==
  ASSUME PoolInv, NEW t \in Txs, t \notin verifiedMap, Verified(t),
         NEW u, u = None \/ (u \in verifiedMap /\ u.from = t.from),
         NEW sum \in Int, AddFitting(t, u, sum), UNCHANGED <<ledgerVars, checked>>,
         u = None => sum = Entry(t.from).feeSum /\ CheckBalance(t, Entry(t.from))
  PROVE  PoolInv'
  <1> DEFINE a == t.from
             all == (IF u = None THEN sum ELSE sum - Cost(u)) + Cost(t)
             new == [balance |-> Entry(a).balance, feeSum |-> all]
  <1>1. a \in Accounts /\ Cost(t) \in Nat /\ t.nonce \in Nat
    BY TxIs
  <1>2. /\ IsList(verifiedTxes', verifiedMap')
        /\ fees' = [fees EXCEPT ![a] = new]
        /\ u # None => a \in disturbed'
        /\ disturbed \subseteq disturbed'
    BY AddsOne
  <1>3. PICK gone \in SUBSET verifiedMap : /\ verifiedMap' = (verifiedMap \ gone) \cup {t}
                                           /\ \A g \in gone : g.from \in disturbed'
    BY AddsOne
  <1>4. UNCHANGED <<VerifyTransactions, nonce, balance, confirmed, feePerByte, checked>>
    BY DEF ledgerVars
  <1>5. Entry(a) \in Entries /\ (a \notin disturbed => Exact(Entry(a), verifiedMap, a, balance))
    BY <1>1, EntryIs
  <1>6. new \in Entries /\ new # None
    <2>1. all \in Int
      <3>1. u # None => Cost(u) \in Nat
        BY TxIs, PoolIs
      <3> QED BY <1>1, <3>1
    <2> HIDE DEF all
    <2>2. new \in Entries
      BY <1>5, <2>1 DEF Entries
    <2> QED BY <2>2, PoolIs
  <1> HIDE DEF new
  <1>7. fees \in [Accounts -> Entries \cup {None}]
    BY DEF PoolInv
  <1>8. fees' \in [Accounts -> Entries \cup {None}] /\ fees'[a] = new
        /\ \A b \in Accounts : b # a => fees'[b] = fees[b]
    BY <1>1, <1>2, <1>6, <1>7
  <1>9. ASSUME NEW v \in verifiedMap' PROVE InTurn(v)' /\ fees'[v.from] # None
    <2>1. CASE v = t
      <3>1. t.price >= GasPrice /\ t \notin confirmed /\ t.nonce = nonce[t.from]
        BY DEF Verified, HasTransaction
      <3>2. t.nonce <= nonce[t.from] /\ ~(t.nonce < nonce[t.from])
        BY <1>1, <3>1
      <3>3. InTurn(t)'
        BY <1>4, <3>1, <3>2 DEF InTurn
      <3> QED BY <1>6, <1>8, <2>1, <3>3
    <2>2. CASE v \in verifiedMap
      <3>1. InTurn(v) /\ fees[v.from] # None
        BY <2>2 DEF PoolInv
      <3>2. InTurn(v)'
        BY <1>4, <3>1 DEF InTurn
      <3>3. v.from \in Accounts
        BY <2>2, PoolIs, TxIs
      <3> QED BY <1>6, <1>8, <3>1, <3>2, <3>3
    <2> QED BY <1>3, <2>1, <2>2
  <1>10. ASSUME NEW b \in Accounts \ disturbed', fees'[b] # None
         PROVE  Exact(fees'[b], verifiedMap', b, balance')
    <2>1. b \notin disturbed /\ b \in Accounts
      BY <1>2
    <2>2. From(verifiedMap', b) = From(verifiedMap \cup {t}, b)
      BY <1>3 DEF From
    <2>3. Total(verifiedMap', b) = Total(verifiedMap \cup {t}, b)
      BY <2>2 DEF Total
    <2>4. Total(verifiedMap', b) = Total(verifiedMap, b) + IF a = b THEN Cost(t) ELSE 0
      BY <2>3, PoolIs, TotalIs
    <2>5. Total(verifiedMap, b) \in Nat
      BY PoolIs, TotalIs
    <2>6. CASE b = a
      <3>1. u = None
        BY <1>2, <2>6
      <3>2. sum = Entry(a).feeSum /\ CheckBalance(t, Entry(a))
        BY <3>1
      <3>3. new.balance = Entry(a).balance /\ new.feeSum = sum + Cost(t)
        BY <3>1 DEF new
      <3>4. Exact(Entry(a), verifiedMap, a, balance)
        BY <1>5, <2>1, <2>6
      <3>5. Total(verifiedMap', a) = Total(verifiedMap, a) + Cost(t)
        BY <2>4, <2>6
      <3>6. balance[a] >= Cost(t) + Total(verifiedMap, a)
        BY <3>2, <3>4 DEF CheckBalance, Exact
      <3>7. balance[a] \in Nat
        BY <1>1 DEF PoolInv
      <3>8. new.balance = balance[a] /\ new.feeSum = Total(verifiedMap, a) + Cost(t)
        BY <3>2, <3>3, <3>4 DEF Exact
      <3>9. Total(verifiedMap', a) <= balance[a]
        BY <1>1, <2>5, <2>6, <3>5, <3>6, <3>7
      <3> QED BY <1>4, <1>8, <2>6, <3>5, <3>8, <3>9 DEF Exact
    <2>7. CASE b # a
      <3>1. Total(verifiedMap', b) = Total(verifiedMap, b)
        BY <2>4, <2>5, <2>7
      <3>2. fees'[b] = fees[b]
        BY <1>8, <2>1, <2>7
      <3>3. Exact(fees[b], verifiedMap, b, balance)
        BY <1>10, <2>1, <3>2 DEF PoolInv
      <3> QED BY <1>4, <3>1, <3>2, <3>3 DEF Exact
    <2> QED BY <2>6, <2>7
  <1>11. /\ nonce' \in [Accounts -> Nat] /\ balance' \in [Accounts -> Nat] /\ feePerByte' \in Nat
         /\ \A v \in ToSet(checked') : v.nonce <= nonce'[v.from]
    BY <1>4 DEF PoolInv
  <1> QED BY <1>2, <1>8, <1>9, <1>10, <1>11 DEF PoolInv

LEMMA PoolTxKeeps == ASSUME PoolInv, NEW t \in Txs, PoolTx(t) PROVE PoolInv'
  <1>1. /\ Verified(t) /\ t \notin verifiedMap /\ CheckBalance(t, Entry(t.from))
        /\ AddFitting(t, None, Entry(t.from).feeSum) /\ UNCHANGED <<ledgerVars, checked>>
    BY DEF PoolTx
  <1>2. Entry(t.from).feeSum \in Int
    BY TxIs, EntryIs DEF Entries
  <1> DEFINE sum == Entry(t.from).feeSum
  <1>3. sum \in Int /\ AddFitting(t, None, sum) /\ sum = Entry(t.from).feeSum
    BY <1>1, <1>2
  <1> HIDE DEF sum
  <1>4. ASSUME NEW u, u = None, AddFitting(t, u, sum) PROVE PoolInv'
    <2>1. u = None \/ (u \in verifiedMap /\ u.from = t.from)
      BY <1>4, Zenon
    <2>2. u = None => sum = Entry(t.from).feeSum /\ CheckBalance(t, Entry(t.from))
      BY <1>1, <1>3
    <2>3. UNCHANGED <<ledgerVars, checked>>
      BY <1>1
    <2>4. Verified(t) /\ t \notin verifiedMap /\ sum \in Int
      BY <1>1, <1>3
    <2> QED BY <1>4, <2>1, <2>2, <2>3, <2>4, AddKeeps
  <1> QED BY <1>3, <1>4

LEMMA ReplaceTxKeeps == ASSUME PoolInv, NEW t \in Txs, ReplaceTx(t) PROVE PoolInv'
  <1>1. Verified(t) /\ t \notin verifiedMap /\ UNCHANGED <<ledgerVars, checked>>
    BY DEF ReplaceTx
  <1>2. PICK u \in Conflicts(t) : \E sum \in SharedSub(Entry(t.from).feeSum, Cost(u)) : AddFitting(t, u, sum)
    BY DEF ReplaceTx
  <1>3. PICK sum \in SharedSub(Entry(t.from).feeSum, Cost(u)) : AddFitting(t, u, sum)
    BY <1>2
  <1>4. u \in verifiedMap /\ u.from = t.from /\ u # None /\ Cost(u) \in Nat
    BY PoolIs, TxIs DEF Conflicts
  <1>5. Entry(t.from).feeSum \in Int
    BY TxIs, EntryIs DEF Entries
  <1>6. sum \in Int
    BY <1>4, <1>5, SharedSubInt
  <1> QED BY <1>1, <1>3, <1>4, <1>6, AddKeeps

(* A refused replacement spoils the entry of a sender that is marked.      *)
LEMMA ReplaceRefusedKeeps == ASSUME PoolInv, NEW t \in Txs, ReplaceRefused(t) PROVE PoolInv'
  <1> DEFINE a == t.from
  <1>1. /\ disturbed' = disturbed \cup {a}
        /\ UNCHANGED <<VerifyTransactions, verifiedTxes, verifiedMap, nonce, balance, confirmed,
                       feePerByte, checked>>
    BY DEF ReplaceRefused, ledgerVars
  <1>2. PICK u \in Conflicts(t) : \E sum \in SharedSub(Entry(a).feeSum, Cost(u)) :
          fees' = [fees EXCEPT ![a].feeSum = sum]
    BY DEF ReplaceRefused
  <1>3. PICK sum \in SharedSub(Entry(a).feeSum, Cost(u)) : fees' = [fees EXCEPT ![a].feeSum = sum]
    BY <1>2
  <1>4. u \in verifiedMap /\ u.from = a /\ Cost(u) \in Nat /\ a \in Accounts
    BY PoolIs, TxIs DEF Conflicts
  <1>5. Entry(a).feeSum \in Int
    BY TxIs, EntryIs DEF Entries
  <1>6. sum \in Int
    BY <1>4, <1>5, SharedSubInt
  <1>7. fees \in [Accounts -> Entries \cup {None}] /\ fees[a] # None
    BY <1>4 DEF PoolInv
  <1> DEFINE new == [fees[a] EXCEPT !.feeSum = sum]
  <1>8. new \in Entries /\ new # None
    <2>1. fees[a] \in Entries
      BY <1>4, <1>7
    <2>2. new \in Entries
      BY <1>6, <2>1 DEF Entries
    <2> QED BY <2>2, PoolIs
  <1>9. fees' = [fees EXCEPT ![a] = new]
    BY <1>3
  <1> HIDE DEF new
  <1>10. fees' \in [Accounts -> Entries \cup {None}] /\ fees'[a] # None
         /\ \A b \in Accounts : b # a => fees'[b] = fees[b]
    BY <1>4, <1>7, <1>8, <1>9
  <1>11. ASSUME NEW v \in verifiedMap' PROVE InTurn(v)' /\ fees'[v.from] # None
    <2>1. v \in verifiedMap /\ v.from \in Accounts
      BY <1>1, PoolIs, TxIs
    <2>2. InTurn(v) /\ fees[v.from] # None
      BY <2>1 DEF PoolInv
    <2> QED BY <1>1, <1>10, <2>1, <2>2 DEF InTurn
  <1>12. ASSUME NEW b \in Accounts \ disturbed', fees'[b] # None
         PROVE  Exact(fees'[b], verifiedMap', b, balance')
    <2>1. b \notin disturbed /\ b # a /\ fees'[b] = fees[b]
      BY <1>1, <1>10
    <2> QED BY <1>1, <1>12, <2>1 DEF PoolInv, Exact
  <1> QED BY <1>1, <1>10, <1>11, <1>12 DEF PoolInv

---------------------------------------------------------------------------
(* Blocks *)

CostsAt(s) == [i \in DOMAIN s |-> Cost(s[i])]
Places(s, k, a) == {i \in 1 .. k : s[i].from = a}

LEMMA SortedIs ==
  ASSUME NEW s \in Blocks
  PROVE  /\ s \in Seq(Txs) /\ Len(s) \in Nat /\ DOMAIN s = 1 .. Len(s)
         /\ IsList(s, ToSet(s)) /\ ToSet(s) \subseteq Txs
         /\ IsFiniteSet(ToSet(s)) /\ \A i \in 1 .. Len(s) : s[i] \in Txs
  <1>1. PICK m \in 0 .. MaxBlockTxs : s \in [1 .. m -> Txs]
    BY DEF Blocks, SeqOf
  <1>2. m \in Nat
    BY PoolAssumption
  <1>3. s \in Seq(Txs) /\ Len(s) = m /\ DOMAIN s = 1 .. m /\ \A i \in 1 .. m : s[i] \in Txs
    BY <1>1, <1>2
  <1>4. \A i, j \in 1 .. m : i < j => Before(s[i], s[j])
    BY <1>3 DEF Blocks
  <1>5. \A t \in Txs : ~Before(t, t)
    BY TxIs DEF Before
  <1>6. Different(s)
    <2> SUFFICES ASSUME NEW i \in 1 .. m, NEW j \in 1 .. m, s[i] = s[j], i # j PROVE FALSE
      BY <1>3 DEF Different
    <2>1. i < j \/ j < i
      BY <1>2
    <2>2. s[i] \in Txs
      BY <1>3
    <2> QED BY <1>4, <1>5, <2>1, <2>2
  <1>7. IsList(s, ToSet(s)) /\ ToSet(s) \subseteq Txs
    BY <1>3, <1>6 DEF IsList, ToSet
  <1>8. IsFiniteSet(ToSet(s))
    BY <1>7, ListFinite
  <1> QED BY <1>2, <1>3, <1>7, <1>8

LEMMA CostsUpToIs ==
  ASSUME NEW s, NEW n \in Nat, DOMAIN s = 1 .. n, NEW k \in 0 .. n, NEW a
  PROVE  CostsUpTo(s, k, a) = Sum(CostsAt(s), Places(s, k, a)) /\ IsFiniteSet(Places(s, k, a))
  <1> DEFINE S == Places(s, k, a)
             Is(g) == g = [p \in SUBSET S |-> IF p = {} THEN 0 ELSE Cost(s[Pick(p)]) + g[p \ {Pick(p)}]]
  <1>1. CostsUpTo(s, k, a) = (CHOOSE g : Is(g))[S]
    BY DEF CostsUpTo, MapThenSumSet, MapThenFoldSet, Pick, Places
  <1>2. IsFiniteSet(S)
    <2>1. IsFiniteSet(1 .. k)
      BY FS_Interval
    <2> QED BY <2>1, FS_Subset DEF Places
  <1>3. PICK h : IsSummer(h, CostsAt(s), S)
    BY <1>2, SummerIs
  <1>4. \A p \in SUBSET S : p # {} => CostsAt(s)[Pick(p)] = Cost(s[Pick(p)])
    <2>1. S \subseteq DOMAIN s
      BY DEF Places
    <2> HIDE DEF S
    <2> QED BY <2>1 DEF Pick, CostsAt
  <1>5. Is(h)
    BY <1>3, <1>4 DEF IsSummer, Rule
  <1>6. PICK g : g = CHOOSE x : Is(x)
    OBVIOUS
  <1>7. Is(g)
    <2> HIDE DEF Is
    <2> QED BY <1>5, <1>6
  <1>8. Sums(g, CostsAt(s), S)
    BY <1>4, <1>7 DEF Sums, Rule
  <1>9. Sum(CostsAt(s), S) = g[S]
    BY <1>2, <1>8, SumSub
  <1> QED BY <1>1, <1>2, <1>6, <1>9

(* Executing one transaction takes a nonce or two of its sender, and never *)
(* more than it has.                                                       *)
LEMMA ExecuteIs ==
  ASSUME NEW acc, NEW t \in Txs, NEW ok \in BOOLEAN, NEW left \in 0 .. 1,
         acc = [nonce |-> acc.nonce, balance |-> acc.balance],
         acc.nonce \in [Accounts -> Nat], acc.balance \in [Accounts -> Nat], feePerByte \in Nat
  PROVE  LET r == Execute(acc, t, ok, left)
         IN  /\ r = [nonce |-> r.nonce, balance |-> r.balance]
             /\ r.nonce \in [Accounts -> Nat] /\ r.balance \in [Accounts -> Nat]
             /\ \A a \in Accounts : acc.nonce[a] <= r.nonce[a]
             /\ \A a \in Accounts : a # t.from => r.nonce[a] = acc.nonce[a]
  <1> DEFINE r == Execute(acc, t, ok, left)
             b == t.from
             has == acc.balance[b] > t.value
             rest == acc.balance[b] - IF ok /\ has THEN t.value ELSE 0
             charge == UsedGas(t, left) * GasPrice
             new == IF rest >= charge THEN rest - charge ELSE rest
             more == IF t.creates /\ has THEN 2 ELSE 1
  <1>1. b \in Accounts /\ t.value \in Nat /\ t.gas \in Nat /\ GasPrice \in Nat
    BY TxIs, PoolAssumption
  <1>2. UsedGas(t, left) \in Nat
    BY <1>1, TxIs DEF UsedGas
  <1>3. charge \in Nat
    BY <1>1, <1>2, NatProduct
  <1>4. acc.balance[b] \in Nat
    BY <1>1
  <1> HIDE DEF charge
  <1>5. rest \in Nat
    BY <1>1, <1>4
  <1>6. new \in Nat
    <2> HIDE DEF rest
    <2> QED BY <1>3, <1>5
  <1>7. more \in {1, 2}
    OBVIOUS
  <1>8. r.nonce = [acc.nonce EXCEPT ![b] = @ + more] /\ r.balance = [acc.balance EXCEPT ![b] = new]
        /\ r = [nonce |-> r.nonce, balance |-> r.balance]
    BY DEF Execute, charge
  <1> HIDE DEF has, rest, new, more, b
  <1>9. /\ r.nonce \in [Accounts -> Nat] /\ r.balance \in [Accounts -> Nat]
        /\ \A a \in Accounts : acc.nonce[a] <= r.nonce[a]
        /\ \A a \in Accounts : a # b => r.nonce[a] = acc.nonce[a]
    <2> HIDE DEF r
    <2> QED BY <1>1, <1>6, <1>7, <1>8
  <1> QED BY <1>8, <1>9 DEF b

(* Executing a block: the balances stay what they can be, and no nonce     *)
(* falls; one that grows is of the sender of a transaction of the block.   *)
LEMMA RunIs ==
  ASSUME PoolInv, NEW s \in Blocks, NEW ok \in BOOLEAN, NEW left \in 0 .. 1
  PROVE  LET r == Ran(s, ok, left)
         IN  /\ r.nonce \in [Accounts -> Nat] /\ r.balance \in [Accounts -> Nat]
             /\ \A a \in Accounts : /\ nonce[a] <= r.nonce[a]
                                    /\ nonce[a] < r.nonce[a] => \E t \in ToSet(s) : t.from = a
  <1> DEFINE n == Len(s)
  <1>1. n \in Nat /\ DOMAIN s = 1 .. n /\ \A i \in 1 .. n : s[i] \in Txs /\ s[i] \in ToSet(s)
    BY SortedIs DEF ToSet
  <1> HIDE DEF n
  <1>2. PICK h : Runs(h, s, n, ok, left)
    BY <1>1, RunSteps
  <1>3. nonce \in [Accounts -> Nat] /\ balance \in [Accounts -> Nat] /\ feePerByte \in Nat
    BY DEF PoolInv
  <1> DEFINE Good(k) == /\ h[k] = [nonce |-> h[k].nonce, balance |-> h[k].balance]
                        /\ h[k].nonce \in [Accounts -> Nat] /\ h[k].balance \in [Accounts -> Nat]
                        /\ \A a \in Accounts :
                              /\ nonce[a] <= h[k].nonce[a]
                              /\ nonce[a] < h[k].nonce[a] => \E t \in ToSet(s) : t.from = a
             Bad == {k \in 0 .. n : ~Good(k)}
  <1>4. Bad = {}
    <2> SUFFICES ASSUME Bad # {} PROVE FALSE
      OBVIOUS
    <2>1. PICK k \in Bad : \A j \in Bad : k <= j
      <3>1. Bad \subseteq Nat
        <4> HIDE DEF Good
        <4> QED BY <1>1
      <3> HIDE DEF Bad
      <3> QED BY <3>1, LeastIs
    <2>2. k \in 0 .. n /\ ~Good(k)
      <3> HIDE DEF Good
      <3> QED BY <2>1
    <2>3. CASE k = 0
      <3>1. h[k].nonce = nonce /\ h[k].balance = balance
            /\ h[k] = [nonce |-> h[k].nonce, balance |-> h[k].balance]
        BY <1>2, <2>3 DEF Runs, Standing
      <3> QED BY <1>3, <2>2, <3>1
    <2>4. CASE k # 0
      <3>1. k \in 1 .. n /\ k - 1 \in 0 .. n /\ ~(k <= k - 1)
        BY <1>1, <2>2, <2>4
      <3>2. Good(k - 1)
        <4>1. k - 1 \notin Bad
          <5> HIDE DEF Bad
          <5> QED BY <2>1, <3>1
        <4> HIDE DEF Good
        <4> QED BY <3>1, <4>1
      <3>3. h[k] = Execute(h[k - 1], s[k], ok, left) /\ s[k] \in Txs /\ s[k] \in ToSet(s)
        BY <1>1, <1>2, <3>1 DEF Runs
      <3>4. /\ h[k] = [nonce |-> h[k].nonce, balance |-> h[k].balance]
            /\ h[k].nonce \in [Accounts -> Nat] /\ h[k].balance \in [Accounts -> Nat]
            /\ \A a \in Accounts : h[k - 1].nonce[a] <= h[k].nonce[a]
            /\ \A a \in Accounts : a # s[k].from => h[k].nonce[a] = h[k - 1].nonce[a]
        <4>1. /\ h[k - 1] = [nonce |-> h[k - 1].nonce, balance |-> h[k - 1].balance]
              /\ h[k - 1].nonce \in [Accounts -> Nat] /\ h[k - 1].balance \in [Accounts -> Nat]
          BY <3>2
        <4> HIDE DEF Good, Bad
        <4> DEFINE acc == h[k - 1]
        <4>2. acc = [nonce |-> acc.nonce, balance |-> acc.balance]
              /\ acc.nonce \in [Accounts -> Nat] /\ acc.balance \in [Accounts -> Nat]
          BY <4>1
        <4>3. feePerByte \in Nat
          BY <1>3
        <4> HIDE DEF acc
        <4>4. LET r == Execute(acc, s[k], ok, left)
              IN  /\ r = [nonce |-> r.nonce, balance |-> r.balance]
                  /\ r.nonce \in [Accounts -> Nat] /\ r.balance \in [Accounts -> Nat]
                  /\ \A a \in Accounts : acc.nonce[a] <= r.nonce[a]
                  /\ \A a \in Accounts : a # s[k].from => r.nonce[a] = acc.nonce[a]
          BY <3>3, <4>2, <4>3, ExecuteIs
        <4> QED BY <3>3, <4>4 DEF acc
      <3>5. ASSUME NEW a \in Accounts
            PROVE  /\ nonce[a] <= h[k].nonce[a]
                   /\ nonce[a] < h[k].nonce[a] => \E t \in ToSet(s) : t.from = a
        <4>1. nonce[a] \in Nat /\ h[k - 1].nonce[a] \in Nat /\ h[k].nonce[a] \in Nat
          BY <1>3, <3>2, <3>4
        <4>2. nonce[a] <= h[k - 1].nonce[a] /\ h[k - 1].nonce[a] <= h[k].nonce[a]
          BY <3>2, <3>4
        <4>3. nonce[a] < h[k - 1].nonce[a] => \E t \in ToSet(s) : t.from = a
          BY <3>2
        <4>4. a # s[k].from => h[k].nonce[a] = h[k - 1].nonce[a]
          BY <3>4
        <4> HIDE DEF Good, Bad
        <4> QED BY <3>3, <4>1, <4>2, <4>3, <4>4
      <3> QED BY <2>2, <3>4, <3>5
    <2> QED BY <2>3, <2>4
  <1>5. Good(n)
    <2>1. n \in 0 .. n
      BY <1>1
    <2> HIDE DEF Good
    <2> QED BY <1>4, <2>1
  <1> QED BY <1>2, <1>5 DEF Runs

(* A verified block: each of its transactions is in turn.                  *)
LEMMA BlockIs ==
  ASSUME PoolInv, NEW s \in Blocks, BlockVerified(s)
  PROVE  \A t \in ToSet(s) : /\ t \in verifiedMap \/ Verified(t)
                             /\ t.nonce <= nonce[t.from]
  <1>1. DOMAIN s = 1 .. Len(s)
    BY SortedIs
  <1>2. \A t \in ToSet(s) : t \in verifiedMap \/ Verified(t)
    BY <1>1 DEF BlockVerified, ToSet
  <1>3. ASSUME NEW t \in ToSet(s) PROVE t.nonce <= nonce[t.from]
    <2>1. CASE t \in verifiedMap
      BY <2>1 DEF PoolInv, InTurn
    <2>2. CASE Verified(t)
      <3>1. t.nonce = nonce[t.from] /\ t.nonce \in Nat
        BY <2>2, SortedIs, TxIs DEF Verified
      <3> QED BY <3>1
    <2> QED BY <1>2, <2>1, <2>2
  <1> QED BY <1>2, <1>3

LEMMA VerifyBlockKeeps == ASSUME PoolInv, NEW s \in Blocks, VerifyBlock(s) PROVE PoolInv'
  <1>1. /\ BlockVerified(s) /\ checked' = s
        /\ UNCHANGED <<VerifyTransactions, verifiedTxes, verifiedMap, fees, nonce, balance, feePerByte,
                       confirmed, disturbed>>
    BY DEF VerifyBlock, ledgerVars
  <1>2. \A t \in ToSet(s) : t.nonce <= nonce[t.from]
    BY <1>1, BlockIs
  <1> QED BY <1>1, <1>2 DEF PoolInv, InTurn

LEMMA AddBlockKeeps ==
  ASSUME PoolInv, NEW s \in Blocks, NEW ok \in BOOLEAN, NEW left \in 0 .. 1,
         NEW fee \in Nat, AddBlock(s, ok, left, fee)
  PROVE  PoolInv'
  <1> DEFINE block == ToSet(s)
             ran == Ran(s, ok, left)
             bal == ran.balance
             drop == {t \in verifiedMap : ~(IsTxStillRelevant(t, block) /\ CheckPolicy(t, fee))}
             res == Filtered(verifiedTxes, bal, drop)
  <1>1. /\ VerifyTransactions' = VerifyTransactions
        /\ VerifyTransactions => BlockVerified(s)
        /\ balance' = bal /\ nonce' = ran.nonce /\ confirmed' = confirmed \cup block
        /\ feePerByte' = fee /\ checked' = <<>>
        /\ RemoveStale(block, bal, fee)
    BY RanIs DEF AddBlock
  <1>2. bal \in [Accounts -> Nat]
    BY RunIs
  <1>3. /\ verifiedTxes' = res.txes /\ verifiedMap' = ToSet(res.txes) /\ fees' = res.fees
        /\ disturbed' = {}
    BY <1>1, FilteredIs DEF RemoveStale
  <1>4. Clean(res, bal) /\ ToSet(res.txes) \subseteq verifiedMap \ drop
    <2>1. IsList(verifiedTxes, verifiedMap)
      BY DEF PoolInv
    <2> HIDE DEF bal, drop
    <2> QED BY <1>2, <2>1, Filtering
  <1>5. verifiedMap' \subseteq verifiedMap \ block
    <2>1. \A t \in verifiedMap : t \in block => t \in drop
      BY DEF IsTxStillRelevant
    <2> HIDE DEF drop, res, block
    <2> QED BY <1>3, <1>4, <2>1
  <1>6. VerifyTransactions => \A t \in block : t.nonce <= nonce[t.from]
    BY <1>1, BlockIs
  <1>7. nonce \in [Accounts -> Nat]
    BY DEF PoolInv
  <1>8. /\ nonce' \in [Accounts -> Nat]
        /\ \A a \in Accounts : /\ nonce[a] <= nonce'[a]
                               /\ nonce[a] < nonce'[a] => \E t \in block : t.from = a
    BY <1>1, RunIs
  <1>9. \A t \in ToSet(checked') : t.nonce <= nonce'[t.from]
    BY <1>1 DEF ToSet
  <1> HIDE DEF block, ran, bal, drop, res
  <1>10. ASSUME NEW t \in verifiedMap' PROVE InTurn(t)' /\ fees'[t.from] # None
    <2>1. t \in verifiedMap /\ t \notin block /\ InTurn(t) /\ t \in Txs
      BY <1>5, PoolIs DEF PoolInv
    <2>2. t.from \in Accounts /\ t.nonce \in Nat
      BY <2>1, TxIs
    <2> DEFINE a == t.from
    <2>3. nonce[a] \in Nat /\ nonce'[a] \in Nat /\ nonce[a] <= nonce'[a] /\ t.nonce <= nonce[a]
      BY <1>7, <1>8, <2>1, <2>2 DEF InTurn
    <2>4. t.nonce <= nonce'[a]
      BY <2>2, <2>3
    <2>5. ASSUME VerifyTransactions, t.nonce < nonce'[a] PROVE \E u \in confirmed' : u.from = a /\ u.nonce <= t.nonce
      <3>1. CASE t.nonce < nonce[a]
        BY <1>1, <2>1, <2>5, <3>1 DEF InTurn
      <3>2. CASE t.nonce = nonce[a]
        <4>1. nonce[a] < nonce'[a]
          BY <2>5, <3>2
        <4>2. PICK u \in block : u.from = a
          BY <1>8, <2>2, <4>1
        <4>3. u.nonce <= t.nonce
          BY <1>6, <2>5, <3>2, <4>2
        <4> QED BY <1>1, <4>2, <4>3
      <3> QED BY <2>2, <2>3, <3>1, <3>2
    <2>6. t.price >= GasPrice /\ t \notin confirmed'
      BY <1>1, <2>1 DEF InTurn
    <2>7. InTurn(t)'
      BY <1>1, <2>4, <2>5, <2>6 DEF InTurn
    <2>8. fees'[t.from] # None
      <3>1. t \in From(ToSet(res.txes), a)
        BY <1>3 DEF From
      <3>2. From(ToSet(res.txes), a) # {}
        BY <3>1
      <3> QED BY <1>3, <1>4, <2>2, <3>2 DEF Clean
    <2> QED BY <2>7, <2>8
  <1>11. ASSUME NEW a \in Accounts, fees'[a] # None PROVE Exact(fees'[a], verifiedMap', a, balance')
    BY <1>1, <1>3, <1>4, <1>11 DEF Clean
  <1>12. IsList(verifiedTxes', verifiedMap') /\ fees' \in [Accounts -> Entries \cup {None}]
    BY <1>3, <1>4 DEF Clean
  <1>13. balance' \in [Accounts -> Nat] /\ feePerByte' \in Nat
    BY <1>1, <1>2
  <1> QED BY <1>8, <1>9, <1>10, <1>11, <1>12, <1>13 DEF PoolInv

LEMMA InitInv == Init => PoolInv
  <1> SUFFICES ASSUME Init PROVE PoolInv
    OBVIOUS
  <1>1. IsList(<<>>, {})
    BY DEF IsList, Different, ToSet
  <1>2. NoFees \in [Accounts -> Entries \cup {None}] /\ \A a \in Accounts : NoFees[a] = None
    BY DEF NoFees
  <1>3. InitialBalance \in Nat /\ ToSet(<<>>) = {}
    BY PoolAssumption DEF ToSet
  <1> QED BY <1>1, <1>2, <1>3 DEF Init, PoolInv

LEMMA StepInv == PoolInv /\ [Next]_vars => PoolInv'
  <1> SUFFICES ASSUME PoolInv, [Next]_vars PROVE PoolInv'
    OBVIOUS
  <1>1. CASE UNCHANGED vars
    BY <1>1 DEF vars, PoolInv, InTurn
  <1>2. ASSUME NEW t \in Txs, PoolTx(t) PROVE PoolInv'
    BY <1>2, PoolTxKeeps
  <1>3. ASSUME NEW t \in Txs, ReplaceTx(t) PROVE PoolInv'
    BY <1>3, ReplaceTxKeeps
  <1>4. ASSUME NEW t \in Txs, ReplaceRefused(t) PROVE PoolInv'
    BY <1>4, ReplaceRefusedKeeps
  <1>5. ASSUME NEW s \in Blocks, NEW ok \in BOOLEAN, NEW left \in 0 .. 1,
               NEW fee \in feePerByte .. MaxFeePerByte, AddBlock(s, ok, left, fee)
        PROVE  PoolInv'
    <2>1. fee \in Nat
      BY PoolAssumption DEF PoolInv
    <2> QED BY <1>5, <2>1, AddBlockKeeps
  <1>6. ASSUME NEW s \in Blocks, VerifyBlock(s) PROVE PoolInv'
    BY <1>6, VerifyBlockKeeps
  <1> QED BY <1>1, <1>2, <1>3, <1>4, <1>5, <1>6 DEF Next

LEMMA PoolInvariant == Spec => []PoolInv
  BY InitInv, StepInv, PTL DEF Spec

---------------------------------------------------------------------------
(* The properties *)

LEMMA PooledCostIs ==
  ASSUME PoolInv, NEW a
  PROVE  PooledCost(a) = Total(verifiedMap, a)
  <1>1. From(verifiedMap, a) \subseteq Txs /\ IsFiniteSet(From(verifiedMap, a))
    BY PoolIs, FS_Subset DEF From
  <1>2. MapThenSumSet(Cost, From(verifiedMap, a)) = Sum(CostOf, From(verifiedMap, a))
    BY <1>1, CostSum
  <1> QED BY <1>2 DEF PooledCost, Total, From

(* The sum that Add and RemoveStale keep for a sender is the cost of its   *)
(* pooled transactions, and its balance in the ledger covers it, unless    *)
(* one of them was replaced or evicted since the last block.               *)
THEOREM FeesAreExact == Spec => []FeesExact
  <1>1. PoolInv => FeesExact
    <2> SUFFICES ASSUME PoolInv, NEW a \in Accounts \ disturbed
                 PROVE  /\ fees[a] # None => fees[a].balance = balance[a] /\ fees[a].feeSum = PooledCost(a)
                        /\ PooledCost(a) <= balance[a]
      BY DEF FeesExact
    <2>1. Exact(Entry(a), verifiedMap, a, balance)
      BY EntryIs
    <2>2. fees[a] # None => Entry(a) = fees[a]
      BY DEF Entry
    <2> QED BY <2>1, <2>2, PooledCostIs DEF Exact
  <1> QED BY <1>1, PoolInvariant, PTL

(* No transaction of a block that this node has verified is executed       *)
(* before its turn: of a block its verifyBlock accepted, or of any with    *)
(* VerifyTransactions; and then one whose turn has passed is one that this *)
(* node pooled when it was next (AddBlock, verifyBlock).                   *)
THEOREM NoneEarly == Spec => NeverEarly
  <1> DEFINE OnTime(t) ==
               /\ (VerifyTransactions \/ (confirmed' \ confirmed) \subseteq ToSet(checked)) =>
                     t.nonce <= nonce[t.from]
               /\ (VerifyTransactions /\ t.nonce < nonce[t.from]) =>
                     /\ t \in verifiedMap
                     /\ \E u \in confirmed : u.from = t.from /\ u.nonce <= t.nonce
             InTime == \A t \in confirmed' \ confirmed : OnTime(t)
  <1>1. PoolInv /\ [Next]_vars => [InTime]_vars
    <2> SUFFICES ASSUME PoolInv, Next PROVE InTime
      OBVIOUS
    <2>1. ASSUME NEW t \in Txs, PoolTx(t) \/ ReplaceTx(t) \/ ReplaceRefused(t) PROVE InTime
      <3>1. confirmed' = confirmed
        BY <2>1 DEF PoolTx, ReplaceTx, ReplaceRefused, ledgerVars
      <3> QED BY <3>1
    <2>2. ASSUME NEW s \in Blocks, VerifyBlock(s) PROVE InTime
      <3>1. confirmed' = confirmed
        BY <2>2 DEF VerifyBlock, ledgerVars
      <3> QED BY <3>1
    <2>3. ASSUME NEW s \in Blocks, NEW ok \in BOOLEAN, NEW left \in 0 .. 1,
                 NEW fee \in feePerByte .. MaxFeePerByte, AddBlock(s, ok, left, fee)
          PROVE  InTime
      <3> SUFFICES ASSUME NEW t \in confirmed' \ confirmed PROVE OnTime(t)
        OBVIOUS
      <3>1. t \in ToSet(s) /\ (VerifyTransactions => BlockVerified(s))
        BY <2>3 DEF AddBlock
      <3>2. t \in Txs
        BY <3>1, SortedIs
      <3>3. VerifyTransactions => /\ t \in verifiedMap \/ Verified(t)
                                  /\ t.nonce <= nonce[t.from]
        BY <3>1, BlockIs
      <3>4. t \in ToSet(checked) => t.nonce <= nonce[t.from]
        BY DEF PoolInv
      <3>5. ASSUME VerifyTransactions, t.nonce < nonce[t.from]
            PROVE  t \in verifiedMap /\ \E u \in confirmed : u.from = t.from /\ u.nonce <= t.nonce
        <4>1. ~Verified(t)
          <5> SUFFICES ASSUME Verified(t) PROVE FALSE
            OBVIOUS
          <5>1. t.nonce = nonce[t.from] /\ t.nonce \in Nat
            BY <3>2, TxIs DEF Verified
          <5> QED BY <3>5, <5>1
        <4>2. t \in verifiedMap
          BY <3>3, <3>5, <4>1
        <4> QED BY <3>5, <4>2 DEF PoolInv, InTurn
      <3> QED BY <3>3, <3>4, <3>5
    <2> QED BY <2>1, <2>2, <2>3 DEF Next
  <1> QED BY <1>1, PoolInvariant, PTL DEF Spec, NeverEarly

---------------------------------------------------------------------------
(* Proposals *)

(* What getVerifiedTx takes of an earlier proposal.                        *)
LEMMA Taking ==
  ASSUME NEW q, IsList(q, ToSet(q)), NEW map
  PROVE  LET r == Taken(q, map)
         IN  IsList(r, ToSet(r)) /\ ToSet(r) \subseteq map
  <1> DEFINE n == Len(q)
  <1>1. q \in Seq(Txs) /\ n \in Nat /\ DOMAIN q = 1 .. n
    BY LenProperties DEF IsList
  <1>2. \A i \in 1 .. n : q[i] \in Txs
    BY <1>1, ElementOfSeq
  <1>3. \A i, j \in 1 .. n : q[i] = q[j] => i = j
    BY <1>1 DEF IsList, Different
  <1> HIDE DEF n
  <1>4. PICK h : /\ Taken(q, map) = h[n] /\ h[0] = <<>>
                 /\ \A k \in 1 .. n : h[k] = Take(h[k - 1], q[k], map)
    BY <1>1, TakeSteps
  <1> DEFINE Good(k) == /\ IsList(h[k], ToSet(h[k]))
                        /\ \A u \in ToSet(h[k]) : u \in map /\ \E i \in 1 .. k : u = q[i]
             Bad == {k \in 0 .. n : ~Good(k)}
  <1>5. Bad = {}
    <2> SUFFICES ASSUME Bad # {} PROVE FALSE
      OBVIOUS
    <2>1. PICK k \in Bad : \A j \in Bad : k <= j
      <3>1. Bad \subseteq Nat
        <4> HIDE DEF Good
        <4> QED BY <1>1
      <3> HIDE DEF Bad
      <3> QED BY <3>1, LeastIs
    <2>2. k \in 0 .. n /\ ~Good(k)
      <3> HIDE DEF Good
      <3> QED BY <2>1
    <2>3. CASE k = 0
      <3>1. h[k] = <<>>
        BY <1>4, <2>3
      <3>2. ToSet(<<>>) = {}
        BY DEF ToSet
      <3>3. IsList(<<>>, {})
        BY <3>2 DEF IsList, Different
      <3> QED BY <2>2, <3>1, <3>2, <3>3
    <2>4. CASE k # 0
      <3>1. k \in 1 .. n /\ k - 1 \in 0 .. n /\ ~(k <= k - 1)
        BY <1>1, <2>2, <2>4
      <3>2. Good(k - 1)
        <4>1. k - 1 \notin Bad
          <5> HIDE DEF Bad
          <5> QED BY <2>1, <3>1
        <4> HIDE DEF Good
        <4> QED BY <3>1, <4>1
      <3>3. h[k] = Take(h[k - 1], q[k], map) /\ q[k] \in Txs
        BY <1>2, <1>4, <3>1
      <3>4. q[k] \notin ToSet(h[k - 1])
        <4> SUFFICES ASSUME NEW i \in 1 .. k - 1 PROVE q[k] # q[i]
          BY <3>2
        <4>1. i \in 1 .. n /\ i # k
          BY <1>1, <3>1
        <4> QED BY <1>3, <3>1, <4>1
      <3>5. \A i \in 1 .. k - 1 : i \in 1 .. k
        BY <1>1, <3>1
      <3>6. CASE q[k] \in map
        <4>1. h[k] = Append(h[k - 1], q[k])
          BY <3>3, <3>6 DEF Take
        <4>2. IsList(h[k], ToSet(h[k - 1]) \cup {q[k]})
          <5>1. IsList(h[k - 1], ToSet(h[k - 1]))
            BY <3>2
          <5> QED BY <3>3, <3>4, <4>1, <5>1, ListAppend
        <4>3. ToSet(h[k]) = ToSet(h[k - 1]) \cup {q[k]}
          BY <4>2 DEF IsList
        <4>4. k \in 1 .. k
          BY <3>1
        <4>5. \A u \in ToSet(h[k]) : u \in map /\ \E i \in 1 .. k : u = q[i]
          BY <3>2, <3>5, <3>6, <4>3, <4>4
        <4> QED BY <2>2, <4>2, <4>3, <4>5
      <3>7. CASE q[k] \notin map
        <4>1. h[k] = h[k - 1]
          BY <3>3, <3>7 DEF Take
        <4> QED BY <2>2, <3>2, <3>5, <4>1
      <3> QED BY <3>6, <3>7
    <2> QED BY <2>3, <2>4
  <1>6. Good(n)
    <2>1. n \in 0 .. n
      BY <1>1
    <2> HIDE DEF Good
    <2> QED BY <1>5, <2>1
  <1> QED BY <1>4, <1>6

LEMMA ProposalIs ==
  ASSUME PoolInv, NEW s \in Proposals
  PROVE  IsList(s, ToSet(s)) /\ ToSet(s) \subseteq verifiedMap
  <1>1. PICK last \in Blocks : s = ApplyPolicyToTxSet(GetVerifiedTx(last))
    BY DEF Proposals
  <1> DEFINE r == GetVerifiedTx(last)
  <1>2. IsList(r, ToSet(r)) /\ ToSet(r) \subseteq verifiedMap
    <2>1. IsList(verifiedTxes, verifiedMap) /\ ToSet(verifiedTxes) = verifiedMap
      BY DEF PoolInv, IsList
    <2>2. IsList(last, ToSet(last))
      BY SortedIs
    <2>3. IsList(Taken(last, verifiedMap), ToSet(Taken(last, verifiedMap)))
          /\ ToSet(Taken(last, verifiedMap)) \subseteq verifiedMap
      BY <2>2, Taking
    <2>4. r = verifiedTxes \/ r = Taken(last, verifiedMap)
      BY TakenIs DEF GetVerifiedTx
    <2> HIDE DEF r
    <2> QED BY <2>1, <2>3, <2>4
  <1> HIDE DEF r
  <1> DEFINE m == IF Len(r) > MaxBlockTxs THEN MaxBlockTxs ELSE Len(r)
  <1>3. r \in Seq(Txs) /\ Len(r) \in Nat /\ DOMAIN r = 1 .. Len(r)
    BY <1>2, LenProperties DEF IsList
  <1>4. m \in Nat /\ m <= Len(r)
    BY <1>3, PoolAssumption
  <1>5. s = SubSeq(r, 1, m)
    BY <1>1 DEF ApplyPolicyToTxSet, r
  <1> HIDE DEF m
  <1>6. s \in Seq(Txs) /\ Len(s) = m /\ \A i \in 1 .. m : s[i] = r[i]
    <2>1. 1 \in 1 .. Len(r) + 1 /\ m \in 1 - 1 .. Len(r) /\ m - 1 + 1 = m
      BY <1>3, <1>4
    <2>2. /\ s \in Seq(Txs) /\ Len(s) = m - 1 + 1
          /\ \A i \in 1 .. m - 1 + 1 : s[i] = r[1 + i - 1]
      BY <1>3, <1>5, <2>1, PartIs
    <2>3. \A i \in 1 .. m : 1 + i - 1 = i
      BY <1>4
    <2> QED BY <2>1, <2>2, <2>3
  <1>7. DOMAIN s = 1 .. m /\ \A i \in 1 .. m : i \in DOMAIN r
    BY <1>3, <1>4, <1>6, LenProperties
  <1>8. Different(s)
    BY <1>2, <1>6, <1>7 DEF Different, IsList
  <1>9. ToSet(s) \subseteq ToSet(r)
    BY <1>6, <1>7 DEF ToSet
  <1> QED BY <1>2, <1>6, <1>8, <1>9 DEF IsList

(* What a node proposes of its pool, in view 0 or later, is in no block    *)
(* yet, and as long as nothing was replaced or evicted since the last      *)
(* block it passes verifyBlock at the node itself: getVerifiedTx and       *)
(* ApplyPolicyToTxSet against the balances that RemoveStale left.          *)
THEOREM ProposalsPass == Spec => []ProposalVerified
  <1>1. PoolInv => ProposalVerified
    <2> SUFFICES ASSUME PoolInv, NEW s \in Proposals
                 PROVE  ToSet(s) \cap confirmed = {} /\ (disturbed = {} => BlockVerified(s))
      BY DEF ProposalVerified
    <2>1. IsList(s, ToSet(s)) /\ ToSet(s) \subseteq verifiedMap
      BY ProposalIs
    <2>2. ToSet(s) \cap confirmed = {}
      BY <2>1 DEF PoolInv, InTurn
    <2>3. ASSUME disturbed = {} PROVE BlockVerified(s)
      <3> SUFFICES ASSUME NEW k \in DOMAIN s
                   PROVE  s[k] \in verifiedMap /\ CostsUpTo(s, k, s[k].from) <= balance[s[k].from]
        BY DEF BlockVerified
      <3> DEFINE a == s[k].from
                 n == Len(s)
                 S == Places(s, k, a)
                 T == {s[i] : i \in S}
                 c == CostsAt(s)
      <3>1. s \in Seq(Txs) /\ n \in Nat /\ DOMAIN s = 1 .. n
        BY <2>1, LenProperties DEF IsList
      <3>2. \A i \in 1 .. n : s[i] \in verifiedMap /\ s[i] \in Txs /\ c[i] = CostOf[s[i]] /\ c[i] \in Int
        <4>1. ASSUME NEW i \in 1 .. n PROVE s[i] \in verifiedMap /\ s[i] \in Txs
          BY <2>1, <3>1, PoolIs DEF ToSet
        <4>2. ASSUME NEW i \in 1 .. n PROVE c[i] = CostOf[s[i]] /\ c[i] \in Int
          <5>1. Cost(s[i]) \in Nat /\ CostOf[s[i]] = Cost(s[i])
            BY <4>1, TxIs
          <5> QED BY <3>1, <5>1 DEF CostsAt
        <4> QED BY <4>1, <4>2
      <3>3. k \in 1 .. n /\ k \in 0 .. n /\ S \subseteq 1 .. n
        BY <3>1 DEF Places
      <3>4. a \in Accounts
        BY <3>2, <3>3, TxIs
      <3>5. CostsUpTo(s, k, a) = Sum(c, S) /\ IsFiniteSet(S)
        <4> HIDE DEF n, a
        <4> QED BY <3>1, <3>3, CostsUpToIs
      <3>6. \A i, j \in 1 .. n : s[i] = s[j] => i = j
        BY <2>1, <3>1 DEF IsList, Different
      <3> HIDE DEF c, n
      <3>7. Sum(c, S) = Sum(CostOf, T)
        <4>1. \A i, j \in S : s[i] = s[j] => i = j
          BY <3>3, <3>6
        <4>2. \A i \in S : c[i] = CostOf[s[i]] /\ c[i] \in Int
          BY <3>2, <3>3
        <4> HIDE DEF S
        <4> QED BY <3>5, <4>1, <4>2, SumImage
      <3>8. T \subseteq From(verifiedMap, a)
        BY <3>2, <3>3 DEF Places, From
      <3>9. IsFiniteSet(From(verifiedMap, a)) /\ \A t \in From(verifiedMap, a) : CostOf[t] \in Int /\ CostOf[t] >= 0
        <4>1. From(verifiedMap, a) \subseteq verifiedMap
          BY DEF From
        <4> HIDE DEF a
        <4> QED BY <4>1, PoolIs, FS_Subset, TxIs
      <3>10. Sum(CostOf, T) <= Total(verifiedMap, a)
        <4> HIDE DEF T, a
        <4> QED BY <3>8, <3>9, SumMore DEF Total
      <3>11. Exact(Entry(a), verifiedMap, a, balance)
        BY <2>3, <3>4, EntryIs
      <3>12. Total(verifiedMap, a) <= balance[a] /\ balance[a] \in Nat /\ Total(verifiedMap, a) \in Int
        <4>1. balance[a] \in Nat
          BY <3>4 DEF PoolInv
        <4>2. Total(verifiedMap, a) \in Nat
          <5> HIDE DEF a
          <5> QED BY PoolIs, TotalIs
        <4>3. Total(verifiedMap, a) <= balance[a]
          BY <3>11 DEF Exact
        <4> QED BY <4>1, <4>2, <4>3
      <3>13. Sum(CostOf, T) \in Int
        <4>1. IsFiniteSet(T) /\ \A t \in T : CostOf[t] \in Int
          <5> HIDE DEF T, a
          <5> QED BY <3>8, <3>9, FS_Subset
        <4> HIDE DEF T
        <4> QED BY <4>1, SumOut
      <3>14. CostsUpTo(s, k, a) <= balance[a]
        <4> HIDE DEF T, S, a
        <4> QED BY <3>5, <3>7, <3>10, <3>12, <3>13
      <3> QED BY <3>2, <3>3, <3>14
    <2> QED BY <2>2, <2>3
  <1> QED BY <1>1, PoolInvariant, PTL

=============================================================================
