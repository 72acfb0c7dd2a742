-------------------------- MODULE ExecutionProofs --------------------------
(***************************************************************************)
(* Proofs about Execution: that nested calls are atomic (the refinement of *)
(* NestedCalls), that static calls write nothing, that the caches of the   *)
(* committee agree with the store, and that the supply of the native token *)
(* is the sum of the balances.                                             *)
(***************************************************************************)
EXTENDS Execution, WellFoundedInduction, FiniteSetTheorems, SequenceTheorems, TLAPS

---------------------------------------------------------------------------
(* Maxima *)

(* A set of naturals that is not empty and has a bound has a maximum.      *)
LEMMA MaxIs ==
  ASSUME NEW n \in Nat, NEW S, S \subseteq 0..n, S # {}
  PROVE  Max(S) \in S /\ \A k \in S : k <= Max(S)
  <1> DEFINE T == {n - k : k \in S}
  <1>1. T \subseteq Nat /\ T # {}
    <2>1. PICK k \in S : TRUE
      OBVIOUS
    <2>2. n - k \in T
      OBVIOUS
    <2> QED BY <2>2
  <1>2. PICK t \in T : \A u \in T : ~(<<u, t>> \in OpToRel(<, Nat))
    <2> HIDE DEF T
    <2> QED BY <1>1, NatLessThanWellFounded, WFMin
  <1>3. ASSUME NEW u \in T PROVE t <= u
    <2>1. <<u, t>> \in Nat \X Nat
      BY <1>1
    <2>2. u < t => <<u, t>> \in OpToRel(<, Nat)
      BY <2>1, Zenon DEF OpToRel
    <2>3. ~(u < t)
      BY <1>2, <2>2
    <2> HIDE DEF T
    <2> QED BY <1>1, <2>3
  <1>4. PICK m \in S : t = n - m
    OBVIOUS
  <1>5. \A k \in S : m >= k
    <2>1. ASSUME NEW k \in S PROVE m >= k
      <3>1. n - k \in T
        OBVIOUS
      <3>2. n - m <= n - k
        BY <1>3, <1>4, <3>1
      <3> QED BY <3>2
    <2> QED BY <2>1
  <1>6. Max(S) \in S /\ \A k \in S : Max(S) >= k
    BY <1>5, Zenon DEF Max
  <1> QED BY <1>6

---------------------------------------------------------------------------
(* Databases *)

(* Sequences, of whatever elements.                                        *)
IsSeq(s) == \E S : s \in Seq(S)

LayerOf(dao, fund, logs, access) ==
  [dao |-> dao, fund |-> fund, logs |-> logs, access |-> access]
IsLayer(m) == m = LayerOf(m.dao, m.fund, m.logs, m.access)

IsDB(d) == IsSeq(d) /\ d # << >> /\ \A i \in 1..Len(d) : IsLayer(d[i])

LEMMA LayerExcept ==
  ASSUME NEW m, IsLayer(m), NEW x
  PROVE  /\ [m EXCEPT !.dao = x] = LayerOf(x, m.fund, m.logs, m.access)
         /\ [m EXCEPT !.fund = x] = LayerOf(m.dao, x, m.logs, m.access)
         /\ [m EXCEPT !.logs = x] = LayerOf(m.dao, m.fund, x, m.access)
         /\ [m EXCEPT !.access = x] = LayerOf(m.dao, m.fund, m.logs, x)
  <1>1. PICK a, b, c, e : m = [dao |-> a, fund |-> b, logs |-> c, access |-> e]
    BY DEF IsLayer, LayerOf
  <1>2. m.dao = a /\ m.fund = b /\ m.logs = c /\ m.access = e
    BY <1>1
  <1>3. QED
    BY <1>1, <1>2 DEF LayerOf

LEMMA LayerFields ==
  ASSUME NEW a, NEW b, NEW c, NEW e
  PROVE  /\ IsLayer(LayerOf(a, b, c, e))
         /\ LayerOf(a, b, c, e).dao = a
         /\ LayerOf(a, b, c, e).fund = b
         /\ LayerOf(a, b, c, e).logs = c
         /\ LayerOf(a, b, c, e).access = e
  BY DEF IsLayer, LayerOf

(* The database d with m for its last layer.                               *)
LEMMA Topped ==
  ASSUME NEW d, IsDB(d), NEW m, IsLayer(m)
  PROVE  LET e == [d EXCEPT ![Len(d)] = m]
         IN  /\ IsDB(e) /\ Len(e) = Len(d) /\ Current(e) = m
             /\ \A i \in 1..(Len(d) - 1) : e[i] = d[i]
             /\ Len(d) \in Nat /\ Len(d) >= 1
  <1> DEFINE e == [d EXCEPT ![Len(d)] = m]
  <1>1. PICK S : d \in Seq(S)
    BY DEF IsDB, IsSeq
  <1>2. Len(d) \in Nat /\ Len(d) >= 1
    BY <1>1 DEF IsDB
  <1>3. d \in Seq(S \cup {m})
    BY <1>1
  <1>4. e \in Seq(S \cup {m}) /\ Len(e) = Len(d)
    BY <1>2, <1>3
  <1>5. e[Len(d)] = m /\ \A i \in 1..(Len(d) - 1) : e[i] = d[i]
    BY <1>1, <1>2
  <1>6. \A i \in 1..Len(e) : IsLayer(e[i])
    <2>1. \A i \in 1..Len(d) : i = Len(d) \/ i \in 1..(Len(d) - 1)
      BY <1>2
    <2>2. \A i \in 1..(Len(d) - 1) : i \in 1..Len(d)
      BY <1>2
    <2>3. \A i \in 1..Len(d) : IsLayer(d[i])
      BY DEF IsDB
    <2> HIDE DEF e
    <2> QED BY <1>4, <1>5, <2>1, <2>2, <2>3
  <1>7. e # << >>
    BY <1>2, <1>4
  <1> HIDE DEF e
  <1>8. IsDB(e)
    BY <1>4, <1>6, <1>7 DEF IsDB, IsSeq
  <1>9. Current(e) = m
    BY <1>4, <1>5 DEF Current
  <1> QED BY <1>2, <1>4, <1>5, <1>8, <1>9 DEF e

---------------------------------------------------------------------------
(* Reads *)

Writers(d, n, key) == {i \in 1..n : key \in DOMAIN d[i].dao}

LEMMA ItemFound ==
  ASSUME NEW d, NEW n \in Nat, NEW key, Writers(d, n, key) # {}
  PROVE  /\ Max(Writers(d, n, key)) \in Writers(d, n, key)
         /\ \A i \in Writers(d, n, key) : i <= Max(Writers(d, n, key))
         /\ ItemAt(d, n, key) = d[Max(Writers(d, n, key))].dao[key]
  <1>1. Writers(d, n, key) \subseteq 0..n
    BY DEF Writers
  <1>2. ItemAt(d, n, key) = d[Max(Writers(d, n, key))].dao[key]
    BY DEF ItemAt, Writers
  <1> QED BY <1>1, <1>2, MaxIs

LEMMA ItemOnDisk ==
  ASSUME NEW d, NEW n \in Nat, NEW key, Writers(d, n, key) = {}
  PROVE  ItemAt(d, n, key) = IF key \in DOMAIN disk THEN disk[key] ELSE None
  <1>1. {i \in 1..n : key \in DOMAIN d[i].dao} = {}
    BY DEF Writers
  <1> QED BY <1>1 DEF ItemAt

LEMMA ItemAtSame ==
  ASSUME NEW d, NEW e, NEW n \in Nat, \A i \in 1..n : d[i] = e[i], NEW key
  PROVE  ItemAt(d, n, key) = ItemAt(e, n, key)
  <1>1. Writers(d, n, key) = Writers(e, n, key)
    BY DEF Writers
  <1>2. CASE Writers(d, n, key) = {}
    <2>1. Writers(e, n, key) = {}
      BY <1>1, <1>2
    <2> DEFINE found == IF key \in DOMAIN disk THEN disk[key] ELSE None
    <2>2. ItemAt(d, n, key) = found
      BY <1>2, ItemOnDisk
    <2>3. ItemAt(e, n, key) = found
      BY <2>1, ItemOnDisk
    <2> QED BY <2>2, <2>3
  <1>3. CASE Writers(d, n, key) # {}
    <2>1. Max(Writers(d, n, key)) \in 1..n
      BY <1>3, ItemFound DEF Writers
    <2> QED BY <1>1, <1>3, <2>1, ItemFound
  <1> QED BY <1>2, <1>3

(* The top layer answers if it can, and the layers below it otherwise.     *)
LEMMA ItemTop ==
  ASSUME NEW d, NEW n \in Nat \ {0}, NEW key, key \in DOMAIN d[n].dao
  PROVE  ItemAt(d, n, key) = d[n].dao[key]
  <1>1. n \in Writers(d, n, key)
    BY DEF Writers
  <1>2. Max(Writers(d, n, key)) \in 1..n /\ n <= Max(Writers(d, n, key))
    BY <1>1, ItemFound DEF Writers
  <1>3. Max(Writers(d, n, key)) = n
    BY <1>2
  <1> QED BY <1>1, <1>3, ItemFound

LEMMA ItemBelow ==
  ASSUME NEW d, NEW n \in Nat \ {0}, NEW key, key \notin DOMAIN d[n].dao
  PROVE  ItemAt(d, n, key) = ItemAt(d, n - 1, key)
  <1>1. Writers(d, n, key) = Writers(d, n - 1, key)
    <2>1. \A i \in 1..n : i = n \/ i \in 1..(n - 1)
      OBVIOUS
    <2>2. \A i \in 1..(n - 1) : i \in 1..n
      OBVIOUS
    <2> QED BY <2>1, <2>2 DEF Writers
  <1>2. n - 1 \in Nat
    OBVIOUS
  <1> QED BY <1>1, <1>2, ItemFound, ItemOnDisk

(* The items of a reader are what it finds.                                *)
LEMMA ItemsHold ==
  ASSUME NEW d, NEW n \in Nat, NEW key
  PROVE  /\ key \in DOMAIN Items(d, n) <=> ItemAt(d, n, key) # None
         /\ key \in DOMAIN Items(d, n) => Items(d, n)[key] = ItemAt(d, n, key)
  <1> DEFINE D == DOMAIN disk \cup UNION {DOMAIN d[i].dao : i \in 1..n}
             K == {k \in D : ItemAt(d, n, k) # None}
  <1>1. Items(d, n) = [k \in K |-> ItemAt(d, n, k)]
    BY DEF Items
  <1>2. ItemAt(d, n, key) # None => key \in D
    <2>1. CASE Writers(d, n, key) = {}
      BY <2>1, ItemOnDisk
    <2>2. CASE Writers(d, n, key) # {}
      <3>1. PICK i \in 1..n : key \in DOMAIN d[i].dao
        BY <2>2 DEF Writers
      <3> QED BY <3>1
    <2> QED BY <2>1, <2>2
  <1> HIDE DEF D
  <1> QED BY <1>1, <1>2

(* What is found decides what a reader sees.                               *)
LEMMA ItemsSame ==
  ASSUME NEW d, NEW e, NEW n \in Nat, NEW m \in Nat,
         \A key : ItemAt(d, n, key) = ItemAt(e, m, key)
  PROVE  Items(d, n) = Items(e, m)
  <1> DEFINE D(f, k) == DOMAIN disk \cup UNION {DOMAIN f[i].dao : i \in 1..k}
             K(f, k) == {key \in D(f, k) : ItemAt(f, k, key) # None}
  <1>1. ASSUME NEW f, NEW k \in Nat, NEW key, ItemAt(f, k, key) # None
        PROVE  key \in D(f, k)
    <2>1. CASE Writers(f, k, key) = {}
      BY <1>1, <2>1, ItemOnDisk
    <2>2. CASE Writers(f, k, key) # {}
      <3>1. PICK i \in 1..k : key \in DOMAIN f[i].dao
        BY <2>2 DEF Writers
      <3> QED BY <3>1
    <2> QED BY <2>1, <2>2
  <1>2. K(d, n) = K(e, m)
    <2> HIDE DEF D
    <2> QED BY <1>1
  <1>3. Items(d, n) = [key \in K(d, n) |-> ItemAt(d, n, key)]
    BY DEF Items
  <1>4. Items(e, m) = [key \in K(e, m) |-> ItemAt(e, m, key)]
    BY DEF Items
  <1> HIDE DEF K
  <1> QED BY <1>2, <1>3, <1>4

LEMMA SeenSame ==
  ASSUME NEW d, NEW e, NEW n \in Nat \ {0}, \A i \in 1..n : d[i] = e[i]
  PROVE  Seen(d, n) = Seen(e, n)
  <1>1. Items(d, n) = Items(e, n)
    BY ItemAtSame, ItemsSame
  <1>2. d[n] = e[n]
    OBVIOUS
  <1> QED BY <1>1, <1>2 DEF Seen

---------------------------------------------------------------------------
(* Writes.  Running code writes in the layer on top, and never a           *)
(* designation that already counts.                                        *)

OldRole(key) == \E role \in Roles, i \in 0..(height + 1) : key = <<"role", role, i>>

Wrote(d, e) ==
  /\ IsDB(d) /\ IsDB(e) /\ Len(e) = Len(d)
  /\ \A i \in 1..(Len(d) - 1) : e[i] = d[i]
  /\ \A key \in DOMAIN Current(e).dao : key \in DOMAIN Current(d).dao \/ ~OldRole(key)

(* What is done to the state before a frame is opened.                     *)
Prepares(d, e) ==
  /\ Wrote(d, e)
  /\ Current(e).fund = Current(d).fund /\ Current(e).logs = Current(d).logs
  /\ \A key : key[1] # "nonce" => Item(e, key) = Item(d, key)

LEMMA DBLength == ASSUME NEW d, IsDB(d) PROVE Len(d) \in Nat /\ Len(d) >= 1 /\ IsLayer(Current(d))
  <1>1. PICK S : d \in Seq(S)
    BY DEF IsDB, IsSeq
  <1>2. Len(d) \in Nat /\ Len(d) >= 1
    BY <1>1 DEF IsDB
  <1>3. Len(d) \in 1..Len(d)
    BY <1>2
  <1> QED BY <1>2, <1>3 DEF IsDB, Current

LEMMA WroteNothing == ASSUME NEW d, IsDB(d) PROVE Wrote(d, d) /\ Prepares(d, d)
  BY DEF Wrote, Prepares

LEMMA WroteTwice ==
  ASSUME NEW d, NEW e, NEW f, Wrote(d, e), Wrote(e, f)
  PROVE  Wrote(d, f)
  BY DEF Wrote

LEMMA PreparesTwice ==
  ASSUME NEW d, NEW e, NEW f, Prepares(d, e), Prepares(e, f)
  PROVE  Prepares(d, f)
  <1>1. Wrote(d, f)
    BY WroteTwice DEF Prepares
  <1> QED BY <1>1 DEF Prepares

LEMMA PutWrites ==
  ASSUME NEW d, IsDB(d), NEW key, NEW val, ~OldRole(key)
  PROVE  /\ Wrote(d, Put(d, key, val))
         /\ Current(Put(d, key, val)) =
              LayerOf(With(Current(d).dao, key, val), Current(d).fund, Current(d).logs, Current(d).access)
         /\ \A k : Item(Put(d, key, val), k) = IF k = key THEN val ELSE Item(d, k)
  <1> DEFINE c == Current(d)
             m == LayerOf(With(c.dao, key, val), c.fund, c.logs, c.access)
             e == [d EXCEPT ![Len(d)] = m]
  <1>1. Put(d, key, val) = e
    <2>1. [c EXCEPT !.dao = With(c.dao, key, val)] = m
      BY DBLength, LayerExcept
    <2> QED BY <2>1 DEF Put, Current
  <1>2. IsLayer(m) /\ m.dao = With(c.dao, key, val)
    BY LayerFields
  <1>3. /\ IsDB(e) /\ Len(e) = Len(d) /\ Current(e) = m
        /\ \A i \in 1..(Len(d) - 1) : e[i] = d[i]
        /\ Len(d) \in Nat /\ Len(d) >= 1
    <2> HIDE DEF m
    <2> QED BY <1>2, Topped
  <1> HIDE DEF m, e
  <1>4. DOMAIN m.dao = DOMAIN c.dao \cup {key}
    BY <1>2 DEF With
  <1>5. Wrote(d, e)
    BY <1>3, <1>4 DEF Wrote
  <1>6. ASSUME NEW k PROVE Item(e, k) = IF k = key THEN val ELSE Item(d, k)
    <2> DEFINE n == Len(d)
    <2>1. Item(e, k) = ItemAt(e, n, k) /\ Item(d, k) = ItemAt(d, n, k) /\ n \in Nat \ {0} /\ e[n] = m /\ d[n] = c
      BY <1>3 DEF Item, Current
    <2>2. CASE k = key
      <3>1. k \in DOMAIN m.dao /\ m.dao[k] = val
        BY <1>2, <2>2 DEF With
      <3> QED BY <2>1, <2>2, <3>1, ItemTop
    <2>3. CASE k # key /\ k \in DOMAIN c.dao
      <3>1. k \in DOMAIN m.dao /\ m.dao[k] = c.dao[k]
        BY <1>2, <2>3 DEF With
      <3>2. ItemAt(e, n, k) = m.dao[k] /\ ItemAt(d, n, k) = c.dao[k]
        BY <2>1, <2>3, <3>1, ItemTop
      <3> QED BY <2>1, <2>3, <3>1, <3>2
    <2>4. CASE k # key /\ k \notin DOMAIN c.dao
      <3>1. k \notin DOMAIN m.dao
        BY <1>4, <2>4
      <3>2. ItemAt(e, n, k) = ItemAt(e, n - 1, k) /\ ItemAt(d, n, k) = ItemAt(d, n - 1, k)
        BY <2>1, <2>4, <3>1, ItemBelow
      <3>3. ItemAt(e, n - 1, k) = ItemAt(d, n - 1, k)
        <4> DEFINE b == n - 1
        <4>1. b \in Nat /\ \A i \in 1..b : e[i] = d[i]
          BY <1>3, <2>1
        <4> HIDE DEF b
        <4>2. ItemAt(e, b, k) = ItemAt(d, b, k)
          BY <4>1, ItemAtSame
        <4> QED BY <4>2 DEF b
      <3> QED BY <2>1, <2>4, <3>2, <3>3
    <2> QED BY <2>2, <2>3, <2>4
  <1> QED BY <1>1, <1>3, <1>5, <1>6 DEF m

(* A layer on top with the same items: what is found stays.                *)
LEMMA SameItems ==
  ASSUME NEW d, IsDB(d), NEW m, IsLayer(m), m.dao = Current(d).dao
  PROVE  LET e == [d EXCEPT ![Len(d)] = m]
         IN  /\ Wrote(d, e) /\ Current(e) = m
             /\ \A k : Item(e, k) = Item(d, k)
  <1> DEFINE e == [d EXCEPT ![Len(d)] = m]
             n == Len(d)
  <1>1. /\ IsDB(e) /\ Len(e) = n /\ Current(e) = m
        /\ \A i \in 1..(n - 1) : e[i] = d[i]
        /\ n \in Nat /\ n >= 1
    BY Topped
  <1> HIDE DEF e
  <1>2. Wrote(d, e)
    BY <1>1 DEF Wrote
  <1>3. ASSUME NEW k PROVE Item(e, k) = Item(d, k)
    <2>1. /\ Item(e, k) = ItemAt(e, n, k) /\ Item(d, k) = ItemAt(d, n, k) /\ n \in Nat \ {0}
          /\ e[n].dao = d[n].dao /\ n - 1 \in Nat
      BY <1>1 DEF Item, Current
    <2>2. CASE k \in DOMAIN d[n].dao
      BY <2>1, <2>2, ItemTop
    <2>3. CASE k \notin DOMAIN d[n].dao
      <3>1. ItemAt(e, n - 1, k) = ItemAt(d, n - 1, k)
        <4> DEFINE b == n - 1
        <4>1. b \in Nat /\ \A i \in 1..b : e[i] = d[i]
          BY <1>1, <2>1
        <4> HIDE DEF b
        <4>2. ItemAt(e, b, k) = ItemAt(d, b, k)
          BY <4>1, ItemAtSame
        <4> QED BY <4>2 DEF b
      <3> QED BY <2>1, <2>3, <3>1, ItemBelow
    <2> QED BY <2>2, <2>3
  <1> QED BY <1>1, <1>2, <1>3 DEF e

LEMMA RefundWrites ==
  ASSUME NEW d, IsDB(d), NEW x
  PROVE  /\ Wrote(d, AddRefund(d, x)) /\ Current(AddRefund(d, x)).fund = Current(d).fund + x
         /\ \A k : Item(AddRefund(d, x), k) = Item(d, k)
  <1> DEFINE c == Current(d)
             m == LayerOf(c.dao, c.fund + x, c.logs, c.access)
  <1>1. AddRefund(d, x) = [d EXCEPT ![Len(d)] = m]
    <2>1. [c EXCEPT !.fund = c.fund + x] = m
      BY DBLength, LayerExcept
    <2> QED BY <2>1 DEF AddRefund, Current
  <1>2. IsLayer(m) /\ m.dao = c.dao /\ m.fund = c.fund + x
    BY LayerFields
  <1> HIDE DEF m
  <1> DEFINE e == [d EXCEPT ![Len(d)] = m]
  <1>3. Wrote(d, e) /\ Current(e) = m /\ \A k : Item(e, k) = Item(d, k)
    BY <1>2, SameItems
  <1> HIDE DEF e
  <1> QED BY <1>1, <1>2, <1>3 DEF e

LEMMA LogWrites ==
  ASSUME NEW d, IsDB(d), NEW x
  PROVE  /\ Wrote(d, AddLog(d, x)) /\ Current(AddLog(d, x)).fund = Current(d).fund
         /\ \A k : Item(AddLog(d, x), k) = Item(d, k)
  <1> DEFINE c == Current(d)
             m == LayerOf(c.dao, c.fund, Append(c.logs, x), c.access)
  <1>1. AddLog(d, x) = [d EXCEPT ![Len(d)] = m]
    <2>1. [c EXCEPT !.logs = Append(c.logs, x)] = m
      BY DBLength, LayerExcept
    <2> QED BY <2>1 DEF AddLog, Current
  <1>2. IsLayer(m) /\ m.dao = c.dao /\ m.fund = c.fund
    BY LayerFields
  <1> HIDE DEF m
  <1> DEFINE e == [d EXCEPT ![Len(d)] = m]
  <1>3. Wrote(d, e) /\ Current(e) = m /\ \A k : Item(e, k) = Item(d, k)
    BY <1>2, SameItems
  <1> HIDE DEF e
  <1> QED BY <1>1, <1>2, <1>3 DEF e

(* The access list is part of what is prepared.                            *)
LEMMA AccessPrepares ==
  ASSUME NEW d, IsDB(d), NEW x
  PROVE  /\ Prepares(d, AddToAccessList(d, x)) /\ Prepares(d, PrepareAccessList(d, x))
         /\ Current(AddToAccessList(d, x)).dao = Current(d).dao
         /\ \A k : Item(AddToAccessList(d, x), k) = Item(d, k)
         /\ \A k : Item(PrepareAccessList(d, x), k) = Item(d, k)
  <1> DEFINE c == Current(d)
             M(y) == LayerOf(c.dao, c.fund, c.logs, y)
             E(y) == [d EXCEPT ![Len(d)] = M(y)]
  <1>1. AddToAccessList(d, x) = E(c.access \cup x)
    <2>1. [c EXCEPT !.access = c.access \cup x] = M(c.access \cup x)
      BY DBLength, LayerExcept
    <2> QED BY <2>1 DEF AddToAccessList, Current
  <1>2. PrepareAccessList(d, x) = E(x)
    <2>1. [c EXCEPT !.access = x] = M(x)
      BY DBLength, LayerExcept
    <2> QED BY <2>1 DEF PrepareAccessList, Current
  <1>3. ASSUME NEW y
        PROVE  Prepares(d, E(y)) /\ Current(E(y)).dao = c.dao /\ \A k : Item(E(y), k) = Item(d, k)
    <2>1. IsLayer(M(y)) /\ M(y).dao = c.dao /\ M(y).fund = c.fund /\ M(y).logs = c.logs
      BY LayerFields
    <2> HIDE DEF M
    <2>2. Wrote(d, E(y)) /\ Current(E(y)) = M(y) /\ \A k : Item(E(y), k) = Item(d, k)
      BY <2>1, SameItems
    <2> QED BY <2>1, <2>2 DEF Prepares
  <1> HIDE DEF E
  <1> QED BY <1>1, <1>2, <1>3

LEMMA NotRole == ASSUME NEW key, key[1] # "role" PROVE ~OldRole(key)
  BY DEF OldRole

LEMMA TokensWrite ==
  ASSUME NEW d, IsDB(d), NEW a, NEW x
  PROVE  Wrote(d, AddTokens(d, a, x)) /\ AddTokens(d, a, 0) = d
  <1>1. AddTokens(d, a, 0) = d
    BY DEF AddTokens
  <1>2. CASE AddTokens(d, a, x) = d
    BY <1>1, <1>2, WroteNothing
  <1>3. CASE AddTokens(d, a, x) # d
    <2>1. PICK v, w : AddTokens(d, a, x) = Put(Put(d, <<"bal", a>>, v), <<"supply">>, w)
      BY <1>3 DEF AddTokens
    <2>2. ~OldRole(<<"bal", a>>) /\ ~OldRole(<<"supply">>)
      BY NotRole
    <2> DEFINE e == Put(d, <<"bal", a>>, v)
    <2>3. Wrote(d, e)
      BY <2>2, PutWrites
    <2>4. Wrote(e, Put(e, <<"supply">>, w))
      BY <2>2, <2>3, PutWrites DEF Wrote
    <2> HIDE DEF e
    <2>5. Wrote(d, Put(e, <<"supply">>, w))
      BY <2>3, <2>4, WroteTwice
    <2> QED BY <1>1, <2>1, <2>5 DEF e
  <1> QED BY <1>2, <1>3

LEMMA TransferWrites ==
  ASSUME NEW d, IsDB(d), NEW from, NEW to, NEW value
  PROVE  Wrote(d, Transfer(d, from, to, value)) /\ Transfer(d, from, to, 0) = d
  <1> DEFINE e == AddTokens(d, from, -value)
  <1>1. Wrote(d, e)
    BY TokensWrite
  <1>2. Wrote(e, AddTokens(e, to, value))
    BY <1>1, TokensWrite DEF Wrote
  <1> HIDE DEF e
  <1>3. Wrote(d, AddTokens(e, to, value))
    BY <1>1, <1>2, WroteTwice
  <1>4. Transfer(d, from, to, value) = AddTokens(e, to, value)
    BY DEF Transfer, e
  <1>5. Transfer(d, from, to, 0) = d
    <2>1. -0 = 0
      <3>1. \A x \in Int : -x = 0 - x
        OBVIOUS
      <3>2. 0 \in Int /\ 0 - 0 = 0
        OBVIOUS
      <3> QED BY <3>1, <3>2, Zenon
    <2>2. AddTokens(d, from, 0) = d /\ AddTokens(d, to, 0) = d
      BY TokensWrite
    <2> QED BY <2>1, <2>2 DEF Transfer
  <1> QED BY <1>3, <1>4, <1>5

LEMMA NonceCodeWrite ==
  ASSUME NEW d, IsDB(d), NEW a, NEW x
  PROVE  /\ Prepares(d, SetNonce(d, a, x))
         /\ Wrote(d, SetCode(d, a, x)) /\ Wrote(d, Destroy(d, a))
  <1>1. ~OldRole(<<"nonce", a>>) /\ ~OldRole(<<"code", a>>) /\ ~OldRole(<<"codeOfItself", a>>)
    BY NotRole
  <1>2. Wrote(d, SetCode(d, a, x))
    BY <1>1, PutWrites DEF SetCode
  <1>3. Wrote(d, Destroy(d, a))
    BY <1>1, PutWrites, WroteNothing DEF Destroy
  <1>4. Prepares(d, SetNonce(d, a, x))
    <2> DEFINE e == SetNonce(d, a, x)
               c == Current(d)
    <2>1. /\ Wrote(d, e)
          /\ Current(e) = LayerOf(With(c.dao, <<"nonce", a>>, x), c.fund, c.logs, c.access)
          /\ \A k : Item(e, k) = IF k = <<"nonce", a>> THEN x ELSE Item(d, k)
      BY <1>1, PutWrites DEF SetNonce
    <2>2. \A k : k[1] # "nonce" => k # <<"nonce", a>>
      OBVIOUS
    <2> HIDE DEF e
    <2>3. Current(e).fund = c.fund /\ Current(e).logs = c.logs
      BY <2>1, LayerFields
    <2>4. ASSUME NEW k, k[1] # "nonce" PROVE Item(e, k) = Item(d, k)
      BY <2>1, <2>2, <2>4
    <2>5. Wrote(d, e)
      BY <2>1
    <2>6. Prepares(d, e)
      BY <2>3, <2>4, <2>5 DEF Prepares
    <2> QED BY <2>6 DEF e
  <1> QED BY <1>2, <1>3, <1>4

(* A put and a log.                                                        *)
LEMMA PutLogWrites ==
  ASSUME NEW d, IsDB(d), NEW key, ~OldRole(key), NEW val, NEW log
  PROVE  Wrote(d, AddLog(Put(d, key, val), log))
  <1> DEFINE e == Put(d, key, val)
  <1>1. Wrote(d, e)
    BY PutWrites
  <1> HIDE DEF e
  <1>2. Wrote(e, AddLog(e, log))
    BY <1>1, LogWrites DEF Wrote
  <1> QED BY <1>1, <1>2, WroteTwice DEF e

LEMMA NativeWrites ==
  ASSUME height \in Nat, NEW d, IsDB(d), NEW sender, NEW call, ContractCall(d, sender, call) # None
  PROVE  Wrote(d, ContractCall(d, sender, call))
  <1>1. \A role : ~OldRole(<<"role", role, DesignateIndex(role)>>)
    BY DEF OldRole, DesignateIndex
  <1>2. ~OldRole(<<"price">>) /\ \A a : ~OldRole(<<"blocked", a>>)
    BY NotRole
  <1>3. PICK key, val, log : ~OldRole(key) /\ ContractCall(d, sender, call) = AddLog(Put(d, key, val), log)
    <2>1. CASE call.method = "designateAsRole"
      <3>1. ContractCall(d, sender, call) = DesignateAsRole(d, sender, call.role, call.nodes)
        BY <2>1 DEF ContractCall
      <3> QED BY <1>1, <3>1 DEF DesignateAsRole
    <2>2. CASE call.method = "setGasPrice"
      <3>1. ContractCall(d, sender, call) = SetGasPrice(d, sender, call.price)
        BY <2>2 DEF ContractCall
      <3> QED BY <1>2, <3>1 DEF SetGasPrice
    <2>3. CASE call.method = "block"
      <3>1. ContractCall(d, sender, call) = SetBlocked(d, sender, call.account, call.blocked)
        BY <2>3 DEF ContractCall
      <3> QED BY <1>2, <3>1 DEF SetBlocked
    <2>4. CASE call.method \notin {"designateAsRole", "setGasPrice", "block"}
      BY <2>4 DEF ContractCall
    <2> QED BY <2>1, <2>2, <2>3, <2>4
  <1> QED BY <1>3, PutLogWrites

(* The methods of the natives that write are for the committee only.       *)
LEMMA NativeRefuses ==
  ASSUME NEW d, NEW sender, NEW call, sender[1] \notin {"node", "committee"}
  PROVE  ContractCall(d, sender, call) = None
  <1>1. ~FromCommittee(d, sender)
    BY DEF FromCommittee, CommitteeAddress, Account
  <1>2. ASSUME NEW role, NEW nodes PROVE DesignateAsRole(d, sender, role, nodes) = None
    BY <1>1 DEF DesignateAsRole
  <1>3. ASSUME NEW price PROVE SetGasPrice(d, sender, price) = None
    BY <1>1 DEF SetGasPrice
  <1>4. ASSUME NEW a, NEW blocked PROVE SetBlocked(d, sender, a, blocked) = None
    BY <1>1 DEF SetBlocked
  <1> QED BY <1>2, <1>3, <1>4 DEF ContractCall

---------------------------------------------------------------------------
(* Snapshots *)

LEMMA SnapshotAdds ==
  ASSUME NEW d, IsDB(d)
  PROVE  LET e == Snapshot(d)
         IN  /\ IsDB(e) /\ Len(e) = Len(d) + 1
             /\ \A i \in 1..Len(d) : e[i] = d[i]
             /\ Current(e) = LayerOf(<< >>, Current(d).fund, Current(d).logs, Current(d).access)
             /\ \A k : Item(e, k) = Item(d, k)
  <1> DEFINE c == Current(d)
             m == LayerOf(<< >>, c.fund, c.logs, c.access)
             e == Append(d, m)
             n == Len(d)
  <1>1. Snapshot(d) = e
    <2>1. Clone(c) = m
      BY DBLength, LayerExcept DEF Clone
    <2> QED BY <2>1 DEF Snapshot
  <1>2. IsLayer(m) /\ m.dao = << >>
    BY LayerFields
  <1> HIDE DEF m
  <1>3. PICK S : d \in Seq(S)
    BY DEF IsDB, IsSeq
  <1>4. d \in Seq(S \cup {m}) /\ n \in Nat /\ n >= 1
    BY <1>3, DBLength
  <1>5. e \in Seq(S \cup {m}) /\ Len(e) = n + 1 /\ e[n + 1] = m /\ \A i \in 1..n : e[i] = d[i]
    BY <1>4
  <1> HIDE DEF e
  <1>6. IsDB(e)
    <2>1. \A i \in 1..(n + 1) : i = n + 1 \/ i \in 1..n
      BY <1>4
    <2>2. \A i \in 1..Len(e) : IsLayer(e[i])
      BY <1>2, <1>5, <2>1 DEF IsDB
    <2>3. e # << >>
      BY <1>4, <1>5
    <2> QED BY <1>5, <2>2, <2>3 DEF IsDB, IsSeq
  <1>7. ASSUME NEW k PROVE Item(e, k) = Item(d, k)
    <2>1. n + 1 \in Nat \ {0} /\ (n + 1) - 1 = n
      BY <1>4
    <2>2. k \notin DOMAIN e[n + 1].dao
      BY <1>2, <1>5
    <2>3. ItemAt(e, n + 1, k) = ItemAt(e, n, k)
      BY <2>1, <2>2, ItemBelow
    <2>4. ItemAt(e, n, k) = ItemAt(d, n, k)
      BY <1>4, <1>5, ItemAtSame
    <2> QED BY <1>5, <2>3, <2>4 DEF Item
  <1>8. Current(e) = m
    BY <1>5 DEF Current
  <1> QED BY <1>1, <1>5, <1>6, <1>7, <1>8 DEF m

LEMMA RevertCuts ==
  ASSUME NEW d, IsDB(d), NEW id \in Nat, id + 1 <= Len(d)
  PROVE  LET e == RevertToSnapshot(d, id)
         IN  IsDB(e) /\ Len(e) = id + 1 /\ \A i \in 1..(id + 1) : e[i] = d[i]
  <1> DEFINE e == SubSeq(d, 1, id + 1)
  <1>1. PICK S : d \in Seq(S)
    BY DEF IsDB, IsSeq
  <1>2. e \in Seq(S) /\ Len(e) = id + 1 /\ \A i \in 1..(id + 1) : e[i] = d[i]
    BY <1>1
  <1> HIDE DEF e
  <1>3. \A i \in 1..Len(e) : IsLayer(e[i])
    BY <1>1, <1>2 DEF IsDB
  <1>4. e # << >>
    BY <1>2
  <1>5. IsDB(e)
    BY <1>2, <1>3, <1>4 DEF IsDB, IsSeq
  <1> QED BY <1>2, <1>5 DEF e, RevertToSnapshot

LEMMA CommitMerges ==
  ASSUME NEW d, IsDB(d)
  PROVE  /\ IsDB(Commit(d)) /\ Len(Commit(d)) = 1
         /\ DOMAIN Commit(d)[1].dao = Written(d)
  <1> DEFINE x == [key \in Written(d) |-> Item(d, key)]
             m == [d[1] EXCEPT !.dao = x]
  <1>1. IsLayer(d[1])
    BY DBLength DEF IsDB
  <1>2. m = LayerOf(x, d[1].fund, d[1].logs, d[1].access)
    BY <1>1, LayerExcept
  <1>3. IsLayer(m) /\ m.dao = x
    BY <1>2, LayerFields
  <1>4. Commit(d) = << m >>
    BY DEF Commit
  <1>5. DOMAIN x = Written(d)
    OBVIOUS
  <1> HIDE DEF m, x
  <1>6. << m >> \in Seq({m}) /\ Len(<< m >>) = 1 /\ << m >>[1] = m /\ << m >> # << >>
    OBVIOUS
  <1>7. IsDB(<< m >>)
    <2>1. \A i \in 1..Len(<< m >>) : i = 1
      BY <1>6
    <2>2. IsSeq(<< m >>)
      BY <1>6 DEF IsSeq
    <2> QED BY <1>3, <1>6, <2>1, <2>2 DEF IsDB
  <1> QED BY <1>3, <1>4, <1>5, <1>6, <1>7

---------------------------------------------------------------------------
(* Outcomes of calls *)

FrameOf(kind, self, sender, gas, snap, sets) ==
  [kind |-> kind, self |-> self, sender |-> sender, gas |-> gas, snap |-> snap, setsReadOnly |-> sets]
IsFrame(f) == f = FrameOf(f.kind, f.self, f.sender, f.gas, f.snap, f.setsReadOnly)

LEMMA FrameFields ==
  ASSUME NEW kind, NEW self, NEW sender, NEW gas, NEW snap, NEW sets
  PROVE  LET f == FrameOf(kind, self, sender, gas, snap, sets)
         IN  /\ IsFrame(f) /\ f.kind = kind /\ f.self = self /\ f.sender = sender /\ f.gas = gas
             /\ f.snap = snap /\ f.setsReadOnly = sets
  BY DEF IsFrame, FrameOf

(* The first static frame sets the flag.                                   *)
Flagged(f) == f.setsReadOnly = (f.kind = "static" /\ ~readOnly)

LEMMA NewFrameFields ==
  ASSUME NEW kind, NEW self, NEW sender, NEW gas, NEW snap
  PROVE  LET f == NewFrame(kind, self, sender, gas, snap)
         IN  /\ IsFrame(f) /\ f.kind = kind /\ f.self = self
             /\ f.snap = snap /\ Flagged(f)
  <1>1. NewFrame(kind, self, sender, gas, snap)
          = FrameOf(kind, self, sender, gas, snap, kind = "static" /\ ~readOnly)
    BY DEF NewFrame, FrameOf
  <1> QED BY <1>1, FrameFields DEF Flagged

LEMMA DoneFields ==
  ASSUME NEW d, NEW gas, NEW res
  PROVE  LET o == Done(d, gas, res) IN o.run = FALSE /\ o.db = d /\ o.gas = gas /\ o.res = res
  BY DEF Done

LEMMA RunsFields ==
  ASSUME NEW d, NEW f
  PROVE  LET o == Runs(d, f) IN o.run = TRUE /\ o.db = d /\ o.frame = f
  BY DEF Runs

(* The layers that code running on d may leave behind.                     *)
Above(d, e) ==
  /\ IsDB(e) /\ Len(e) >= Len(d)
  /\ \A i \in 1..(Len(d) - 1) : e[i] = d[i]
  /\ \A i \in Len(d)..Len(e) : \A key \in DOMAIN e[i].dao :
         key \in DOMAIN Current(d).dao \/ ~OldRole(key)

Restores(d, e) == SamePreparation(Seen(d, Len(d)), Seen(e, Len(d)))

Outcome(d, o) ==
  /\ Above(d, o.db)
  /\ o.run \in BOOLEAN
  /\ o.run => /\ Len(o.db) = Len(d) + 1 /\ Restores(d, o.db)
              /\ IsFrame(o.frame) /\ o.frame.snap = Len(d) - 1
              /\ Flagged(o.frame)
  /\ ~o.run => /\ o.res \in {"ok", "err"}
               /\ o.res = "err" => Len(o.db) = Len(d) /\ Restores(d, o.db)

LEMMA OutsideFields ==
  ASSUME NEW items, NEW fund, NEW logs, NEW access
  PROVE  OutsideFrame([items |-> items, fund |-> fund, logs |-> logs, access |-> access])
           = [items |-> [key \in {k \in DOMAIN items : k[1] # "nonce"} |-> items[key]],
              fund |-> fund, logs |-> logs]
  <1> DEFINE c == [items |-> items, fund |-> fund, logs |-> logs, access |-> access]
  <1>1. c.items = items /\ c.fund = fund /\ c.logs = logs
    OBVIOUS
  <1> HIDE DEF c
  <1>2. OutsideFrame(c) = [items |-> [key \in {k \in DOMAIN items : k[1] # "nonce"} |-> items[key]],
                          fund |-> fund, logs |-> logs]
    BY <1>1 DEF OutsideFrame
  <1> QED BY <1>2 DEF c

LEMMA PreparesRestores ==
  ASSUME NEW d, NEW e, Prepares(d, e)
  PROVE  Restores(d, e) /\ Above(d, e)
  <1> DEFINE n == Len(d)
             I == Items(d, n)
             J == Items(e, n)
  <1>1. /\ IsDB(d) /\ IsDB(e) /\ Len(e) = n /\ n \in Nat /\ n >= 1
        /\ e[n].fund = d[n].fund /\ e[n].logs = d[n].logs
    BY DBLength DEF Prepares, Wrote, Current
  <1>2. \A key : key[1] # "nonce" => ItemAt(e, n, key) = ItemAt(d, n, key)
    BY <1>1 DEF Prepares, Item
  <1>3. \A f, key : /\ key \in DOMAIN Items(f, n) <=> ItemAt(f, n, key) # None
                    /\ key \in DOMAIN Items(f, n) => Items(f, n)[key] = ItemAt(f, n, key)
    BY <1>1, ItemsHold
  <1>4. {k \in DOMAIN I : k[1] # "nonce"} = {k \in DOMAIN J : k[1] # "nonce"}
    <2> HIDE DEF n
    <2>1. \A k : k[1] # "nonce" => (k \in DOMAIN I <=> k \in DOMAIN J)
      BY <1>2, <1>3
    <2> HIDE DEF I, J
    <2> QED BY <2>1
  <1>5. [k \in {k \in DOMAIN I : k[1] # "nonce"} |-> I[k]] = [k \in {k \in DOMAIN J : k[1] # "nonce"} |-> J[k]]
    <2> HIDE DEF n
    <2>1. ASSUME NEW k \in DOMAIN I, k[1] # "nonce" PROVE I[k] = J[k]
      <3>1. k \in DOMAIN J
        BY <1>4, <2>1
      <3> QED BY <1>2, <1>3, <2>1, <3>1
    <2> HIDE DEF I, J
    <2> QED BY <1>4, <2>1
  <1>6. Restores(d, e)
    <2> DEFINE R(K) == [k \in {k \in DOMAIN K : k[1] # "nonce"} |-> K[k]]
               S(K, f) == [items |-> K, fund |-> f[n].fund, logs |-> f[n].logs, access |-> f[n].access]
    <2>1. Seen(d, n) = S(I, d) /\ Seen(e, n) = S(J, e)
      BY DEF Seen
    <2>2. ASSUME NEW K, NEW f
          PROVE OutsideFrame(S(K, f)) = [items |-> R(K), fund |-> f[n].fund, logs |-> f[n].logs]
      BY OutsideFields
    <2>3. R(I) = R(J)
      BY <1>5
    <2> HIDE DEF R, S, I, J
    <2> QED BY <1>1, <2>1, <2>2, <2>3 DEF Restores, SamePreparation
  <1>7. Above(d, e)
    BY <1>1 DEF Above, Prepares, Wrote, Current
  <1> QED BY <1>6, <1>7

(* Restores looks at the layers of d only.                                 *)
LEMMA RestoresAgain ==
  ASSUME NEW b, NEW d, NEW e, Prepares(b, d), \A i \in 1..Len(b) : e[i] = d[i]
  PROVE  Restores(b, e)
  <1>1. Len(b) \in Nat \ {0}
    BY DBLength DEF Prepares, Wrote
  <1>2. Seen(e, Len(b)) = Seen(d, Len(b))
    BY <1>1, SeenSame
  <1>3. Restores(b, d)
    BY PreparesRestores
  <1> QED BY <1>2, <1>3 DEF Restores

(* What a call leaves on top of its snapshot.                              *)
LEMMA OverSnapshot ==
  ASSUME NEW b, NEW d, NEW e, Prepares(b, d), Wrote(Snapshot(d), e)
  PROVE  /\ Above(b, e) /\ Len(e) = Len(b) + 1 /\ Restores(b, e)
         /\ Len(d) = Len(b) /\ Len(b) \in Nat /\ Len(b) >= 1
         /\ \A i \in 1..Len(b) : e[i] = d[i]
  <1> DEFINE s == Snapshot(d)
             n == Len(b)
  <1>1. IsDB(b) /\ IsDB(d) /\ Len(d) = n /\ n \in Nat /\ n >= 1
    BY DBLength DEF Prepares, Wrote
  <1>2. /\ IsDB(s) /\ Len(s) = n + 1 /\ \A i \in 1..n : s[i] = d[i]
        /\ Current(s) = LayerOf(<< >>, Current(d).fund, Current(d).logs, Current(d).access)
    BY <1>1, SnapshotAdds
  <1>3. DOMAIN Current(s).dao = {}
    <2>1. Current(s).dao = << >>
      BY <1>2, LayerFields
    <2> QED BY <2>1
  <1> HIDE DEF s
  <1>4. Wrote(s, e)
    BY DEF s
  <1>5. IsDB(e) /\ Len(e) = n + 1 /\ \A i \in 1..n : e[i] = d[i]
    <2>1. (n + 1) - 1 = n
      BY <1>1
    <2> QED BY <1>1, <1>2, <1>4, <2>1 DEF Wrote
  <1>6. \A key \in DOMAIN e[n + 1].dao : ~OldRole(key)
    BY <1>3, <1>4, <1>5 DEF Wrote, Current
  <1>7. \A i \in 1..(n - 1) : e[i] = b[i]
    <2>1. \A i \in 1..(n - 1) : d[i] = b[i] /\ i \in 1..n
      BY <1>1 DEF Prepares, Wrote
    <2> QED BY <1>5, <2>1
  <1>8. \A key \in DOMAIN e[n].dao : key \in DOMAIN Current(b).dao \/ ~OldRole(key)
    <2>1. e[n] = Current(d)
      BY <1>1, <1>5 DEF Current
    <2> QED BY <2>1 DEF Prepares, Wrote
  <1>9. Above(b, e)
    <2>1. \A i \in n..(n + 1) : i = n \/ i = n + 1
      BY <1>1
    <2> QED BY <1>1, <1>5, <1>6, <1>7, <1>8, <2>1 DEF Above
  <1> QED BY <1>1, <1>5, <1>9, RestoresAgain

(* The frames that may be opened: their code runs at no address of a key.  *)
Ordinary(a) == a[1] \notin {"node", "committee"}

Entered(o, kind) ==
  o.run => o.frame.kind = kind /\ Ordinary(o.frame.self)

(* A call that its own step ends, one that is refused, and one that runs.  *)
LEMMA DoneOutcome ==
  ASSUME NEW b, NEW d, Above(b, d), NEW gas, NEW res \in {"ok", "err"},
         res = "err" => Len(d) = Len(b) /\ Restores(b, d)
  PROVE  LET o == Done(d, gas, res) IN Outcome(b, o) /\ o.run = FALSE
  <1> DEFINE o == Done(d, gas, res)
  <1>1. o.run = FALSE /\ o.db = d /\ o.res = res
    BY DEF Done
  <1> HIDE DEF o
  <1>2. Outcome(b, o)
    BY <1>1 DEF Outcome
  <1> QED BY <1>1, <1>2 DEF o

LEMMA RefusedOutcome ==
  ASSUME NEW b, NEW d, Prepares(b, d), NEW gas
  PROVE  Outcome(b, Done(d, gas, "err")) /\ \A kind : Entered(Done(d, gas, "err"), kind)
  <1>1. Above(b, d) /\ Restores(b, d) /\ Len(d) = Len(b)
    BY PreparesRestores DEF Prepares, Wrote
  <1> DEFINE o == Done(d, gas, "err")
  <1>2. Outcome(b, o) /\ o.run = FALSE
    BY <1>1, DoneOutcome
  <1> HIDE DEF o
  <1>3. \A kind : Entered(o, kind)
    BY <1>2 DEF Entered
  <1> QED BY <1>2, <1>3 DEF o

LEMMA RunsOutcome ==
  ASSUME NEW b, NEW d, NEW f, Above(b, d), Len(d) = Len(b) + 1, Restores(b, d),
         IsFrame(f), f.snap = Len(b) - 1, Flagged(f)
  PROVE  Outcome(b, Runs(d, f))
  <1> DEFINE o == Runs(d, f)
  <1>1. o.run = TRUE /\ o.db = d /\ o.frame = f
    BY RunsFields
  <1> HIDE DEF o
  <1>2. Outcome(b, o)
    BY <1>1 DEF Outcome
  <1> QED BY <1>1, <1>2 DEF o

LEMMA DirectOutcome ==
  ASSUME NEW b, NEW d, NEW ready, Prepares(b, d), Wrote(Snapshot(d), ready),
         NEW after, after # None => Wrote(Snapshot(d), after), NEW gas, NEW cost
  PROVE  LET o == RunDirect(d, ready, gas, cost, after) IN Outcome(b, o) /\ o.run = FALSE
  <1> DEFINE e == RevertToSnapshot(ready, SnapshotId(d))
             n == Len(b)
  <1>1. /\ Above(b, ready) /\ Len(ready) = n + 1 /\ Len(d) = n /\ n \in Nat /\ n >= 1
        /\ \A i \in 1..n : ready[i] = d[i]
    BY OverSnapshot
  <1>2. SnapshotId(d) = n - 1 /\ n - 1 \in Nat /\ (n - 1) + 1 = n /\ n <= Len(ready)
    BY <1>1 DEF SnapshotId
  <1>3. IsDB(e) /\ Len(e) = n /\ \A i \in 1..n : e[i] = ready[i]
    BY <1>1, <1>2, RevertCuts DEF Above
  <1> HIDE DEF e
  <1>4. \A i \in 1..n : e[i] = d[i]
    BY <1>1, <1>3
  <1>5. Restores(b, e)
    BY <1>4, RestoresAgain
  <1>6. Above(b, e)
    <2>1. \A i \in 1..(n - 1) : i \in 1..n /\ i \in 1..Len(ready)
      BY <1>1
    <2>2. \A i \in n..n : i = n /\ i \in 1..n /\ i \in n..Len(ready)
      BY <1>1
    <2>3. \A i \in 1..(n - 1) : e[i] = b[i]
      BY <1>1, <1>3, <2>1 DEF Above
    <2>4. n \in Len(b)..Len(ready) /\ e[n] = ready[n]
      BY <1>1, <1>3
    <2>5. \A key \in DOMAIN e[n].dao : key \in DOMAIN Current(b).dao \/ ~OldRole(key)
      BY <1>1, <2>4 DEF Above
    <2> QED BY <1>1, <1>3, <2>2, <2>3, <2>5 DEF Above
  <1>7. CASE gas < cost \/ after = None
    <2>1. RunDirect(d, ready, gas, cost, after) = Done(e, 0, "err")
      BY <1>7 DEF RunDirect, e
    <2>2. Outcome(b, Done(e, 0, "err")) /\ Done(e, 0, "err").run = FALSE
      BY <1>3, <1>5, <1>6, DoneOutcome
    <2> QED BY <2>1, <2>2
  <1>8. CASE ~(gas < cost \/ after = None)
    <2>1. RunDirect(d, ready, gas, cost, after) = Done(after, gas - cost, "ok")
      BY <1>8 DEF RunDirect
    <2>2. Above(b, after)
      BY <1>8, OverSnapshot
    <2>3. Outcome(b, Done(after, gas - cost, "ok")) /\ Done(after, gas - cost, "ok").run = FALSE
      BY <2>2, DoneOutcome
    <2> QED BY <2>1, <2>3
  <1> QED BY <1>7, <1>8

LEMMA InvokeOutcome ==
  ASSUME height \in Nat, NEW b, NEW d, NEW ready, Prepares(b, d), Wrote(Snapshot(d), ready),
         NEW kind, NEW from, NEW self, NEW caller, NEW a, NEW gas, NEW input
  PROVE  LET o == Invoke(kind, d, ready, from, self, caller, a, gas, input)
         IN  Outcome(b, o) /\ (Ordinary(self) => Entered(o, kind))
  <1> DEFINE o == Invoke(kind, d, ready, from, self, caller, a, gas, input)
             after == ContractCall(ready, from, input)
             p == RunDirect(d, ready, gas, Cost.precompile, ready)
             q == RunDirect(d, ready, gas, RequiredGas(input), after)
             r == Done(ready, gas, "ok")
             f == NewFrame(kind, self, caller, gas, SnapshotId(d))
             t == Runs(ready, f)
  <1>1. o \in {p, q, r, t}
    <2> HIDE DEF p, q, r, t
    <2>1. Precompile # Native
      BY DEF Precompile, Native
    <2>2. o = IF a = Precompile THEN p ELSE IF a = Native THEN q
              ELSE IF GetCode(d, a) # "code" THEN r ELSE t
      <3> USE DEF p, q, r, t, after, f
      <3> QED BY <2>1, Zenon DEF Invoke
    <2> QED BY <2>2
  <1>2. Outcome(b, p) /\ p.run = FALSE
    <2>1. ready # None => Wrote(Snapshot(d), ready)
      OBVIOUS
    <2> QED BY <2>1, DirectOutcome
  <1>3. Outcome(b, q) /\ q.run = FALSE
    <2>1. after # None => Wrote(ready, after)
      BY NativeWrites DEF Wrote
    <2> HIDE DEF after
    <2>2. after # None => Wrote(Snapshot(d), after)
      BY <2>1, WroteTwice
    <2> QED BY <2>2, DirectOutcome
  <1>4. Above(b, ready) /\ Len(ready) = Len(b) + 1 /\ Restores(b, ready) /\ Len(d) = Len(b)
    BY OverSnapshot
  <1>5. Outcome(b, r) /\ r.run = FALSE
    BY <1>4, DoneOutcome
  <1>6. f.kind = kind /\ f.self = self
    BY NewFrameFields
  <1>7. Outcome(b, t) /\ t.run = TRUE /\ t.frame = f
    <2>1. IsFrame(f) /\ f.snap = Len(d) - 1 /\ Flagged(f)
      BY NewFrameFields DEF SnapshotId
    <2> HIDE DEF f
    <2>2. f.snap = Len(b) - 1
      BY <1>4, <2>1
    <2>3. Outcome(b, Runs(ready, f))
      BY <1>4, <2>1, <2>2, RunsOutcome
    <2>4. Runs(ready, f).frame = f /\ Runs(ready, f).run = TRUE
      BY DEF Runs
    <2> QED BY <2>3, <2>4
  <1> HIDE DEF o, p, q, r, t, f
  <1>8. Outcome(b, o) /\ (Ordinary(self) => Entered(o, kind))
    BY <1>1, <1>2, <1>3, <1>5, <1>6, <1>7 DEF Entered
  <1> QED BY <1>8 DEF o

LEMMA CallOutcomes ==
  ASSUME height \in Nat, NEW b, NEW d, Prepares(b, d), NEW from, NEW sender, NEW a, Ordinary(a),
         NEW gas, NEW value, NEW input
  PROVE  /\ Outcome(b, Call(d, from, a, gas, value, input))
         /\ Entered(Call(d, from, a, gas, value, input), "call")
         /\ Outcome(b, CallCode(d, from, a, gas, value, input))
         /\ Ordinary(from) => Entered(CallCode(d, from, a, gas, value, input), "callcode")
         /\ Outcome(b, DelegateCall(d, from, sender, a, gas, input))
         /\ Ordinary(from) => Entered(DelegateCall(d, from, sender, a, gas, input), "delegate")
         /\ Outcome(b, StaticCall(d, from, a, gas, input))
         /\ Entered(StaticCall(d, from, a, gas, input), "static")
  <1> DEFINE s == Snapshot(d)
             t == Transfer(s, from, a, value)
  <1>1. IsDB(s)
    BY SnapshotAdds DEF Prepares, Wrote
  <1>2. Wrote(s, s) /\ Wrote(s, t)
    BY <1>1, WroteNothing, TransferWrites
  <1>3. Outcome(b, Done(d, gas, "err")) /\ \A kind : Entered(Done(d, gas, "err"), kind)
    BY RefusedOutcome
  <1> HIDE DEF t
  <1>4. Outcome(b, Call(d, from, a, gas, value, input)) /\ Entered(Call(d, from, a, gas, value, input), "call")
    <2> DEFINE o == Invoke("call", d, t, from, a, from, a, gas, input)
    <2>1. Outcome(b, o) /\ Entered(o, "call")
      BY <1>2, InvokeOutcome
    <2>2. Call(d, from, a, gas, value, input) \in {Done(d, gas, "err"), o}
      BY DEF Call, t
    <2> HIDE DEF o
    <2> QED BY <1>3, <2>1, <2>2
  <1>5. /\ Outcome(b, CallCode(d, from, a, gas, value, input))
        /\ Ordinary(from) => Entered(CallCode(d, from, a, gas, value, input), "callcode")
    <2> DEFINE o == Invoke("callcode", d, s, from, from, from, a, gas, input)
    <2>1. Outcome(b, o) /\ (Ordinary(from) => Entered(o, "callcode"))
      BY <1>2, InvokeOutcome
    <2>2. CallCode(d, from, a, gas, value, input) \in {Done(d, gas, "err"), o}
      BY DEF CallCode
    <2> HIDE DEF o
    <2> QED BY <1>3, <2>1, <2>2
  <1>6. /\ Outcome(b, DelegateCall(d, from, sender, a, gas, input))
        /\ Ordinary(from) => Entered(DelegateCall(d, from, sender, a, gas, input), "delegate")
    <2> DEFINE o == Invoke("delegate", d, s, from, from, sender, a, gas, input)
    <2>1. Outcome(b, o) /\ (Ordinary(from) => Entered(o, "delegate"))
      BY <1>2, InvokeOutcome
    <2>2. DelegateCall(d, from, sender, a, gas, input) \in {Done(d, gas, "err"), o}
      BY DEF DelegateCall
    <2> HIDE DEF o
    <2> QED BY <1>3, <2>1, <2>2
  <1>7. Outcome(b, StaticCall(d, from, a, gas, input)) /\ Entered(StaticCall(d, from, a, gas, input), "static")
    <2> DEFINE o == Invoke("static", d, s, from, a, from, a, gas, input)
    <2>1. Outcome(b, o) /\ Entered(o, "static")
      BY <1>2, InvokeOutcome
    <2>2. StaticCall(d, from, a, gas, input) \in {Done(d, gas, "err"), o}
      BY DEF StaticCall
    <2> HIDE DEF o
    <2> QED BY <1>3, <2>1, <2>2
  <1> QED BY <1>4, <1>5, <1>6, <1>7

LEMMA DeployOutcome ==
  ASSUME NEW b, NEW d, Prepares(b, d), NEW kind \in {"create", "create2"}, NEW from, NEW gas, NEW value
  PROVE  LET o == Deploy(kind, d, from, gas, value) IN Outcome(b, o) /\ Entered(o, kind)
  <1> DEFINE o == Deploy(kind, d, from, gas, value)
             address == CreateAddress(kind, d, from)
             nonced == SetNonce(d, from, GetNonce(d, from) + 1)
             noted == AddToAccessList(nonced, {address})
             s == Snapshot(noted)
             first == SetNonce(s, address, 1)
             ready == Transfer(first, from, address, value)
             f == NewFrame(kind, address, from, gas, SnapshotId(noted))
  <1>1. o \in {Done(d, gas, "err"), Done(noted, 0, "err"), Runs(ready, f)}
    BY DEF Deploy
  <1>2. Prepares(b, nonced)
    <2>1. Prepares(d, nonced)
      BY NonceCodeWrite DEF Prepares, Wrote
    <2> HIDE DEF nonced
    <2> QED BY <2>1, PreparesTwice
  <1>3. Prepares(b, noted)
    <2> HIDE DEF nonced
    <2>1. Prepares(nonced, noted)
      BY <1>2, AccessPrepares DEF Prepares, Wrote
    <2> HIDE DEF noted
    <2> QED BY <1>2, <2>1, PreparesTwice
  <1>4. Ordinary(address)
    BY DEF Ordinary, CreateAddress
  <1> HIDE DEF noted, nonced, address
  <1>5. Wrote(s, ready)
    <2>1. IsDB(s)
      BY <1>3, SnapshotAdds DEF Prepares, Wrote
    <2> HIDE DEF s
    <2>2. Wrote(s, first)
      BY <2>1, NonceCodeWrite DEF Prepares
    <2> HIDE DEF first
    <2>3. Wrote(first, ready)
      BY <2>2, TransferWrites DEF Wrote
    <2> HIDE DEF ready
    <2> QED BY <2>2, <2>3, WroteTwice
  <1>6. Outcome(b, Done(d, gas, "err")) /\ Entered(Done(d, gas, "err"), kind)
    BY RefusedOutcome
  <1>7. Outcome(b, Done(noted, 0, "err")) /\ Entered(Done(noted, 0, "err"), kind)
    BY <1>3, RefusedOutcome
  <1>8. Outcome(b, Runs(ready, f)) /\ Entered(Runs(ready, f), kind)
    <2>1. Above(b, ready) /\ Len(ready) = Len(b) + 1 /\ Restores(b, ready) /\ Len(noted) = Len(b)
      BY <1>3, <1>5, OverSnapshot
    <2>2. /\ IsFrame(f) /\ f.kind = kind /\ f.self = address
          /\ f.snap = Len(noted) - 1 /\ Flagged(f)
      BY NewFrameFields DEF SnapshotId
    <2> HIDE DEF f, ready
    <2> DEFINE r == Runs(ready, f)
    <2>3. Outcome(b, r) /\ r.run = TRUE /\ r.frame = f
      <3>1. f.snap = Len(b) - 1 /\ Flagged(f)
        BY <2>1, <2>2
      <3>2. Outcome(b, r)
        BY <2>1, <2>2, <3>1, RunsOutcome
      <3>3. r.run = TRUE /\ r.frame = f
        BY DEF Runs
      <3> QED BY <3>2, <3>3
    <2> HIDE DEF r
    <2>4. Outcome(b, r) /\ Entered(r, kind)
      BY <1>4, <2>2, <2>3 DEF Entered
    <2> QED BY <2>4 DEF r
  <1> HIDE DEF o, ready, f
  <1> QED BY <1>1, <1>6, <1>7, <1>8 DEF o

---------------------------------------------------------------------------
(* Frames over a database *)

FramesOn(d, fs) ==
  /\ IsDB(d) /\ IsSeq(fs)
  /\ \A i \in 1..Len(fs) : /\ IsFrame(fs[i]) /\ Ordinary(fs[i].self)
                           /\ fs[i].snap \in Nat /\ fs[i].snap + 2 <= Len(d)
  /\ \A i, j \in 1..Len(fs) : i < j => fs[i].snap < fs[j].snap

(* The state that the failure of each frame brings back.                   *)
Saved(d, fs) == [i \in 1..Len(fs) |-> Seen(d, fs[i].snap + 1)]

(* The same frames, with other gas in them.                                *)
SameFrame(f, g) ==
  /\ IsFrame(g) /\ g.kind = f.kind /\ g.self = f.self /\ g.snap = f.snap
  /\ g.setsReadOnly = f.setsReadOnly
SameFrames(fs, gs) ==
  IsSeq(gs) /\ Len(gs) = Len(fs) /\ \A i \in 1..Len(fs) : SameFrame(fs[i], gs[i])

LEMMA SeqLength == ASSUME NEW s, IsSeq(s) PROVE Len(s) \in Nat /\ (s = << >> <=> Len(s) = 0)
  <1>1. PICK S : s \in Seq(S)
    BY DEF IsSeq
  <1> QED BY <1>1

LEMMA FramesLength ==
  ASSUME NEW d, NEW fs, FramesOn(d, fs)
  PROVE  /\ Len(fs) \in Nat /\ (fs = << >> <=> Len(fs) = 0)
         /\ Len(d) \in Nat /\ Len(d) >= 1 /\ SameFrames(fs, fs)
  <1>1. Len(fs) \in Nat /\ (fs = << >> <=> Len(fs) = 0)
    BY SeqLength DEF FramesOn
  <1>2. Len(d) \in Nat /\ Len(d) >= 1
    BY DBLength DEF FramesOn
  <1> QED BY <1>1, <1>2 DEF FramesOn, SameFrames, SameFrame

LEMMA GasOfFrame ==
  ASSUME NEW f, IsFrame(f), NEW x
  PROVE  SameFrame(f, [f EXCEPT !.gas = x])
  <1>1. PICK k, s, c, g, n, r :
          f = [kind |-> k, self |-> s, sender |-> c, gas |-> g, snap |-> n, setsReadOnly |-> r]
    BY DEF IsFrame, FrameOf
  <1> DEFINE h == FrameOf(k, s, c, x, n, r)
  <1>2. f.kind = k /\ f.self = s /\ f.snap = n /\ f.setsReadOnly = r
    BY <1>1
  <1>3. [f EXCEPT !.gas = x] = h
    BY <1>1 DEF FrameOf
  <1>4. IsFrame(h) /\ h.kind = k /\ h.self = s /\ h.snap = n /\ h.setsReadOnly = r
    BY FrameFields
  <1> HIDE DEF h
  <1> QED BY <1>2, <1>3, <1>4 DEF SameFrame

LEMMA GasOnly ==
  ASSUME NEW d, NEW fs, FramesOn(d, fs), fs # << >>, NEW x
  PROVE  SameFrames(fs, [fs EXCEPT ![Len(fs)].gas = x])
  <1> DEFINE n == Len(fs)
             g == [fs[n] EXCEPT !.gas = x]
             gs == [fs EXCEPT ![n] = g]
  <1>1. PICK S : fs \in Seq(S)
    BY DEF FramesOn, IsSeq
  <1>2. n \in Nat /\ n >= 1
    BY FramesLength
  <1>3. IsFrame(fs[n])
    BY <1>2 DEF FramesOn
  <1>4. SameFrame(fs[n], g)
    BY <1>3, GasOfFrame
  <1>5. [fs EXCEPT ![Len(fs)].gas = x] = gs
    OBVIOUS
  <1> HIDE DEF g
  <1>6. fs \in Seq(S \cup {g})
    BY <1>1
  <1>7. gs \in Seq(S \cup {g}) /\ Len(gs) = n /\ gs[n] = g /\ \A i \in 1..n : i # n => gs[i] = fs[i]
    BY <1>2, <1>6
  <1> HIDE DEF gs, n
  <1>8. \A i \in 1..n : SameFrame(fs[i], gs[i])
    BY <1>4, <1>7, FramesLength DEF SameFrames, n
  <1>9. SameFrames(fs, gs)
    BY <1>7, <1>8 DEF SameFrames, IsSeq, n
  <1> QED BY <1>5, <1>9

LEMMA SameTwice ==
  ASSUME NEW fs, NEW gs, NEW hs, SameFrames(fs, gs), SameFrames(gs, hs)
  PROVE  SameFrames(fs, hs)
  BY DEF SameFrames, SameFrame

(* The layers below the top are what the open frames go back to.           *)
LEMMA SavedKept ==
  ASSUME NEW d, NEW fs, FramesOn(d, fs), NEW gs, SameFrames(fs, gs), NEW e, IsDB(e),
         Len(e) >= Len(d), \A i \in 1..(Len(d) - 1) : e[i] = d[i]
  PROVE  /\ FramesOn(e, gs) /\ Saved(e, gs) = Saved(d, fs)
         /\ \A i \in 1..Len(fs) : Seen(e, fs[i].snap + 1) = Seen(d, fs[i].snap + 1)
  <1>1. Len(fs) \in Nat /\ Len(gs) = Len(fs) /\ Len(d) \in Nat /\ Len(e) \in Nat
    BY FramesLength, DBLength DEF SameFrames
  <1>2. ASSUME NEW i \in 1..Len(fs)
        PROVE  /\ IsFrame(gs[i]) /\ Ordinary(gs[i].self) /\ gs[i].snap = fs[i].snap
               /\ fs[i].snap \in Nat /\ fs[i].snap + 2 <= Len(d)
    BY DEF FramesOn, SameFrames, SameFrame
  <1>3. FramesOn(e, gs)
    <2>1. \A i \in 1..Len(gs) : /\ IsFrame(gs[i]) /\ Ordinary(gs[i].self)
                                /\ gs[i].snap \in Nat /\ gs[i].snap + 2 <= Len(e)
      BY <1>1, <1>2
    <2>2. \A i, j \in 1..Len(gs) : i < j => gs[i].snap < gs[j].snap
      BY <1>1, <1>2 DEF FramesOn
    <2> QED BY <2>1, <2>2 DEF FramesOn, SameFrames
  <1>4. ASSUME NEW i \in 1..Len(fs) PROVE Seen(e, fs[i].snap + 1) = Seen(d, fs[i].snap + 1)
    <2> DEFINE n == fs[i].snap + 1
    <2>1. n \in Nat \ {0} /\ n <= Len(d) - 1
      BY <1>1, <1>2
    <2> HIDE DEF n
    <2>2. \A j \in 1..n : e[j] = d[j]
      BY <1>1, <2>1
    <2>3. Seen(e, n) = Seen(d, n)
      BY <2>1, <2>2, SeenSame
    <2> QED BY <2>3 DEF n
  <1>5. Saved(e, gs) = Saved(d, fs)
    BY <1>1, <1>2, <1>4 DEF Saved
  <1> QED BY <1>3, <1>4, <1>5

LEMMA SavedOpens ==
  ASSUME NEW d, NEW fs, FramesOn(d, fs), NEW gs, SameFrames(fs, gs), NEW e, Above(d, e),
         Len(e) = Len(d) + 1, NEW f, IsFrame(f), f.snap = Len(d) - 1, Ordinary(f.self)
  PROVE  LET hs == Append(gs, f)
         IN  /\ FramesOn(e, hs) /\ Len(hs) = Len(fs) + 1 /\ hs[Len(hs)] = f
             /\ \A i \in 1..Len(fs) : hs[i] = gs[i]
             /\ Len(Saved(e, hs)) = Len(Saved(d, fs)) + 1
             /\ SubSeq(Saved(e, hs), 1, Len(Saved(d, fs))) = Saved(d, fs)
             /\ Saved(e, hs)[Len(Saved(e, hs))] = Seen(e, Len(d))
  <1> DEFINE hs == Append(gs, f)
             n == Len(fs)
             S == Saved(d, fs)
             T == Saved(e, hs)
  <1>1. n \in Nat /\ Len(gs) = n /\ Len(d) \in Nat /\ Len(d) >= 1
    BY FramesLength DEF SameFrames
  <1>2. PICK U : gs \in Seq(U)
    BY DEF SameFrames, IsSeq
  <1>3. gs \in Seq(U \cup {f})
    BY <1>2
  <1>4. hs \in Seq(U \cup {f}) /\ Len(hs) = n + 1 /\ hs[n + 1] = f /\ \A i \in 1..n : hs[i] = gs[i]
    BY <1>1, <1>3
  <1> HIDE DEF hs
  <1>5. FramesOn(e, gs) /\ Saved(e, gs) = S
    BY SavedKept DEF Above
  <1>6. \A i \in 1..(n + 1) : i = n + 1 \/ i \in 1..n
    BY <1>1
  <1>7. FramesOn(e, hs)
    <2>1. \A i \in 1..Len(hs) : /\ IsFrame(hs[i]) /\ Ordinary(hs[i].self)
                                /\ hs[i].snap \in Nat /\ hs[i].snap + 2 <= Len(e)
      <3>1. \A i \in 1..n : /\ IsFrame(hs[i]) /\ Ordinary(hs[i].self)
                            /\ hs[i].snap \in Nat /\ hs[i].snap + 2 <= Len(e)
        BY <1>1, <1>4, <1>5 DEF FramesOn
      <3>2. f.snap \in Nat /\ f.snap + 2 <= Len(e)
        BY <1>1
      <3> QED BY <1>4, <1>6, <3>1, <3>2
    <2>2. ASSUME NEW i \in 1..Len(hs), NEW j \in 1..Len(hs), i < j PROVE hs[i].snap < hs[j].snap
      <3>1. i \in 1..n
        BY <1>1, <1>4, <2>2
      <3>2. CASE j \in 1..n
        BY <1>1, <1>4, <1>5, <2>2, <3>1, <3>2 DEF FramesOn
      <3>3. CASE j = n + 1
        <4>1. fs[i].snap + 2 <= Len(d) /\ fs[i].snap \in Nat /\ hs[i].snap = fs[i].snap
          BY <1>1, <1>4, <3>1 DEF FramesOn, SameFrames, SameFrame
        <4> QED BY <1>1, <1>4, <3>3, <4>1
      <3> QED BY <1>4, <1>6, <3>2, <3>3
    <2>3. IsSeq(hs)
      BY <1>4 DEF IsSeq
    <2> QED BY <2>1, <2>2, <2>3 DEF FramesOn, Above
  <1>8. S \in Seq({S[i] : i \in 1..n}) /\ Len(S) = n
    <2>1. S = [i \in 1..n |-> S[i]]
      BY DEF Saved
    <2> HIDE DEF S
    <2> QED BY <1>1, <2>1
  <1>9. T \in Seq({T[i] : i \in 1..(n + 1)}) /\ Len(T) = n + 1
    <2>1. T = [i \in 1..(n + 1) |-> T[i]]
      BY <1>4 DEF Saved
    <2> HIDE DEF T
    <2> QED BY <1>1, <2>1
  <1>10. \A i \in 1..n : T[i] = S[i]
    <2>1. \A i \in 1..n : T[i] = Seen(e, gs[i].snap + 1)
      BY <1>4, <1>6, <1>1 DEF Saved
    <2>2. \A i \in 1..n : S[i] = Seen(e, gs[i].snap + 1)
      BY <1>1, <1>5 DEF Saved
    <2> QED BY <2>1, <2>2
  <1>11. T[n + 1] = Seen(e, Len(d))
    <2>1. (Len(d) - 1) + 1 = Len(d) /\ n + 1 \in 1..(n + 1)
      BY <1>1
    <2> QED BY <1>4, <2>1 DEF Saved
  <1> HIDE DEF S, T
  <1>12. SubSeq(T, 1, n) = S
    BY <1>1, <1>8, <1>9, <1>10
  <1> HIDE DEF n
  <1>13. /\ FramesOn(e, hs) /\ Len(hs) = n + 1 /\ hs[Len(hs)] = f
         /\ \A i \in 1..n : hs[i] = gs[i]
         /\ Len(T) = Len(S) + 1
         /\ SubSeq(T, 1, Len(S)) = S
         /\ T[Len(T)] = Seen(e, Len(d))
    BY <1>4, <1>7, <1>8, <1>9, <1>11, <1>12
  <1> QED BY <1>13 DEF hs, n, S, T

(* The callers of the frame on top.                                        *)
Callers(fs) == SubSeq(fs, 1, Len(fs) - 1)

LEMMA SavedCloses ==
  ASSUME NEW d, NEW fs, FramesOn(d, fs), fs # << >>, NEW e, IsDB(e),
         Len(e) >= fs[Len(fs)].snap + 1, \A i \in 1..(fs[Len(fs)].snap + 1) : e[i] = d[i]
  PROVE  /\ FramesOn(e, Callers(fs)) /\ Len(Callers(fs)) = Len(fs) - 1
         /\ \A i \in 1..(Len(fs) - 1) : Callers(fs)[i] = fs[i]
         /\ Saved(d, fs) # << >> /\ Len(Saved(d, fs)) = Len(fs)
         /\ Saved(e, Callers(fs)) = SubSeq(Saved(d, fs), 1, Len(Saved(d, fs)) - 1)
         /\ Saved(d, fs)[Len(fs)] = Seen(d, fs[Len(fs)].snap + 1)
  <1> DEFINE hs == Callers(fs)
             n == Len(fs)
             S == Saved(d, fs)
             T == Saved(e, hs)
             m == fs[n].snap
  <1>1. n \in Nat /\ n >= 1 /\ n - 1 \in Nat /\ Len(d) \in Nat /\ Len(e) \in Nat
    BY FramesLength, DBLength
  <1>2. PICK U : fs \in Seq(U)
    BY DEF FramesOn, IsSeq
  <1>3. hs \in Seq(U) /\ Len(hs) = n - 1 /\ \A i \in 1..(n - 1) : hs[i] = fs[i]
    <2> DEFINE b == n - 1
    <2>1. b \in Nat /\ b <= Len(fs)
      BY <1>1
    <2> HIDE DEF b
    <2>2. SubSeq(fs, 1, b) \in Seq(U) /\ Len(SubSeq(fs, 1, b)) = b /\ \A i \in 1..b : SubSeq(fs, 1, b)[i] = fs[i]
      BY <1>2, <2>1
    <2> QED BY <2>2 DEF Callers, b
  <1> HIDE DEF hs
  <1>4. \A i \in 1..n : /\ IsFrame(fs[i]) /\ Ordinary(fs[i].self)
                        /\ fs[i].snap \in Nat /\ fs[i].snap + 2 <= Len(d)
    BY DEF FramesOn
  <1>5. m \in Nat /\ \A i \in 1..(n - 1) : i \in 1..n /\ fs[i].snap < m
    <2>1. n \in 1..n /\ \A i \in 1..(n - 1) : i \in 1..n /\ i < n
      BY <1>1
    <2> QED BY <1>4, <2>1 DEF FramesOn
  <1> HIDE DEF m
  <1>6. \A i \in 1..(n - 1) : fs[i].snap \in Nat /\ fs[i].snap + 1 <= m /\ fs[i].snap + 2 <= Len(e)
    BY <1>1, <1>4, <1>5 DEF m
  <1>7. FramesOn(e, hs)
    <2>1. \A i \in 1..Len(hs) : /\ IsFrame(hs[i]) /\ Ordinary(hs[i].self)
                                /\ hs[i].snap \in Nat /\ hs[i].snap + 2 <= Len(e)
      BY <1>3, <1>4, <1>5, <1>6
    <2>2. \A i, j \in 1..Len(hs) : i < j => hs[i].snap < hs[j].snap
      <3>1. \A i, j \in 1..(n - 1) : i < j => fs[i].snap < fs[j].snap
        BY <1>5 DEF FramesOn
      <3> QED BY <1>3, <3>1
    <2> QED BY <1>3, <2>1, <2>2 DEF FramesOn, IsSeq
  <1>8. ASSUME NEW i \in 1..(n - 1) PROVE Seen(e, fs[i].snap + 1) = Seen(d, fs[i].snap + 1)
    <2> DEFINE k == fs[i].snap + 1
    <2>1. k \in Nat \ {0} /\ k <= m
      BY <1>6, <1>5
    <2> HIDE DEF k
    <2>2. \A j \in 1..k : e[j] = d[j]
      BY <1>5, <2>1 DEF m
    <2>3. Seen(e, k) = Seen(d, k)
      BY <2>1, <2>2, SeenSame
    <2> QED BY <2>3 DEF k
  <1>9. S \in Seq({S[i] : i \in 1..n}) /\ Len(S) = n
    <2>1. S = [i \in 1..n |-> S[i]]
      BY DEF Saved
    <2> HIDE DEF S
    <2> QED BY <1>1, <2>1
  <1>10. T \in Seq({T[i] : i \in 1..(n - 1)}) /\ Len(T) = n - 1
    <2>1. T = [i \in 1..(n - 1) |-> T[i]]
      BY <1>3 DEF Saved
    <2> HIDE DEF T
    <2> QED BY <1>1, <2>1
  <1>11. \A i \in 1..(n - 1) : T[i] = S[i]
    <2>1. \A i \in 1..(n - 1) : T[i] = Seen(e, fs[i].snap + 1)
      BY <1>3 DEF Saved
    <2>2. \A i \in 1..(n - 1) : S[i] = Seen(d, fs[i].snap + 1)
      BY <1>5 DEF Saved
    <2> QED BY <1>8, <2>1, <2>2
  <1>12. S[n] = Seen(d, fs[n].snap + 1)
    BY <1>1 DEF Saved
  <1> HIDE DEF S, T
  <1>13. SubSeq(S, 1, n - 1) = T
    BY <1>1, <1>9, <1>10, <1>11
  <1>14. S # << >>
    BY <1>1, <1>9
  <1>15. /\ FramesOn(e, hs) /\ Len(hs) = Len(fs) - 1
         /\ \A i \in 1..(Len(fs) - 1) : hs[i] = fs[i]
         /\ S # << >> /\ Len(S) = Len(fs)
         /\ T = SubSeq(S, 1, Len(S) - 1)
         /\ S[Len(fs)] = Seen(d, fs[Len(fs)].snap + 1)
    BY <1>3, <1>7, <1>9, <1>12, <1>13, <1>14
  <1> QED BY <1>15 DEF hs, S, T

---------------------------------------------------------------------------
(* Static frames *)

StaticIn(fs) == \E i \in 1..Len(fs) : fs[i].kind = "static"

(* Nothing was written in the layers over the first n.                     *)
Quiet(d, n) == \A i \in (n + 1)..Len(d) : DOMAIN d[i].dao = {} /\ d[i].logs = d[n].logs

FlagOf(fs, i) == fs[i].kind = "static" /\ \A j \in 1..(i - 1) : fs[j].kind # "static"
StaticOn(d, fs, flag) ==
  /\ flag \in BOOLEAN /\ (flag <=> StaticIn(fs))
  /\ \A i \in 1..Len(fs) : fs[i].setsReadOnly \in BOOLEAN /\ (fs[i].setsReadOnly <=> FlagOf(fs, i))
  /\ \A k \in 1..Len(fs) : fs[k].kind = "static" => Quiet(d, fs[k].snap + 1)
  /\ \A k, j \in 1..Len(fs) : fs[k].kind = "static" /\ k < j => fs[j].kind \notin {"create", "create2"}

(* From d to e nothing was written, whatever layers were added.            *)
Hushed(d, e) ==
  /\ Len(e) >= Len(d) /\ \A i \in 1..(Len(d) - 1) : e[i] = d[i]
  /\ e[Len(d)].dao = d[Len(d)].dao /\ e[Len(d)].logs = d[Len(d)].logs
  /\ Quiet(e, Len(d))

LEMMA QuietKept ==
  ASSUME NEW d, IsDB(d), NEW e, IsDB(e), Hushed(d, e),
         NEW n \in Nat, n + 1 <= Len(d), n >= 1, Quiet(d, n)
  PROVE  Quiet(e, n)
  <1> DEFINE m == Len(d)
  <1>1. m \in Nat /\ Len(e) \in Nat /\ e[n] = d[n]
    BY DBLength DEF Hushed
  <1>2. ASSUME NEW i \in (n + 1)..Len(e) PROVE DOMAIN e[i].dao = {} /\ e[i].logs = e[n].logs
    <2>1. CASE i < m
      BY <1>1, <2>1 DEF Hushed, Quiet
    <2>2. m \in (n + 1)..m
      BY <1>1
    <2>3. DOMAIN e[m].dao = {} /\ e[m].logs = e[n].logs
      BY <1>1, <2>2 DEF Hushed, Quiet
    <2>4. CASE i > m
      <3>1. i \in (m + 1)..Len(e)
        BY <1>1, <2>4
      <3> QED BY <2>3, <3>1 DEF Hushed, Quiet
    <2> QED BY <1>1, <2>1, <2>3, <2>4
  <1> QED BY <1>2 DEF Quiet

LEMMA QuietItems ==
  ASSUME NEW d, IsDB(d), NEW n \in Nat, n <= Len(d), n >= 1, Quiet(d, n)
  PROVE  Items(d, Len(d)) = Items(d, n) /\ Current(d).logs = d[n].logs
  <1> DEFINE m == Len(d)
  <1>1. m \in Nat
    BY DBLength
  <1>2. ASSUME NEW key PROVE ItemAt(d, m, key) = ItemAt(d, n, key)
    <2>1. \A i \in 1..m : i \in 1..n \/ i \in (n + 1)..m
      BY <1>1
    <2>2. \A i \in 1..n : i \in 1..m
      BY <1>1
    <2>3. Writers(d, m, key) = Writers(d, n, key)
      BY <2>1, <2>2 DEF Writers, Quiet
    <2> HIDE DEF m
    <2>4. CASE Writers(d, m, key) = {}
      <3> DEFINE found == IF key \in DOMAIN disk THEN disk[key] ELSE None
      <3>1. ItemAt(d, m, key) = found /\ ItemAt(d, n, key) = found
        BY <1>1, <2>3, <2>4, ItemOnDisk
      <3> QED BY <3>1
    <2>5. CASE Writers(d, m, key) # {}
      BY <1>1, <2>3, <2>5, ItemFound
    <2> QED BY <2>4, <2>5
  <1>3. Items(d, m) = Items(d, n)
    <2> HIDE DEF m
    <2> QED BY <1>1, <1>2, ItemsSame
  <1>4. d[m].logs = d[n].logs
    <2>1. m = n \/ m \in (n + 1)..m
      BY <1>1
    <2> QED BY <2>1 DEF Quiet
  <1> QED BY <1>3, <1>4 DEF Current

(* Two moments with a static frame in common.                              *)
LEMMA StaticSilent ==
  ASSUME NEW d, NEW fs, NEW p, FramesOn(d, fs), StaticOn(d, fs, p),
         NEW e, NEW gs, NEW q, FramesOn(e, gs), StaticOn(e, gs, q),
         NEW k \in 1..Len(fs), k \in 1..Len(gs), fs[k].kind = "static",
         gs[k].kind = "static", gs[k].snap = fs[k].snap,
         \A i \in 1..(fs[k].snap + 1) : e[i] = d[i]
  PROVE  Items(e, Len(e)) = Items(d, Len(d)) /\ Current(e).logs = Current(d).logs
  <1> DEFINE n == fs[k].snap + 1
  <1>1. n \in Nat /\ n >= 1 /\ n <= Len(d) /\ Quiet(d, n) /\ IsDB(d)
    <2>1. fs[k].snap \in Nat /\ fs[k].snap + 2 <= Len(d) /\ Len(d) \in Nat
      BY FramesLength DEF FramesOn
    <2> QED BY <2>1 DEF StaticOn, FramesOn
  <1>2. n <= Len(e) /\ Quiet(e, n) /\ IsDB(e)
    <2>1. gs[k].snap \in Nat /\ gs[k].snap + 2 <= Len(e) /\ Len(e) \in Nat
      BY FramesLength DEF FramesOn
    <2> QED BY <2>1 DEF StaticOn, FramesOn
  <1>3. \A i \in 1..n : e[i] = d[i]
    OBVIOUS
  <1> HIDE DEF n
  <1>4. Items(d, Len(d)) = Items(d, n) /\ Current(d).logs = d[n].logs
    BY <1>1, QuietItems
  <1>5. Items(e, Len(e)) = Items(e, n) /\ Current(e).logs = e[n].logs
    BY <1>1, <1>2, QuietItems
  <1>6. Items(e, n) = Items(d, n)
    <2>1. \A key : ItemAt(e, n, key) = ItemAt(d, n, key)
      BY <1>1, <1>3, ItemAtSame
    <2> QED BY <1>1, <2>1, ItemsSame
  <1> QED BY <1>1, <1>3, <1>4, <1>5, <1>6

LEMMA StaticKept ==
  ASSUME NEW d, NEW fs, NEW flag, FramesOn(d, fs), StaticOn(d, fs, flag), NEW gs, SameFrames(fs, gs),
         NEW e, IsDB(e), flag => Hushed(d, e)
  PROVE  StaticOn(e, gs, flag) /\ (StaticIn(gs) <=> StaticIn(fs))
  <1>1. Len(fs) \in Nat /\ Len(gs) = Len(fs) /\ Len(d) \in Nat /\ Len(d) >= 1
    BY FramesLength DEF SameFrames
  <1>2. \A i \in 1..Len(fs) : /\ gs[i].kind = fs[i].kind /\ gs[i].snap = fs[i].snap
                              /\ gs[i].setsReadOnly = fs[i].setsReadOnly
    BY DEF SameFrames, SameFrame
  <1>3. StaticIn(gs) <=> StaticIn(fs)
    BY <1>1, <1>2 DEF StaticIn
  <1>4. ASSUME NEW i \in 1..Len(gs) PROVE FlagOf(gs, i) <=> FlagOf(fs, i)
    <2>1. \A j \in 1..(i - 1) : j \in 1..Len(fs)
      BY <1>1
    <2> QED BY <1>1, <1>2, <2>1 DEF FlagOf
  <1>5. \A i \in 1..Len(gs) : gs[i].setsReadOnly \in BOOLEAN /\ (gs[i].setsReadOnly <=> FlagOf(gs, i))
    BY <1>1, <1>2, <1>4, Zenon DEF StaticOn
  <1>6. ASSUME NEW k \in 1..Len(gs), gs[k].kind = "static" PROVE Quiet(e, gs[k].snap + 1)
    <2> DEFINE n == fs[k].snap + 1
    <2>1. fs[k].kind = "static" /\ fs[k].snap \in Nat /\ fs[k].snap + 2 <= Len(d) /\ gs[k].snap = fs[k].snap
      BY <1>1, <1>2, <1>6 DEF FramesOn
    <2>2. flag /\ Quiet(d, n)
      BY <1>1, <2>1 DEF StaticOn, StaticIn
    <2>3. n \in Nat /\ n + 1 <= Len(d) /\ n >= 1 /\ IsDB(d)
      BY <1>1, <2>1 DEF FramesOn
    <2> HIDE DEF n
    <2>4. Quiet(e, n)
      BY <2>2, <2>3, QuietKept
    <2> QED BY <2>1, <2>4 DEF n
  <1>7. \A k, j \in 1..Len(gs) : gs[k].kind = "static" /\ k < j => gs[j].kind \notin {"create", "create2"}
    BY <1>1, <1>2 DEF StaticOn
  <1>8. flag \in BOOLEAN /\ (flag <=> StaticIn(gs))
    BY <1>3, Zenon DEF StaticOn
  <1> QED BY <1>3, <1>5, <1>6, <1>7, <1>8 DEF StaticOn

LEMMA StaticOpens ==
  ASSUME NEW d, NEW fs, NEW flag, FramesOn(d, fs), StaticOn(d, fs, flag), NEW gs, SameFrames(fs, gs),
         NEW e, IsDB(e), Len(e) = Len(d) + 1,
         NEW f, f.snap = Len(d) - 1, f.setsReadOnly = (f.kind = "static" /\ ~flag),
         flag \/ f.kind = "static" => Hushed(d, e),
         flag => f.kind \notin {"create", "create2"}
  PROVE  StaticOn(e, Append(gs, f), flag \/ f.setsReadOnly)
  <1> DEFINE hs == Append(gs, f)
             n == Len(fs)
             to == flag \/ f.setsReadOnly
  <1>1. n \in Nat /\ Len(gs) = n /\ Len(d) \in Nat /\ Len(d) >= 1
    BY FramesLength DEF SameFrames
  <1>2. PICK U : gs \in Seq(U)
    BY DEF SameFrames, IsSeq
  <1>3. gs \in Seq(U \cup {f})
    BY <1>2
  <1>4. Len(hs) = n + 1 /\ hs[n + 1] = f /\ \A i \in 1..n : hs[i] = gs[i]
    BY <1>1, <1>3
  <1> HIDE DEF hs
  <1>5. StaticOn(e, gs, flag)
    BY StaticKept
  <1>6. flag \in BOOLEAN /\ (flag <=> StaticIn(gs))
    BY <1>5, Zenon DEF StaticOn
  <1>7. f.setsReadOnly \in BOOLEAN /\ (f.setsReadOnly <=> f.kind = "static" /\ ~flag)
    OBVIOUS
  <1>8. \A i \in 1..(n + 1) : i = n + 1 \/ i \in 1..n
    BY <1>1
  <1>9. \A i \in 1..n : i \in 1..(n + 1)
    BY <1>1
  <1>10. n + 1 \in 1..(n + 1)
    BY <1>1
  <1>11. to \in BOOLEAN /\ (to <=> StaticIn(hs))
    <2>1. StaticIn(hs) <=> StaticIn(gs) \/ f.kind = "static"
      BY <1>1, <1>4, <1>8, <1>9, <1>10, Zenon DEF StaticIn
    <2> QED BY <1>6, <1>7, <2>1, Zenon
  <1>12. ASSUME NEW i \in 1..(n + 1)
         PROVE hs[i].setsReadOnly \in BOOLEAN /\ (hs[i].setsReadOnly <=> FlagOf(hs, i))
    <2>1. CASE i \in 1..n
      <3>1. \A j \in 1..(i - 1) : hs[j] = gs[j]
        BY <1>1, <1>4, <2>1
      <3>2. FlagOf(hs, i) <=> FlagOf(gs, i)
        BY <1>4, <2>1, <3>1 DEF FlagOf
      <3>3. gs[i].setsReadOnly \in BOOLEAN /\ (gs[i].setsReadOnly <=> FlagOf(gs, i))
        BY <1>1, <1>5, <2>1, Zenon DEF StaticOn
      <3> QED BY <1>4, <2>1, <3>2, <3>3, Zenon
    <2>2. CASE i = n + 1
      <3>1. i - 1 = n
        BY <1>1, <2>2
      <3>2. FlagOf(hs, i) <=> f.kind = "static" /\ ~StaticIn(gs)
        BY <1>1, <1>4, <2>2, <3>1 DEF FlagOf, StaticIn
      <3> QED BY <1>4, <1>6, <1>7, <2>2, <3>2, Zenon
    <2> QED BY <1>8, <2>1, <2>2
  <1>13. ASSUME NEW k \in 1..(n + 1), hs[k].kind = "static" PROVE Quiet(e, hs[k].snap + 1)
    <2>1. CASE k \in 1..n
      BY <1>1, <1>4, <1>5, <1>13, <2>1 DEF StaticOn
    <2>2. CASE k = n + 1
      <3>1. f.kind = "static" /\ f.snap + 1 = Len(d)
        BY <1>1, <1>4, <1>13, <2>2
      <3> QED BY <1>4, <2>2, <3>1 DEF Hushed
    <2> QED BY <1>8, <2>1, <2>2
  <1>14. ASSUME NEW k \in 1..(n + 1), NEW j \in 1..(n + 1), hs[k].kind = "static", k < j
         PROVE  hs[j].kind \notin {"create", "create2"}
    <2>1. k \in 1..n
      BY <1>1, <1>14
    <2>2. gs[k].kind = "static" /\ flag
      BY <1>1, <1>4, <1>6, <1>14, <2>1 DEF StaticIn
    <2>3. CASE j \in 1..n
      BY <1>1, <1>4, <1>5, <1>14, <2>1, <2>2, <2>3 DEF StaticOn
    <2>4. CASE j = n + 1
      BY <1>4, <2>2, <2>4
    <2> QED BY <1>8, <2>3, <2>4
  <1> HIDE DEF to, n
  <1>15. StaticOn(e, hs, to)
    BY <1>4, <1>11, <1>12, <1>13, <1>14 DEF StaticOn
  <1> QED BY <1>15 DEF hs, to

LEMMA StaticCloses ==
  ASSUME NEW d, NEW fs, NEW flag, FramesOn(d, fs), StaticOn(d, fs, flag), fs # << >>, NEW e, IsDB(e),
         Len(e) >= fs[Len(fs)].snap + 1, Len(e) <= Len(d),
         StaticIn(Callers(fs)) => \A i \in 1..Len(e) : e[i] = d[i]
  PROVE  StaticOn(e, Callers(fs), flag /\ ~fs[Len(fs)].setsReadOnly)
  <1> DEFINE hs == Callers(fs)
             n == Len(fs)
             f == fs[n]
             to == flag /\ ~f.setsReadOnly
  <1>1. n \in Nat /\ n >= 1 /\ n - 1 \in Nat /\ Len(d) \in Nat /\ Len(e) \in Nat /\ n \in 1..n
    BY FramesLength, DBLength
  <1>2. Len(hs) = n - 1 /\ \A i \in 1..(n - 1) : hs[i] = fs[i]
    <2>1. PICK U : fs \in Seq(U)
      BY DEF FramesOn, IsSeq
    <2> DEFINE b == n - 1
    <2>2. b \in Nat /\ b <= Len(fs)
      BY <1>1
    <2> HIDE DEF b
    <2>3. Len(SubSeq(fs, 1, b)) = b /\ \A i \in 1..b : SubSeq(fs, 1, b)[i] = fs[i]
      BY <2>1, <2>2
    <2> QED BY <2>3 DEF Callers, b
  <1> HIDE DEF hs
  <1>3. flag \in BOOLEAN /\ (flag <=> StaticIn(fs)) /\ f.setsReadOnly \in BOOLEAN /\ (f.setsReadOnly <=> FlagOf(fs, n))
    BY <1>1, Zenon DEF StaticOn
  <1>4. \A i \in 1..n : i = n \/ i \in 1..(n - 1)
    BY <1>1
  <1>5. \A i \in 1..(n - 1) : i \in 1..n
    BY <1>1
  <1>6. to \in BOOLEAN /\ (to <=> StaticIn(hs))
    <2>1. StaticIn(fs) <=> StaticIn(hs) \/ f.kind = "static"
      BY <1>1, <1>2, <1>4, <1>5, Zenon DEF StaticIn
    <2>2. FlagOf(fs, n) <=> f.kind = "static" /\ ~StaticIn(hs)
      BY <1>2, Zenon DEF FlagOf, StaticIn
    <2> QED BY <1>3, <2>1, <2>2, Zenon
  <1>7. ASSUME NEW i \in 1..(n - 1)
        PROVE hs[i].setsReadOnly \in BOOLEAN /\ (hs[i].setsReadOnly <=> FlagOf(hs, i))
    <2>1. \A j \in 1..(i - 1) : hs[j] = fs[j]
      BY <1>1, <1>2
    <2>2. FlagOf(hs, i) <=> FlagOf(fs, i)
      BY <1>2, <2>1 DEF FlagOf
    <2>3. fs[i].setsReadOnly \in BOOLEAN /\ (fs[i].setsReadOnly <=> FlagOf(fs, i))
      BY <1>5, Zenon DEF StaticOn
    <2> QED BY <1>2, <2>2, <2>3, Zenon
  <1>8. ASSUME NEW k \in 1..(n - 1), hs[k].kind = "static" PROVE Quiet(e, hs[k].snap + 1)
    <2> DEFINE m == fs[k].snap + 1
    <2>1. StaticIn(hs) /\ fs[k].kind = "static" /\ k \in 1..n /\ hs[k] = fs[k]
      BY <1>2, <1>5, <1>8 DEF StaticIn
    <2>2. \A i \in 1..Len(e) : e[i] = d[i]
      BY <2>1 DEF hs
    <2>3. fs[k].snap \in Nat /\ f.snap \in Nat /\ fs[k].snap < f.snap
      BY <1>1, <2>1 DEF FramesOn
    <2>4. m \in Nat /\ m >= 1 /\ m <= Len(e) /\ Quiet(d, m)
      BY <1>1, <2>1, <2>3 DEF StaticOn
    <2> HIDE DEF m
    <2>5. ASSUME NEW i \in (m + 1)..Len(e) PROVE DOMAIN e[i].dao = {} /\ e[i].logs = e[m].logs
      <3>1. i \in (m + 1)..Len(d) /\ i \in 1..Len(e) /\ m \in 1..Len(e)
        BY <1>1, <2>4
      <3> QED BY <2>2, <2>4, <3>1 DEF Quiet
    <2>6. Quiet(e, m)
      BY <2>5 DEF Quiet
    <2> QED BY <2>1, <2>6 DEF m
  <1>9. \A k, j \in 1..(n - 1) : hs[k].kind = "static" /\ k < j => hs[j].kind \notin {"create", "create2"}
    BY <1>2, <1>5 DEF StaticOn
  <1> HIDE DEF to, n
  <1>10. StaticOn(e, hs, to)
    BY <1>2, <1>6, <1>7, <1>8, <1>9 DEF StaticOn
  <1> QED BY <1>10 DEF hs, to, n

(* Calls that transfer nothing write nothing, when no key of the committee *)
(* makes them.                                                             *)
LEMMA NotedHushed ==
  ASSUME NEW b, NEW d, Prepares(b, d), Current(d).dao = Current(b).dao
  PROVE  LET s == Snapshot(d)
         IN  Hushed(b, d) /\ Hushed(b, s) /\ Hushed(b, RevertToSnapshot(s, SnapshotId(d)))
  <1> DEFINE s == Snapshot(d)
             r == RevertToSnapshot(s, SnapshotId(d))
             n == Len(b)
  <1>1. IsDB(b) /\ IsDB(d) /\ Len(d) = n /\ n \in Nat /\ n >= 1 /\ \A i \in 1..(n - 1) : d[i] = b[i]
    BY DBLength DEF Prepares, Wrote
  <1>2. d[n].dao = b[n].dao /\ d[n].logs = b[n].logs
    BY <1>1 DEF Prepares, Current
  <1>3. IsDB(s) /\ Len(s) = n + 1 /\ (\A i \in 1..n : s[i] = d[i])
        /\ s[n + 1] = LayerOf(<< >>, d[n].fund, d[n].logs, d[n].access)
    BY <1>1, SnapshotAdds DEF Current
  <1>4. s[n + 1].logs = d[n].logs /\ DOMAIN s[n + 1].dao = {}
    <2>1. s[n + 1].dao = << >> /\ s[n + 1].logs = d[n].logs
      BY <1>3, LayerFields
    <2> QED BY <2>1
  <1> HIDE DEF s
  <1>5. SnapshotId(d) = n - 1 /\ n - 1 \in Nat /\ (n - 1) + 1 = n /\ n <= Len(s)
    BY <1>1, <1>3 DEF SnapshotId
  <1>6. Len(r) = n /\ \A i \in 1..n : r[i] = s[i]
    BY <1>3, <1>5, RevertCuts
  <1> HIDE DEF r, n
  <1>7. ASSUME NEW e, Len(e) = n, \A i \in 1..n : e[i] = d[i] PROVE Hushed(b, e)
    <2>1. Quiet(e, n)
      <3>1. \A i \in (n + 1)..n : FALSE
        BY <1>1
      <3> QED BY <1>7, <3>1 DEF Quiet
    <2>2. e[n] = d[n] /\ \A i \in 1..(n - 1) : e[i] = b[i]
      BY <1>1, <1>7
    <2> QED BY <1>1, <1>2, <1>7, <2>1, <2>2 DEF Hushed, n
  <1>8. Hushed(b, d) /\ Hushed(b, r)
    BY <1>1, <1>3, <1>6, <1>7
  <1>9. Hushed(b, s)
    <2>1. \A i \in (n + 1)..(n + 1) : i = n + 1
      BY <1>1
    <2>2. s[n] = d[n] /\ \A i \in 1..(n - 1) : s[i] = b[i]
      BY <1>1, <1>3
    <2>3. Quiet(s, n)
      BY <1>3, <1>4, <2>1, <2>2 DEF Quiet
    <2>4. Len(s) >= n
      BY <1>1, <1>3
    <2> QED BY <1>2, <2>2, <2>3, <2>4 DEF Hushed, n
  <1> QED BY <1>8, <1>9 DEF s, r

LEMMA InvokeHushed ==
  ASSUME NEW b, NEW d, Prepares(b, d), Current(d).dao = Current(b).dao,
         NEW kind, NEW from, Ordinary(from), NEW self, NEW caller, NEW a, NEW gas, NEW input
  PROVE  Hushed(b, Invoke(kind, d, Snapshot(d), from, self, caller, a, gas, input).db)
  <1> DEFINE s == Snapshot(d)
             u == RevertToSnapshot(s, SnapshotId(d))
             o == Invoke(kind, d, s, from, self, caller, a, gas, input)
             p == RunDirect(d, s, gas, Cost.precompile, s)
             q == RunDirect(d, s, gas, RequiredGas(input), None)
             r == Done(s, gas, "ok")
             t == Runs(s, NewFrame(kind, self, caller, gas, SnapshotId(d)))
  <1>1. o \in {p, q, r, t}
    <2>1. Precompile # Native
      BY DEF Precompile, Native
    <2>2. ContractCall(s, from, input) = None
      BY NativeRefuses DEF Ordinary
    <2>3. o = IF a = Precompile THEN p ELSE IF a = Native THEN q
              ELSE IF GetCode(d, a) # "code" THEN r ELSE t
      BY <2>1, <2>2, Zenon DEF Invoke
    <2> HIDE DEF p, q, r, t, o
    <2> QED BY <2>3
  <1>2. Hushed(b, s) /\ Hushed(b, u)
    BY NotedHushed
  <1> HIDE DEF s, u
  <1>3. \A e, g, c : Done(e, g, c).db = e
    BY DEF Done
  <1>4. p.db \in {s, u}
    BY <1>3 DEF RunDirect, u
  <1>5. q.db \in {s, u}
    BY <1>3 DEF RunDirect, u
  <1>6. r.db = s
    BY <1>3
  <1>7. t.db = s
    BY DEF Runs
  <1> HIDE DEF o, p, q, r, t
  <1>8. o.db \in {s, u}
    BY <1>1, <1>4, <1>5, <1>6, <1>7
  <1> QED BY <1>2, <1>8 DEF o, s

LEMMA CallsHushed ==
  ASSUME NEW b, NEW d, Prepares(b, d), Current(d).dao = Current(b).dao,
         NEW from, Ordinary(from), NEW sender, NEW a, NEW gas, NEW value, NEW input
  PROVE  /\ Hushed(b, Call(d, from, a, gas, 0, input).db)
         /\ Hushed(b, CallCode(d, from, a, gas, value, input).db)
         /\ Hushed(b, DelegateCall(d, from, sender, a, gas, input).db)
         /\ Hushed(b, StaticCall(d, from, a, gas, input).db)
  <1> DEFINE s == Snapshot(d)
             r == Done(d, gas, "err")
  <1>1. IsDB(s) /\ Transfer(s, from, a, 0) = s
    BY SnapshotAdds, TransferWrites DEF Prepares, Wrote
  <1>2. r.db = d
    BY DEF Done
  <1>3. Hushed(b, r.db)
    BY <1>2, NotedHushed
  <1> HIDE DEF r
  <1>4. Hushed(b, Call(d, from, a, gas, 0, input).db)
    <2> DEFINE o == Invoke("call", d, s, from, a, from, a, gas, input)
    <2>1. Hushed(b, o.db)
      BY InvokeHushed
    <2>2. Call(d, from, a, gas, 0, input) \in {r, o}
      BY <1>1 DEF Call, r
    <2> HIDE DEF o
    <2> QED BY <1>3, <2>1, <2>2
  <1>5. Hushed(b, CallCode(d, from, a, gas, value, input).db)
    <2> DEFINE o == Invoke("callcode", d, s, from, from, from, a, gas, input)
    <2>1. Hushed(b, o.db)
      BY InvokeHushed
    <2>2. CallCode(d, from, a, gas, value, input) \in {r, o}
      BY DEF CallCode, r
    <2> HIDE DEF o
    <2> QED BY <1>3, <2>1, <2>2
  <1>6. Hushed(b, DelegateCall(d, from, sender, a, gas, input).db)
    <2> DEFINE o == Invoke("delegate", d, s, from, from, sender, a, gas, input)
    <2>1. Hushed(b, o.db)
      BY InvokeHushed
    <2>2. DelegateCall(d, from, sender, a, gas, input) \in {r, o}
      BY DEF DelegateCall, r
    <2> HIDE DEF o
    <2> QED BY <1>3, <2>1, <2>2
  <1>7. Hushed(b, StaticCall(d, from, a, gas, input).db)
    <2> DEFINE o == Invoke("static", d, s, from, a, from, a, gas, input)
    <2>1. Hushed(b, o.db)
      BY InvokeHushed
    <2>2. StaticCall(d, from, a, gas, input) \in {r, o}
      BY DEF StaticCall, r
    <2> HIDE DEF o
    <2> QED BY <1>3, <2>1, <2>2
  <1> QED BY <1>4, <1>5, <1>6, <1>7

---------------------------------------------------------------------------
(* The invariant of the frames *)

FreshRoles(d) == \A i \in 1..Len(d) : \A key \in DOMAIN d[i].dao : ~OldRole(key)

FrameInv ==
  /\ height \in Nat
  /\ FramesOn(db, frames) /\ StaticOn(db, frames, readOnly)
  /\ phase # "exec" => frames = << >> /\ result = "none"
  /\ FreshRoles(db)

LEMMA WroteAbove == ASSUME NEW d, NEW e, Wrote(d, e) PROVE Above(d, e)
  <1>1. Len(d) \in Nat /\ Len(e) = Len(d)
    BY DBLength DEF Wrote
  <1>2. \A i \in Len(d)..Len(e) : i = Len(e)
    BY <1>1
  <1> QED BY <1>1, <1>2 DEF Wrote, Above, Current

LEMMA FreshAbove ==
  ASSUME NEW d, IsDB(d), FreshRoles(d), NEW e, Above(d, e)
  PROVE  FreshRoles(e)
  <1>1. Len(d) \in Nat /\ Len(d) >= 1 /\ Len(e) \in Nat
    BY DBLength DEF Above
  <1>2. ASSUME NEW i \in 1..Len(e), NEW key \in DOMAIN e[i].dao PROVE ~OldRole(key)
    <2>1. CASE i \in 1..(Len(d) - 1)
      BY <1>1, <2>1 DEF Above, FreshRoles
    <2>2. CASE i \in Len(d)..Len(e)
      <3>1. key \in DOMAIN Current(d).dao => ~OldRole(key)
        BY <1>1 DEF FreshRoles, Current
      <3> QED BY <2>2, <3>1 DEF Above
    <2> QED BY <1>1, <2>1, <2>2
  <1> QED BY <1>2 DEF FreshRoles

(* The steps of running code: an instruction of the frame on top, a call,  *)
(* and the end of a frame.                                                 *)
Ledgers == UNCHANGED <<disk, height, cache, phase>>

LocalStep ==
  /\ Ledgers /\ phase = "exec"
  /\ Wrote(db, db') /\ SameFrames(frames, frames')
  /\ result' = "none" /\ readOnly' = readOnly
  /\ readOnly => Hushed(db, db')

EnterStep ==
  \E o, gs :
    /\ UNCHANGED <<disk, height, cache>> /\ phase' = "exec"
    /\ SameFrames(frames, gs) /\ Outcome(db, o) /\ db' = o.db
    /\ o.run => /\ frames' = Append(gs, o.frame) /\ readOnly' = (readOnly \/ o.frame.setsReadOnly)
                /\ result' = "none" /\ Ordinary(o.frame.self)
                /\ readOnly => o.frame.kind \notin {"create", "create2"}
                /\ o.frame.kind = "static" => Hushed(db, o.db)
    /\ ~o.run => SameFrames(frames, frames') /\ readOnly' = readOnly /\ result' = o.res
    /\ readOnly => Hushed(db, o.db)

LeaveStep ==
  /\ Ledgers /\ phase = "exec" /\ frames # << >>
  /\ SameFrames(Callers(frames), frames')
  /\ readOnly' = (readOnly /\ ~Top.setsReadOnly)
  /\ \/ Wrote(db, db') /\ (StaticIn(Callers(frames)) => db' = db) /\ result' = "ok"
     \/ db' = RevertToSnapshot(db, Top.snap) /\ result' = "err"

LEMMA SloadStep == ASSUME FrameInv, Sload PROVE LocalStep
  <1> DEFINE e == AddToAccessList(db, {<<"slot", Top.self>>})
  <1>1. IsDB(db) /\ FramesOn(db, frames) /\ frames # << >>
    BY DEF FrameInv, FramesOn, Sload, Running
  <1>2. Prepares(db, e) /\ Current(e).dao = Current(db).dao
    BY <1>1, AccessPrepares
  <1> HIDE DEF e
  <1>3. Wrote(db, e) /\ Hushed(db, e)
    BY <1>2, NotedHushed DEF Prepares
  <1>4. SameFrames(frames, frames')
    BY <1>1, GasOnly DEF Sload, Spend
  <1> QED BY <1>3, <1>4 DEF LocalStep, Sload, Spend, Running, block, Ledgers, e

LEMMA SstoreStep == ASSUME FrameInv, NEW v, Sstore(v) PROVE LocalStep
  <1> DEFINE key == <<"slot", Top.self>>
             x == SstoreGas(db, Top.self, v).refund
             c == AddToAccessList(db, {key})
             e == AddRefund(c, x)
             f == Put(e, key, v)
  <1>1. IsDB(db) /\ FramesOn(db, frames) /\ frames # << >>
    BY DEF FrameInv, FramesOn, Sstore, Running
  <1>2. Wrote(db, c)
    BY <1>1, AccessPrepares DEF Prepares
  <1>3. Wrote(c, e)
    BY <1>2, RefundWrites DEF Wrote
  <1>4. Wrote(e, f)
    <2>1. ~OldRole(key)
      BY NotRole
    <2>2. IsDB(e)
      BY <1>3 DEF Wrote
    <2> HIDE DEF e, key
    <2> QED BY <2>1, <2>2, PutWrites
  <1>5. db' = f
    BY DEF Sstore
  <1> HIDE DEF c, e, f
  <1>6. Wrote(db, db')
    BY <1>2, <1>3, <1>4, <1>5, WroteTwice
  <1>7. SameFrames(frames, frames')
    BY <1>1, GasOnly DEF Sstore, Spend
  <1> QED BY <1>6, <1>7 DEF LocalStep, Sstore, Spend, Running, block, Ledgers

LEMMA LogStep == ASSUME FrameInv, Log PROVE LocalStep
  <1>1. IsDB(db) /\ FramesOn(db, frames) /\ frames # << >>
    BY DEF FrameInv, FramesOn, Log, Running
  <1>2. Wrote(db, db')
    BY <1>1, LogWrites DEF Log
  <1>3. SameFrames(frames, frames')
    BY <1>1, GasOnly DEF Log, Spend
  <1> QED BY <1>2, <1>3 DEF LocalStep, Log, Spend, Running, block, Ledgers

LEMMA GiveBackSame ==
  ASSUME NEW d, NEW fs, FramesOn(d, fs), NEW gas, GiveBack(fs, gas)
  PROVE  SameFrames(fs, frames')
  <1>1. CASE fs = << >>
    BY <1>1, FramesLength DEF GiveBack
  <1>2. CASE fs # << >>
    <2> DEFINE x == fs[Len(fs)].gas + gas
               gs == [fs EXCEPT ![Len(fs)].gas = x]
    <2>1. frames' = gs
      BY <1>2 DEF GiveBack
    <2> HIDE DEF x
    <2>2. SameFrames(fs, gs)
      BY <1>2, GasOnly
    <2> QED BY <2>1, <2>2
  <1> QED BY <1>1, <1>2

LEMMA EnterIs ==
  ASSUME FrameInv, NEW fs, NEW o, SameFrames(frames, fs), Outcome(db, o), Enter(fs, o),
         UNCHANGED <<disk, height, cache>>, phase' = "exec",
         o.run => /\ Ordinary(o.frame.self) /\ (readOnly => o.frame.kind \notin {"create", "create2"})
                  /\ o.frame.kind = "static" => Hushed(db, o.db),
         readOnly => Hushed(db, o.db)
  PROVE  EnterStep
  <1>1. FramesOn(db, frames) /\ IsDB(db)
    BY DEF FrameInv, FramesOn
  <1>2. ASSUME ~o.run PROVE SameFrames(frames, frames')
    <2>1. GiveBack(fs, o.gas)
      BY <1>2 DEF Enter
    <2>2. FramesOn(db, fs)
      <3>1. Len(db) >= Len(db)
        BY <1>1, DBLength
      <3> QED BY <1>1, <3>1, SavedKept
    <2> QED BY <2>1, <2>2, GiveBackSame, SameTwice
  <1>3. ASSUME ~o.run PROVE readOnly' = readOnly /\ result' = o.res
    BY <1>3 DEF Enter
  <1>4. ASSUME o.run
        PROVE  /\ frames' = Append(fs, o.frame) /\ readOnly' = (readOnly \/ o.frame.setsReadOnly)
               /\ result' = "none"
    BY <1>4 DEF Enter
  <1>5. db' = o.db
    BY DEF Enter
  <1> QED BY <1>2, <1>3, <1>4, <1>5, Zenon DEF EnterStep

(* What may be called, and who calls.                                      *)
LEMMA TargetsOrdinary == \A a \in Targets : Ordinary(a)
  BY ContractsAssumption DEF Targets, Precompile, Native, Nobody, Ordinary

LEMMA TopOrdinary ==
  ASSUME FrameInv, frames # << >>
  PROVE  Ordinary(Top.self) /\ Top.snap \in Nat /\ Top.snap + 2 <= Len(db)
  <1>1. Len(frames) \in 1..Len(frames)
    BY FramesLength DEF FrameInv
  <1> QED BY <1>1 DEF Top, FrameInv, FramesOn

LEMMA CallStep ==
  ASSUME FrameInv, NEW kind \in {"call", "callcode", "delegate", "static"}, NEW a \in Targets,
         NEW value, NEW input, CallOp(kind, a, value, input)
  PROVE  EnterStep
  <1> DEFINE cost == CallCost(db, kind, a, value)
             given == AllButReserve(Top.gas - cost)
             granted == given + (IF value # 0 THEN Cost.stipend ELSE 0)
             noted == AddToAccessList(db, {a})
             rest == [frames EXCEPT ![Len(frames)].gas = @ - cost - given]
             o == CASE kind = "call" -> Call(noted, Top.self, a, granted, value, input)
                    [] kind = "callcode" -> CallCode(noted, Top.self, a, granted, value, input)
                    [] kind = "delegate" -> DelegateCall(noted, Top.self, Top.sender, a, granted, input)
                    [] kind = "static" -> StaticCall(noted, Top.self, a, granted, input)
  <1>1. FramesOn(db, frames) /\ IsDB(db) /\ frames # << >> /\ height \in Nat
    BY DEF FrameInv, FramesOn, CallOp, Running
  <1>2. /\ Running /\ (kind = "call" /\ value # 0 => ~readOnly)
        /\ Enter(rest, o) /\ UNCHANGED block
    BY DEF CallOp
  <1>3. SameFrames(frames, rest)
    BY <1>1, GasOnly
  <1>4. Prepares(db, noted) /\ Current(noted).dao = Current(db).dao
    BY <1>1, AccessPrepares
  <1>5. Ordinary(a) /\ Ordinary(Top.self)
    BY <1>1, TargetsOrdinary, TopOrdinary
  <1> HIDE DEF noted, rest, granted
  <1>6. CASE kind = "call"
    <2> DEFINE c == Call(noted, Top.self, a, granted, value, input)
    <2>1. o = c
      BY <1>6
    <2>2. Outcome(db, c) /\ Entered(c, "call")
      BY <1>1, <1>4, <1>5, CallOutcomes
    <2>3. value = 0 => Hushed(db, c.db)
      BY <1>4, <1>5, CallsHushed
    <2>4. readOnly => Hushed(db, c.db)
      BY <1>2, <1>6, <2>3
    <2> HIDE DEF c, o
    <2> QED BY <1>2, <1>3, <2>1, <2>2, <2>4, EnterIs DEF Entered, Running, block
  <1>7. CASE kind = "callcode"
    <2> DEFINE c == CallCode(noted, Top.self, a, granted, value, input)
    <2>1. o = c
      BY <1>7
    <2>2. Outcome(db, c) /\ Entered(c, "callcode")
      BY <1>1, <1>4, <1>5, CallOutcomes
    <2>3. Hushed(db, c.db)
      BY <1>4, <1>5, CallsHushed
    <2> HIDE DEF c, o
    <2> QED BY <1>2, <1>3, <2>1, <2>2, <2>3, EnterIs DEF Entered, Running, block
  <1>8. CASE kind = "delegate"
    <2> DEFINE c == DelegateCall(noted, Top.self, Top.sender, a, granted, input)
    <2>1. o = c
      BY <1>8
    <2>2. Outcome(db, c) /\ Entered(c, "delegate")
      BY <1>1, <1>4, <1>5, CallOutcomes
    <2>3. Hushed(db, c.db)
      BY <1>4, <1>5, CallsHushed
    <2> HIDE DEF c, o
    <2> QED BY <1>2, <1>3, <2>1, <2>2, <2>3, EnterIs DEF Entered, Running, block
  <1>9. CASE kind = "static"
    <2> DEFINE c == StaticCall(noted, Top.self, a, granted, input)
    <2>1. o = c
      BY <1>9
    <2>2. Outcome(db, c) /\ Entered(c, "static")
      BY <1>1, <1>4, <1>5, CallOutcomes
    <2>3. Hushed(db, c.db)
      BY <1>4, <1>5, CallsHushed
    <2> HIDE DEF c, o
    <2> QED BY <1>2, <1>3, <2>1, <2>2, <2>3, EnterIs DEF Entered, Running, block
  <1> QED BY <1>6, <1>7, <1>8, <1>9

LEMMA CreateStep ==
  ASSUME FrameInv, NEW kind \in {"create", "create2"}, NEW value, CreateOp(kind, value)
  PROVE  EnterStep
  <1> DEFINE given == AllButReserve(Top.gas - Cost.create)
             rest == [frames EXCEPT ![Len(frames)].gas = @ - Cost.create - given]
             o == Deploy(kind, db, Top.self, given, value)
  <1>1. FramesOn(db, frames) /\ IsDB(db) /\ frames # << >>
    BY DEF FrameInv, FramesOn, CreateOp, Running
  <1>2. Running /\ ~readOnly /\ Enter(rest, o) /\ UNCHANGED block
    BY DEF CreateOp
  <1>3. SameFrames(frames, rest)
    BY <1>1, GasOnly
  <1>4. Outcome(db, o) /\ Entered(o, kind)
    BY <1>1, WroteNothing, DeployOutcome
  <1> HIDE DEF rest, o
  <1> QED BY <1>2, <1>3, <1>4, EnterIs DEF Entered, Running, block

LEMMA BeginStep ==
  ASSUME FrameInv, NEW from, NEW to, to # None => Ordinary(to), NEW value, NEW input,
         BeginTx(from, to, value, input)
  PROVE  EnterStep
  <1> DEFINE fresh == PrepareAccessList(db, {from, Precompile} \cup ({to} \ {None}))
             gas == TxGas - NetFee
             o == IF to = None THEN Deploy("create", fresh, from, gas, value)
                  ELSE Call(fresh, from, to, gas, value, input)
  <1>1. FramesOn(db, frames) /\ IsDB(db) /\ frames = << >> /\ height \in Nat
    BY DEF FrameInv, FramesOn, BeginTx
  <1>2. Enter(<< >>, o) /\ phase' = "exec" /\ UNCHANGED <<disk, height, cache>>
    BY DEF BeginTx
  <1>3. SameFrames(frames, << >>)
    BY <1>1, FramesLength
  <1>4. Prepares(db, fresh)
    BY <1>1, AccessPrepares
  <1>5. ~readOnly
    <2>1. ~StaticIn(frames)
      BY <1>1, FramesLength DEF StaticIn
    <2> QED BY <2>1 DEF FrameInv, StaticOn
  <1> HIDE DEF fresh, gas
  <1>6. CASE to = None
    <2> DEFINE c == Deploy("create", fresh, from, gas, value)
    <2>1. o = c
      BY <1>6
    <2>2. Outcome(db, c) /\ Entered(c, "create")
      BY <1>4, DeployOutcome
    <2> HIDE DEF c, o
    <2> QED BY <1>2, <1>3, <1>5, <2>1, <2>2, EnterIs DEF Entered
  <1>7. CASE to # None
    <2> DEFINE c == Call(fresh, from, to, gas, value, input)
    <2>1. o = c
      BY <1>7
    <2>2. Outcome(db, c) /\ Entered(c, "call")
      BY <1>1, <1>4, <1>7, CallOutcomes
    <2> HIDE DEF c, o
    <2> QED BY <1>2, <1>3, <1>5, <2>1, <2>2, EnterIs DEF Entered
  <1> QED BY <1>6, <1>7

LEMMA CallersOn ==
  ASSUME NEW d, NEW fs, FramesOn(d, fs), fs # << >>
  PROVE  /\ FramesOn(d, Callers(fs)) /\ Len(Callers(fs)) = Len(fs) - 1
         /\ \A i \in 1..(Len(fs) - 1) : Callers(fs)[i] = fs[i]
  <1>1. IsDB(d) /\ Len(d) >= fs[Len(fs)].snap + 1
    <2>1. Len(fs) \in 1..Len(fs) /\ Len(d) \in Nat
      BY FramesLength
    <2>2. fs[Len(fs)].snap \in Nat /\ fs[Len(fs)].snap + 2 <= Len(d)
      BY <2>1 DEF FramesOn
    <2> QED BY <2>1, <2>2 DEF FramesOn
  <1> QED BY <1>1, SavedCloses

LEMMA LeaveIs ==
  ASSUME FrameInv, phase = "exec", frames # << >>, NEW d, NEW gas, NEW res, Leave(d, gas, res), UNCHANGED block,
         res = "ok" => Wrote(db, d) /\ (StaticIn(Callers(frames)) => d = db),
         res # "ok" => d = db
  PROVE  LeaveStep
  <1>1. FramesOn(db, frames)
    BY DEF FrameInv
  <1>2. SameFrames(Callers(frames), frames')
    <2>1. PICK x : GiveBack(Callers(frames), x)
      BY DEF Leave, Callers
    <2> QED BY <1>1, <2>1, CallersOn, GiveBackSame
  <1>3. readOnly' = (readOnly /\ ~Top.setsReadOnly)
    BY DEF Leave
  <1>4. CASE res = "ok"
    <2>1. db' = d /\ result' = "ok"
      BY <1>4 DEF Leave
    <2> QED BY <1>2, <1>3, <1>4, <2>1, Zenon DEF LeaveStep, Ledgers, block
  <1>5. CASE res # "ok"
    <2>1. db' = RevertToSnapshot(db, Top.snap) /\ result' = "err"
      BY <1>5 DEF Leave
    <2> QED BY <1>2, <1>3, <2>1, Zenon DEF LeaveStep, Ledgers, block
  <1> QED BY <1>4, <1>5

LEMMA FinishIs ==
  ASSUME FrameInv, phase = "exec", frames # << >>, NEW d, NEW gas, NEW code, Finish(d, gas, code), UNCHANGED block,
         Wrote(db, d), readOnly => d = db
  PROVE  LeaveStep
  <1>1. FramesOn(db, frames) /\ StaticOn(db, frames, readOnly)
    BY DEF FrameInv
  <1> DEFINE n == Len(frames)
  <1>2. n \in Nat /\ n >= 1
    BY <1>1, FramesLength
  <1>3. ASSUME StaticIn(Callers(frames))
        PROVE  readOnly /\ Top.kind \notin {"create", "create2"}
    <2>1. PICK k \in 1..(n - 1) : frames[k].kind = "static"
      BY <1>1, <1>3, CallersOn DEF StaticIn
    <2>2. k \in 1..n /\ n \in 1..n /\ k < n
      BY <1>2
    <2>3. StaticIn(frames)
      BY <2>1, <2>2 DEF StaticIn
    <2>4. readOnly
      BY <1>1, <2>3 DEF StaticOn
    <2>5. frames[n].kind \notin {"create", "create2"}
      BY <1>1, <2>1, <2>2 DEF StaticOn
    <2> QED BY <2>4, <2>5 DEF Top
  <1>4. CASE Top.kind \in {"create", "create2"}
    <2> DEFINE e == SetCode(d, Top.self, code)
    <2>1. PICK x : Leave(e, x, "ok")
      BY <1>4 DEF Finish
    <2>2. Wrote(d, e)
      BY NonceCodeWrite DEF Wrote
    <2> HIDE DEF e
    <2>3. Wrote(db, e)
      BY <2>2, WroteTwice
    <2> QED BY <1>3, <1>4, <2>1, <2>3, LeaveIs
  <1>5. CASE Top.kind \notin {"create", "create2"}
    <2>1. Leave(d, gas, "ok")
      BY <1>5 DEF Finish
    <2> QED BY <1>3, <2>1, LeaveIs
  <1> QED BY <1>4, <1>5

LEMMA EndSteps ==
  ASSUME FrameInv
  PROVE  /\ \A code : Return(code) => LeaveStep
         /\ Revert => LeaveStep
         /\ Fault => LeaveStep
         /\ \A to : Selfdestruct(to) => LeaveStep
  <1>1. IsDB(db)
    BY DEF FrameInv, FramesOn
  <1>2. ASSUME NEW code, Return(code) PROVE LeaveStep
    <2>1. Finish(db, Top.gas, code) /\ phase = "exec" /\ frames # << >> /\ UNCHANGED block
      BY <1>2 DEF Return, Running
    <2> QED BY <1>1, <2>1, WroteNothing, FinishIs
  <1>3. ASSUME Revert PROVE LeaveStep
    <2>1. Leave(db, Top.gas, "reverted") /\ phase = "exec" /\ frames # << >> /\ UNCHANGED block
      BY <1>3 DEF Revert, Running
    <2> QED BY <2>1, LeaveIs
  <1>4. ASSUME Fault PROVE LeaveStep
    <2>1. Leave(db, Top.gas, "fault") /\ phase = "exec" /\ frames # << >> /\ UNCHANGED block
      BY <1>4 DEF Fault, Running
    <2> QED BY <2>1, LeaveIs
  <1>5. ASSUME NEW to, Selfdestruct(to) PROVE LeaveStep
    <2> DEFINE c == AddToAccessList(db, {to})
               e == AddTokens(c, to, GetBalance(db, Top.self))
               f == Destroy(e, Top.self)
    <2>1. Wrote(db, c)
      BY <1>1, AccessPrepares DEF Prepares
    <2>2. Wrote(c, e)
      BY <2>1, TokensWrite DEF Wrote
    <2>3. Wrote(e, f)
      BY <2>2, NonceCodeWrite DEF Wrote
    <2>4. PICK x : Finish(f, x, "empty")
      BY <1>5 DEF Selfdestruct
    <2>5. phase = "exec" /\ frames # << >> /\ ~readOnly /\ UNCHANGED block
      BY <1>5 DEF Selfdestruct, Running
    <2> HIDE DEF c, e, f
    <2>6. Wrote(db, f)
      BY <2>1, <2>2, <2>3, WroteTwice
    <2> QED BY <2>4, <2>5, <2>6, FinishIs
  <1> QED BY <1>2, <1>3, <1>4, <1>5

LEMMA HushedSelf == ASSUME NEW d, IsDB(d) PROVE Hushed(d, d)
  <1>1. Len(d) \in Nat
    BY DBLength
  <1>2. \A i \in (Len(d) + 1)..Len(d) : FALSE
    BY <1>1
  <1> QED BY <1>1, <1>2 DEF Hushed, Quiet

LEMMA LeaveFacts ==
  ASSUME FrameInv, LeaveStep
  PROVE  /\ IsDB(db') /\ Len(db') >= Top.snap + 1 /\ Len(db') <= Len(db)
         /\ \A i \in 1..(Top.snap + 1) : db'[i] = db[i]
         /\ StaticIn(Callers(frames)) => \A i \in 1..Len(db') : db'[i] = db[i]
         /\ FreshRoles(db')
  <1>1. IsDB(db) /\ Len(db) \in Nat /\ Len(db) >= 1
    BY DBLength DEF FrameInv, FramesOn
  <1>2. Top.snap \in Nat /\ Top.snap + 2 <= Len(db)
    BY TopOrdinary DEF LeaveStep
  <1>3. CASE Wrote(db, db') /\ (StaticIn(Callers(frames)) => db' = db)
    <2>1. IsDB(db') /\ Len(db') = Len(db) /\ \A i \in 1..(Len(db) - 1) : db'[i] = db[i]
      BY <1>3 DEF Wrote
    <2>2. \A i \in 1..(Top.snap + 1) : i \in 1..(Len(db) - 1)
      BY <1>1, <1>2
    <2>3. FreshRoles(db')
      BY <1>1, <1>3, WroteAbove, FreshAbove DEF FrameInv
    <2>4. Len(db') >= Top.snap + 1 /\ Len(db') <= Len(db)
      BY <1>1, <1>2, <2>1
    <2> QED BY <1>3, <2>1, <2>2, <2>3, <2>4
  <1>4. CASE db' = RevertToSnapshot(db, Top.snap)
    <2> DEFINE m == Top.snap
    <2>1. m \in Nat /\ m + 1 <= Len(db)
      BY <1>1, <1>2
    <2> HIDE DEF m
    <2>2. IsDB(db') /\ Len(db') = m + 1 /\ \A i \in 1..(m + 1) : db'[i] = db[i]
      BY <1>1, <1>4, <2>1, RevertCuts DEF m
    <2>3. \A i \in 1..(m + 1) : i \in 1..Len(db)
      BY <1>1, <2>1
    <2>4. FreshRoles(db')
      BY <2>2, <2>3 DEF FrameInv, FreshRoles
    <2>5. Len(db') >= m + 1
      BY <2>1, <2>2
    <2> QED BY <2>1, <2>2, <2>4, <2>5 DEF m
  <1> QED BY <1>3, <1>4 DEF LeaveStep

LEMMA FreshNext == ASSUME height' = height, FreshRoles(db') PROVE FreshRoles(db)'
  BY DEF FreshRoles, OldRole

LEMMA LocalKeeps == ASSUME FrameInv, LocalStep PROVE FrameInv'
  <1>1. IsDB(db) /\ IsDB(db') /\ Len(db') = Len(db) /\ \A i \in 1..(Len(db) - 1) : db'[i] = db[i]
    BY DEF LocalStep, Wrote
  <1>2. Len(db') >= Len(db)
    BY <1>1, DBLength
  <1>3. FramesOn(db, frames)'
    BY <1>1, <1>2, SavedKept DEF FrameInv, LocalStep
  <1>4. StaticOn(db, frames, readOnly)'
    <2>1. StaticOn(db', frames', readOnly)
      BY <1>1, StaticKept DEF FrameInv, LocalStep
    <2> QED BY <2>1 DEF LocalStep
  <1>5. FreshRoles(db)'
    <2>1. FreshRoles(db')
      BY <1>1, WroteAbove, FreshAbove DEF FrameInv, LocalStep
    <2> QED BY <2>1, FreshNext DEF LocalStep, Ledgers
  <1> QED BY <1>3, <1>4, <1>5 DEF FrameInv, LocalStep, Ledgers

LEMMA EnterKeeps == ASSUME FrameInv, EnterStep PROVE FrameInv'
  <1>1. PICK o, gs :
          /\ UNCHANGED <<disk, height, cache>> /\ phase' = "exec"
          /\ SameFrames(frames, gs) /\ Outcome(db, o) /\ db' = o.db
          /\ o.run => /\ frames' = Append(gs, o.frame) /\ readOnly' = (readOnly \/ o.frame.setsReadOnly)
                      /\ result' = "none" /\ Ordinary(o.frame.self)
                      /\ readOnly => o.frame.kind \notin {"create", "create2"}
                      /\ o.frame.kind = "static" => Hushed(db, o.db)
          /\ ~o.run => SameFrames(frames, frames') /\ readOnly' = readOnly /\ result' = o.res
          /\ readOnly => Hushed(db, o.db)
    BY Zenon DEF EnterStep
  <1>2. FramesOn(db, frames) /\ StaticOn(db, frames, readOnly) /\ IsDB(db) /\ FreshRoles(db)
    BY DEF FrameInv, FramesOn
  <1>3. Above(db, db')
    BY <1>1 DEF Outcome
  <1>4. IsDB(db') /\ Len(db') >= Len(db) /\ \A i \in 1..(Len(db) - 1) : db'[i] = db[i]
    BY <1>3 DEF Above
  <1>5. FreshRoles(db)'
    <2>1. FreshRoles(db')
      BY <1>2, <1>3, FreshAbove
    <2> QED BY <1>1, <2>1, FreshNext
  <1>6. CASE o.run
    <2> DEFINE f == o.frame
    <2>1. Len(db') = Len(db) + 1 /\ IsFrame(f) /\ f.snap = Len(db) - 1 /\ Flagged(f)
      BY <1>1, <1>6 DEF Outcome
    <2>2. frames' = Append(gs, f) /\ readOnly' = (readOnly \/ f.setsReadOnly) /\ Ordinary(f.self)
      BY <1>1, <1>6
    <2>3. /\ readOnly => f.kind \notin {"create", "create2"}
          /\ readOnly \/ f.kind = "static" => Hushed(db, db')
      BY <1>1, <1>6
    <2> HIDE DEF f
    <2>4. FramesOn(db', Append(gs, f))
      BY <1>1, <1>2, <1>3, <2>1, <2>2, SavedOpens
    <2>5. StaticOn(db', Append(gs, f), readOnly \/ f.setsReadOnly)
      BY <1>1, <1>2, <1>4, <2>1, <2>3, StaticOpens DEF Flagged
    <2>6. FramesOn(db, frames)' /\ StaticOn(db, frames, readOnly)'
      BY <2>2, <2>4, <2>5
    <2> QED BY <1>1, <1>5, <2>6 DEF FrameInv
  <1>7. CASE ~o.run
    <2>1. FramesOn(db, frames)'
      BY <1>1, <1>2, <1>4, <1>7, SavedKept
    <2>2. StaticOn(db', frames', readOnly)
      BY <1>1, <1>2, <1>4, <1>7, StaticKept
    <2>3. StaticOn(db, frames, readOnly)'
      BY <1>1, <1>7, <2>2
    <2> QED BY <1>1, <1>5, <2>1, <2>3 DEF FrameInv
  <1> QED BY <1>6, <1>7

LEMMA LeaveKeeps == ASSUME FrameInv, LeaveStep PROVE FrameInv'
  <1> DEFINE hs == Callers(frames)
  <1>1. FramesOn(db, frames) /\ StaticOn(db, frames, readOnly) /\ frames # << >>
    BY DEF FrameInv, LeaveStep
  <1>2. /\ IsDB(db') /\ Len(db') >= frames[Len(frames)].snap + 1 /\ Len(db') <= Len(db)
        /\ \A i \in 1..(frames[Len(frames)].snap + 1) : db'[i] = db[i]
        /\ StaticIn(hs) => \A i \in 1..Len(db') : db'[i] = db[i]
        /\ FreshRoles(db')
    BY LeaveFacts DEF Top
  <1>3. FramesOn(db', hs)
    BY <1>1, <1>2, SavedCloses
  <1>4. StaticOn(db', hs, readOnly /\ ~frames[Len(frames)].setsReadOnly)
    BY <1>1, <1>2, StaticCloses
  <1>5. StaticOn(db', hs, readOnly')
    BY <1>4 DEF LeaveStep, Top
  <1> HIDE DEF hs
  <1>6. SameFrames(hs, frames')
    BY DEF LeaveStep, hs
  <1>7. FramesOn(db', frames')
    <2>1. Len(db') >= Len(db')
      BY <1>2, DBLength
    <2> QED BY <1>2, <1>3, <1>6, <2>1, SavedKept
  <1>8. StaticOn(db', frames', readOnly')
    BY <1>2, <1>3, <1>5, <1>6, HushedSelf, StaticKept
  <1>9. FreshRoles(db)'
    BY <1>2, FreshNext DEF LeaveStep, Ledgers
  <1> QED BY <1>7, <1>8, <1>9 DEF FrameInv, LeaveStep, Ledgers

(* Between two transactions, and between two blocks, no frame is open.     *)
BlockStep ==
  /\ frames = << >> /\ frames' = << >> /\ readOnly' = readOnly
  /\ result' = "none" /\ phase' # "exec" /\ height' \in Nat
  /\ IsDB(db') /\ FreshRoles(db)'

LEMMA BlockKeeps == ASSUME FrameInv, BlockStep PROVE FrameInv'
  <1>1. SameFrames(frames, frames') /\ Len(frames) = 0
    BY FramesLength DEF FrameInv, BlockStep
  <1>2. FramesOn(db, frames)'
    <2>1. \A i \in 1..Len(frames') : FALSE
      BY <1>1 DEF SameFrames
    <2> QED BY <1>1, <2>1 DEF FramesOn, BlockStep, SameFrames
  <1>3. StaticOn(db', frames', readOnly')
    <2>1. ~readOnly
      BY <1>1 DEF FrameInv, StaticOn, StaticIn
    <2>2. StaticOn(db', frames', readOnly)
      BY <1>1, <2>1, StaticKept DEF FrameInv, BlockStep
    <2> QED BY <2>2 DEF BlockStep
  <1> QED BY <1>2, <1>3 DEF FrameInv, BlockStep

LEMMA EmptyFresh ==
  /\ IsDB(<< EmptyStore >>)
  /\ \A i \in 1..Len(<< EmptyStore >>) : DOMAIN << EmptyStore >>[i].dao = {}
  <1> DEFINE m == EmptyStore
  <1>1. IsLayer(m) /\ m.dao = << >>
    <2>1. m = LayerOf(<< >>, 0, << >>, {})
      BY DEF EmptyStore, LayerOf
    <2> QED BY <2>1, LayerFields
  <1>2. DOMAIN m.dao = {}
    BY <1>1
  <1> HIDE DEF m
  <1>3. << m >> \in Seq({m}) /\ Len(<< m >>) = 1 /\ << m >>[1] = m /\ << m >> # << >>
    OBVIOUS
  <1>4. \A i \in 1..Len(<< m >>) : i = 1
    BY <1>3
  <1>5. IsDB(<< m >>)
    <2>1. IsSeq(<< m >>)
      BY <1>3 DEF IsSeq
    <2> QED BY <1>1, <1>3, <1>4, <2>1 DEF IsDB
  <1>6. \A i \in 1..Len(<< m >>) : DOMAIN << m >>[i].dao = {}
    BY <1>2, <1>3, <1>4
  <1> QED BY <1>5, <1>6 DEF m

LEMMA BlockSteps ==
  ASSUME FrameInv, StartBlock \/ PostPersist \/ Persist \/ StoreFails \/ Restart
  PROVE  BlockStep
  <1>1. frames = << >> /\ result = "none" /\ height \in Nat /\ IsDB(db)
    BY DEF FrameInv, FramesOn, StartBlock, PostPersist, Persist, StoreFails, Restart
  <1>2. frames' = << >> /\ readOnly' = readOnly /\ result' = "none" /\ phase' # "exec" /\ height' \in Nat
    BY <1>1 DEF StartBlock, PostPersist, Persist, StoreFails, Restart
  <1>3. IsDB(db') /\ FreshRoles(db)'
    <2>1. CASE db' = << EmptyStore >>
      <3>1. IsDB(db') /\ \A i \in 1..Len(db') : DOMAIN db'[i].dao = {}
        BY <2>1, EmptyFresh
      <3> QED BY <3>1 DEF FreshRoles
    <2>2. CASE db' = db /\ height' = height
      <3>1. FreshRoles(db')
        BY <2>2 DEF FrameInv
      <3> QED BY <1>1, <2>2, <3>1, FreshNext
    <2> QED BY <2>1, <2>2 DEF StartBlock, PostPersist, Persist, StoreFails, Restart
  <1> QED BY <1>1, <1>2, <1>3 DEF BlockStep

LEMMA FinishStep == ASSUME FrameInv, FinishTx PROVE BlockStep
  <1> DEFINE used == TxGas - left
             nonced == SetNonce(db, tx.from, GetNonce(db, tx.from) + 1)
             primary == AddTokens(nonced, Coinbase, NetFee * tx.price)
             shared == IF tx.gas > left
                       THEN AddTokens(primary, CommitteeAddress(CommitteeAt(<< >>, height + 1)), (tx.gas - left) * tx.price)
                       ELSE primary
             refund == IF Current(db).fund > used \div Cost.refundQuotient
                       THEN used \div Cost.refundQuotient ELSE Current(db).fund
             paid == AddTokens(shared, tx.from, -((used - refund) * tx.price))
  <1>1. IsDB(db) /\ height \in Nat /\ FreshRoles(db)
    BY DEF FrameInv, FramesOn
  <1>2. /\ frames = << >> /\ db' = Commit(paid) /\ phase' = "block" /\ result' = "none"
        /\ UNCHANGED <<height, frames, readOnly>>
    BY DEF FinishTx
  <1>3. Wrote(db, nonced)
    BY <1>1, NonceCodeWrite DEF Prepares
  <1> HIDE DEF nonced
  <1>4. Wrote(nonced, primary)
    BY <1>3, TokensWrite DEF Wrote
  <1> HIDE DEF primary
  <1>5. Wrote(primary, shared)
    BY <1>4, TokensWrite, WroteNothing DEF Wrote
  <1> HIDE DEF shared
  <1>6. Wrote(shared, paid)
    BY <1>5, TokensWrite DEF Wrote
  <1> HIDE DEF paid
  <1>7. Wrote(db, paid)
    BY <1>3, <1>4, <1>5, <1>6, WroteTwice
  <1>8. FreshRoles(paid) /\ IsDB(paid)
    BY <1>1, <1>7, WroteAbove, FreshAbove DEF Wrote
  <1>9. IsDB(db') /\ Len(db') = 1 /\ DOMAIN db'[1].dao = Written(paid)
    BY <1>2, <1>8, CommitMerges
  <1>10. FreshRoles(db')
    <2>1. \A key \in Written(paid) : ~OldRole(key)
      BY <1>8 DEF FreshRoles, Written
    <2>2. \A i \in 1..Len(db') : i = 1
      BY <1>9
    <2> QED BY <1>9, <2>1, <2>2 DEF FreshRoles
  <1>11. FreshRoles(db)'
    BY <1>2, <1>10, FreshNext
  <1> QED BY <1>1, <1>2, <1>9, <1>11 DEF BlockStep

LEMMA NextKinds ==
  ASSUME FrameInv, Next
  PROVE  \/ LocalStep \/ EnterStep \/ LeaveStep \/ FinishTx
         \/ StartBlock \/ PostPersist \/ Persist \/ StoreFails \/ Restart
  <1>1. CASE Sload
    BY <1>1, SloadStep
  <1>2. CASE Log
    BY <1>2, LogStep
  <1>3. CASE Revert \/ Fault
    BY <1>3, EndSteps
  <1>4. CASE \E v \in SlotValues : Sstore(v)
    BY <1>4, SstoreStep
  <1>5. CASE \E kind \in {"call", "callcode", "delegate", "static"}, a \in Targets, v \in Values :
               \E input \in IF a = Native THEN ContractNativeCalls ELSE {[method |-> "initialize"]} :
                 CallOp(kind, a, v, input)
    BY <1>5, CallStep
  <1>6. CASE \E kind \in {"create", "create2"}, v \in Values : CreateOp(kind, v)
    BY <1>6, CreateStep
  <1>7. CASE \E to \in {User, Nobody} : Selfdestruct(to)
    BY <1>7, EndSteps
  <1>8. CASE \E code \in {"empty", "code"} : Return(code)
    BY <1>8, EndSteps
  <1>9. CASE UserTx
    <2>1. PICK to \in Targets \cup {None}, v \in Values, input \in ContractNativeCalls : BeginTx(User, to, v, input)
      BY <1>9 DEF UserTx
    <2> QED BY <2>1, TargetsOrdinary, BeginStep
  <1>10. CASE CommitteeTx
    <2>1. PICK input \in NativeCalls : BeginTx(CommitteeAddress(CommitteeAt(db, height + 1)), Native, 0, input)
      BY <1>10 DEF CommitteeTx
    <2>2. Ordinary(Native)
      BY TargetsOrdinary DEF Targets
    <2> QED BY <2>1, <2>2, BeginStep
  <1> QED BY <1>1, <1>2, <1>3, <1>4, <1>5, <1>6, <1>7, <1>8, <1>9, <1>10 DEF Next

LEMMA StepKinds ==
  ASSUME FrameInv, Next
  PROVE  LocalStep \/ EnterStep \/ LeaveStep \/ BlockStep
  BY NextKinds, FinishStep, BlockSteps

LEMMA InitInv == ASSUME Init PROVE FrameInv
  <1>1. /\ IsDB(db) /\ \A i \in 1..Len(db) : DOMAIN db[i].dao = {}
        /\ frames = << >> /\ readOnly = FALSE /\ height = 1 /\ result = "none"
    BY EmptyFresh DEF Init
  <1>2. Len(frames) = 0 /\ IsSeq(frames)
    <2>1. frames \in Seq({})
      BY <1>1
    <2> QED BY <1>1, <2>1 DEF IsSeq
  <1>3. FramesOn(db, frames)
    BY <1>1, <1>2 DEF FramesOn
  <1>4. StaticOn(db, frames, readOnly)
    <2>1. \A i \in 1..Len(frames) : FALSE
      BY <1>2
    <2>2. readOnly \in BOOLEAN /\ ~readOnly
      BY <1>1
    <2> QED BY <2>1, <2>2, Zenon DEF StaticOn, StaticIn
  <1>5. FreshRoles(db)
    BY <1>1 DEF FreshRoles
  <1> QED BY <1>1, <1>3, <1>4, <1>5 DEF FrameInv

LEMMA FrameStep == ASSUME FrameInv, [Next]_vars PROVE FrameInv'
  <1>1. CASE Next
    BY <1>1, StepKinds, LocalKeeps, EnterKeeps, LeaveKeeps, BlockKeeps
  <1>2. CASE UNCHANGED vars
    <2>1. UNCHANGED <<height, db, frames, readOnly, phase, result>>
      BY <1>2 DEF vars
    <2>2. FreshRoles(db)'
      BY <2>1, FreshNext DEF FrameInv
    <2> QED BY <2>1, <2>2 DEF FrameInv
  <1> QED BY <1>1, <1>2

(* The invariant of the frames, for the theorems below.                    *)
LEMMA FramesHold == Spec => []FrameInv
  <1>1. Init => FrameInv
    BY InitInv
  <1>2. FrameInv /\ [Next]_vars => FrameInv'
    BY FrameStep
  <1> QED BY <1>1, <1>2, PTL DEF Spec

---------------------------------------------------------------------------
(* Nested calls are atomic *)

(* While the disk stays, a view is primed by priming what it looks at.     *)
LEMMA SeenNext ==
  ASSUME disk' = disk
  PROVE  /\ Seen(db, Len(db))' = Seen(db', Len(db'))
         /\ [i \in 1..Len(frames) |-> Seen(db, frames[i].snap + 1)]' = Saved(db', frames')
  <1>1. ASSUME NEW n PROVE Seen(db, n)' = Seen(db', n)
    BY DEF Seen, Items, ItemAt
  <1>2. Seen(db, Len(db))' = Seen(db', Len(db'))
    BY DEF Seen, Items, ItemAt
  <1>3. [i \in 1..Len(frames) |-> Seen(db, frames[i].snap + 1)]' = Saved(db', frames')
    BY DEF Saved, Seen, Items, ItemAt
  <1> QED BY <1>2, <1>3

LEMMA LocalChange == ASSUME FrameInv, LocalStep PROVE Calls!Change
  <1>1. IsDB(db') /\ Len(db') = Len(db) /\ \A i \in 1..(Len(db) - 1) : db'[i] = db[i]
    BY DEF LocalStep, Wrote
  <1>2. Len(db') >= Len(db)
    BY <1>1, DBLength
  <1>3. Saved(db', frames') = Saved(db, frames)
    BY <1>1, <1>2, SavedKept DEF FrameInv, LocalStep
  <1> QED BY <1>3, SeenNext DEF Calls!Change, LocalStep, Ledgers, Saved

LEMMA EnterOpens == ASSUME FrameInv, EnterStep PROVE Calls!Next
  <1>1. PICK o, gs :
          /\ disk' = disk /\ SameFrames(frames, gs) /\ Outcome(db, o) /\ db' = o.db
          /\ o.run => frames' = Append(gs, o.frame) /\ result' = "none" /\ Ordinary(o.frame.self)
          /\ ~o.run => SameFrames(frames, frames') /\ result' = o.res
    BY Zenon DEF EnterStep
  <1>2. FramesOn(db, frames) /\ IsDB(db)
    BY DEF FrameInv, FramesOn
  <1>3. Above(db, db')
    BY <1>1 DEF Outcome
  <1> DEFINE S == [i \in 1..Len(frames) |-> Seen(db, frames[i].snap + 1)]
             c == Seen(db, Len(db))
  <1>4. S' = Saved(db', frames') /\ S = Saved(db, frames) /\ c' = Seen(db', Len(db'))
    BY <1>1, SeenNext DEF Saved
  <1>5. CASE o.run
    <2> DEFINE f == o.frame
    <2>1. Len(db') = Len(db) + 1 /\ Restores(db, db') /\ IsFrame(f) /\ f.snap = Len(db) - 1
      BY <1>1, <1>5 DEF Outcome
    <2>2. frames' = Append(gs, f) /\ Ordinary(f.self) /\ result' = "none"
      BY <1>1, <1>5
    <2> HIDE DEF f
    <2> DEFINE T == Saved(db', Append(gs, f))
    <2>3. /\ Len(T) = Len(Saved(db, frames)) + 1
          /\ SubSeq(T, 1, Len(Saved(db, frames))) = Saved(db, frames)
          /\ T[Len(T)] = Seen(db', Len(db))
      BY <1>1, <1>2, <1>3, <2>1, <2>2, SavedOpens
    <2> HIDE DEF T
    <2>4. S' = T
      BY <1>4, <2>2 DEF T
    <2>5. SamePreparation(c, T[Len(T)])
      BY <2>1, <2>3 DEF Restores
    <2> HIDE DEF S, c
    <2>6. /\ Len(S') = Len(S) + 1 /\ SubSeq(S', 1, Len(S)) = S /\ SamePreparation(c, S'[Len(S')])
      BY <1>4, <2>3, <2>4, <2>5
    <2>7. Calls!Open
      BY <2>2, <2>6 DEF Calls!Open, S, c
    <2> QED BY <2>7 DEF Calls!Next
  <1>6. CASE ~o.run
    <2>1. S' = S
      BY <1>1, <1>2, <1>3, <1>4, <1>6, SavedKept DEF Above
    <2>2. result' = o.res /\ o.res \in {"ok", "err"}
      BY <1>1, <1>6 DEF Outcome
    <2>3. CASE o.res = "ok"
      <3>1. Calls!Direct
        BY <2>1, <2>2, <2>3 DEF Calls!Direct
      <3> QED BY <3>1 DEF Calls!Next
    <2>4. CASE o.res = "err"
      <3>1. Len(db') = Len(db) /\ Restores(db, db')
        BY <1>1, <1>6, <2>4 DEF Outcome
      <3>2. SamePreparation(c, Seen(db', Len(db')))
        BY <3>1 DEF Restores
      <3>3. SamePreparation(c, c')
        <4> HIDE DEF c
        <4> QED BY <1>4, <3>2
      <3>4. Calls!Refuse
        BY <2>1, <2>2, <2>4, <3>3 DEF Calls!Refuse
      <3> QED BY <3>4 DEF Calls!Next
    <2> QED BY <2>2, <2>3, <2>4
  <1> QED BY <1>5, <1>6

LEMMA LeaveCloses == ASSUME FrameInv, LeaveStep PROVE Calls!Succeed \/ Calls!Fail
  <1> DEFINE hs == Callers(frames)
             S == [i \in 1..Len(frames) |-> Seen(db, frames[i].snap + 1)]
             c == Seen(db, Len(db))
             T == Saved(db, frames)
  <1>1. FramesOn(db, frames) /\ frames # << >> /\ disk' = disk
    BY DEF FrameInv, LeaveStep, Ledgers
  <1>2. /\ IsDB(db') /\ Len(db') >= frames[Len(frames)].snap + 1
        /\ \A i \in 1..(frames[Len(frames)].snap + 1) : db'[i] = db[i]
    BY LeaveFacts DEF Top
  <1>3. /\ FramesOn(db', hs) /\ T # << >> /\ Len(T) = Len(frames)
        /\ Saved(db', hs) = SubSeq(T, 1, Len(T) - 1)
        /\ T[Len(T)] = Seen(db, frames[Len(frames)].snap + 1)
    BY <1>1, <1>2, SavedCloses
  <1>4. Saved(db', frames') = Saved(db', hs)
    <2>1. SameFrames(hs, frames')
      BY DEF LeaveStep
    <2>2. Len(db') >= Len(db')
      BY <1>2, DBLength
    <2> HIDE DEF hs
    <2> QED BY <1>2, <1>3, <2>1, <2>2, SavedKept
  <1>5. S' = Saved(db', frames') /\ S = T /\ c' = Seen(db', Len(db'))
    BY <1>1, SeenNext DEF Saved
  <1> HIDE DEF T
  <1>6. S # << >> /\ S' = SubSeq(S, 1, Len(S) - 1) /\ S[Len(S)] = Seen(db, Top.snap + 1)
    <2> HIDE DEF S
    <2> QED BY <1>3, <1>4, <1>5 DEF Top
  <1>7. CASE result' = "ok"
    BY <1>6, <1>7 DEF Calls!Succeed
  <1>8. CASE db' = RevertToSnapshot(db, Top.snap) /\ result' = "err"
    <2> DEFINE m == Top.snap + 1
    <2>1. Top.snap \in Nat /\ Top.snap + 1 <= Len(db) /\ IsDB(db)
      <3>1. Top.snap \in Nat /\ Top.snap + 2 <= Len(db) /\ IsDB(db) /\ Len(db) \in Nat
        BY <1>1, TopOrdinary, DBLength DEF FramesOn
      <3> QED BY <3>1
    <2>2. Len(db') = m /\ \A i \in 1..m : db'[i] = db[i]
      BY <1>8, <2>1, RevertCuts
    <2>3. m \in Nat \ {0}
      BY <2>1
    <2> HIDE DEF m
    <2>4. Seen(db', m) = Seen(db, m)
      BY <2>2, <2>3, SeenSame
    <2>5. c' = S[Len(S)]
      <3> HIDE DEF c, S
      <3> QED BY <1>5, <1>6, <2>2, <2>4 DEF m
    <2> QED BY <1>6, <1>8, <2>5 DEF Calls!Fail
  <1> QED BY <1>7, <1>8 DEF LeaveStep

LEMMA BlockChange == ASSUME FrameInv, BlockStep PROVE Calls!Change
  <1> DEFINE S == [i \in 1..Len(frames) |-> Seen(db, frames[i].snap + 1)]
  <1>1. frames = << >> /\ frames' = << >> /\ result' = "none"
    BY DEF BlockStep
  <1>2. S = << >>
    BY <1>1
  <1>3. S' = << >>
    BY <1>1
  <1> QED BY <1>1, <1>2, <1>3 DEF Calls!Change

(* THEOREM.  Execution implements NestedCalls: a call that fails, whatever *)
(* it has called itself, leaves its caller with the state of the moment of *)
(* the call, and no frame touches what an open call would go back to.      *)
THEOREM CallsAtomic == Spec => FramesAtomic
  <1>1. Init => Calls!Init
    BY DEF Init, Calls!Init
  <1>2. FrameInv /\ [Next]_vars => [Calls!Next]_(Calls!vars)
    <2> SUFFICES ASSUME FrameInv, [Next]_vars PROVE Calls!Next \/ UNCHANGED Calls!vars
      OBVIOUS
    <2>1. CASE Next
      BY <2>1, StepKinds, LocalChange, EnterOpens, LeaveCloses, BlockChange DEF Calls!Next
    <2>2. CASE UNCHANGED vars
      <3>1. UNCHANGED <<disk, db, frames, result>>
        BY <2>2 DEF vars
      <3>2. UNCHANGED Seen(db, Len(db)) /\ UNCHANGED [i \in 1..Len(frames) |-> Seen(db, frames[i].snap + 1)]
        BY <3>1, SeenNext DEF Saved
      <3> QED BY <3>1, <3>2 DEF Calls!vars
    <2> QED BY <2>1, <2>2
  <1> QED BY <1>1, <1>2, FramesHold, PTL DEF Spec, FramesAtomic, Calls!Spec

---------------------------------------------------------------------------
(* Static calls write nothing *)

Silent ==
  /\ Seen(db', Len(db')).items = Seen(db, Len(db)).items
  /\ Current(db').logs = Current(db).logs

LEMMA SilentIs ==
  ASSUME FrameInv, FrameInv', NEW k \in 1..Len(frames), k \in 1..Len(frames'),
         frames[k].kind = "static", frames'[k].kind = "static", frames'[k].snap = frames[k].snap,
         \A i \in 1..(frames[k].snap + 1) : db'[i] = db[i]
  PROVE  Silent
  <1>1. /\ FramesOn(db, frames) /\ StaticOn(db, frames, readOnly)
        /\ FramesOn(db', frames') /\ StaticOn(db', frames', readOnly')
    BY DEF FrameInv
  <1>2. Items(db', Len(db')) = Items(db, Len(db)) /\ Current(db').logs = Current(db).logs
    BY <1>1, StaticSilent
  <1>3. \A d, n : Seen(d, n).items = Items(d, n)
    BY DEF Seen
  <1> QED BY <1>2, <1>3 DEF Silent

(* A step that keeps the frames, and adds one at most.                     *)
LEMMA SilentAbove ==
  ASSUME FrameInv, FrameInv', StaticIn(frames), Len(frames') >= Len(frames),
         \A i \in 1..Len(frames) : SameFrame(frames[i], frames'[i]),
         \A i \in 1..(Len(db) - 1) : db'[i] = db[i]
  PROVE  Silent
  <1>1. FramesOn(db, frames) /\ FramesOn(db', frames')
    BY DEF FrameInv
  <1>2. Len(frames) \in Nat /\ Len(frames') \in Nat /\ Len(db) \in Nat
    BY <1>1, FramesLength
  <1>3. PICK k \in 1..Len(frames) : frames[k].kind = "static"
    BY DEF StaticIn
  <1>4. k \in 1..Len(frames') /\ frames'[k].kind = "static" /\ frames'[k].snap = frames[k].snap
    BY <1>2, <1>3 DEF SameFrame
  <1>5. frames[k].snap \in Nat /\ frames[k].snap + 2 <= Len(db)
    BY <1>1 DEF FramesOn
  <1>6. \A i \in 1..(frames[k].snap + 1) : db'[i] = db[i]
    BY <1>2, <1>5
  <1> QED BY <1>3, <1>4, <1>6, SilentIs

LEMMA EnterSilent ==
  ASSUME FrameInv, FrameInv', EnterStep, StaticIn(frames)
  PROVE  Silent
  <1>1. PICK o, gs :
          /\ SameFrames(frames, gs) /\ Outcome(db, o) /\ db' = o.db
          /\ o.run => frames' = Append(gs, o.frame)
          /\ ~o.run => SameFrames(frames, frames')
    BY Zenon DEF EnterStep
  <1>2. \A i \in 1..(Len(db) - 1) : db'[i] = db[i]
    BY <1>1 DEF Outcome, Above
  <1>3. Len(frames) \in Nat
    BY FramesLength DEF FrameInv
  <1>4. CASE o.run
    <2>1. PICK U : gs \in Seq(U)
      BY <1>1 DEF SameFrames, IsSeq
    <2>2. Len(gs) = Len(frames) /\ frames' = Append(gs, o.frame)
      BY <1>1, <1>4 DEF SameFrames
    <2> DEFINE f == o.frame
    <2> HIDE DEF f
    <2>3. gs \in Seq(U \cup {f})
      BY <2>1
    <2>4. Len(Append(gs, f)) = Len(gs) + 1 /\ \A i \in 1..Len(gs) : Append(gs, f)[i] = gs[i]
      BY <2>3
    <2>5. Len(frames') >= Len(frames) /\ \A i \in 1..Len(frames) : frames'[i] = gs[i]
      BY <1>3, <2>2, <2>4 DEF f
    <2>6. \A i \in 1..Len(frames) : SameFrame(frames[i], frames'[i])
      BY <1>1, <2>5 DEF SameFrames
    <2> QED BY <1>2, <2>5, <2>6, SilentAbove
  <1>5. CASE ~o.run
    <2>1. Len(frames') >= Len(frames) /\ \A i \in 1..Len(frames) : SameFrame(frames[i], frames'[i])
      BY <1>1, <1>3, <1>5 DEF SameFrames
    <2> QED BY <1>2, <2>1, SilentAbove
  <1> QED BY <1>4, <1>5

LEMMA LeaveSilent ==
  ASSUME FrameInv, FrameInv', LeaveStep, StaticIn(frames')
  PROVE  Silent
  <1> DEFINE n == Len(frames)
  <1>1. FramesOn(db, frames) /\ FramesOn(db', frames') /\ frames # << >>
    BY DEF FrameInv, LeaveStep
  <1>2. n \in Nat /\ n >= 1
    BY <1>1, FramesLength
  <1>3. Len(frames') = n - 1 /\ \A i \in 1..(n - 1) : SameFrame(frames[i], frames'[i])
    BY <1>1, <1>2, CallersOn DEF LeaveStep, SameFrames
  <1>4. PICK k \in 1..(n - 1) : frames'[k].kind = "static"
    BY <1>3 DEF StaticIn
  <1>5. k \in 1..n /\ n \in 1..n /\ k < n /\ k \in 1..Len(frames')
    BY <1>2, <1>3
  <1>6. frames[k].kind = "static" /\ frames'[k].snap = frames[k].snap
    BY <1>3, <1>4 DEF SameFrame
  <1>7. frames[k].snap \in Nat /\ Top.snap \in Nat /\ frames[k].snap < Top.snap
    BY <1>1, <1>5 DEF FramesOn, Top
  <1>8. \A i \in 1..(Top.snap + 1) : db'[i] = db[i]
    BY LeaveFacts
  <1>9. \A i \in 1..(frames[k].snap + 1) : db'[i] = db[i]
    BY <1>7, <1>8
  <1> QED BY <1>4, <1>5, <1>6, <1>9, SilentIs

(* THEOREM.  While a static call is open nothing that is stored changes,   *)
(* by nested calls of any kind, creations, natives or reverts.             *)
THEOREM StaticCallsWriteNothing == Spec => StaticWritesNothing
  <1>1. FrameInv /\ FrameInv' /\ [Next]_vars =>
          [StaticOpen /\ StaticOpen' => /\ Seen(db', Len(db')).items = Seen(db, Len(db)).items
                                        /\ Current(db').logs = Current(db).logs]_vars
    <2> SUFFICES ASSUME FrameInv, FrameInv', Next, StaticOpen, StaticOpen' PROVE Silent
      BY DEF Silent
    <2>1. StaticIn(frames) /\ StaticIn(frames')
      BY DEF StaticIn, StaticOpen
    <2>2. CASE LocalStep
      <3>1. Len(frames) \in Nat
        BY FramesLength DEF FrameInv
      <3>2. Len(frames') >= Len(frames) /\ \A i \in 1..Len(frames) : SameFrame(frames[i], frames'[i])
        BY <2>2, <3>1 DEF LocalStep, SameFrames
      <3> QED BY <2>1, <2>2, <3>2, SilentAbove DEF LocalStep, Wrote
    <2>3. CASE EnterStep
      BY <2>1, <2>3, EnterSilent
    <2>4. CASE LeaveStep
      BY <2>1, <2>4, LeaveSilent
    <2>5. CASE BlockStep
      <3>1. Len(frames) = 0
        BY <2>5, FramesLength DEF BlockStep, FrameInv
      <3> QED BY <2>1, <3>1 DEF StaticIn
    <2> QED BY <2>2, <2>3, <2>4, <2>5, StepKinds
  <1> QED BY <1>1, FramesHold, PTL DEF Spec, StaticWritesNothing

---------------------------------------------------------------------------
(* The caches agree with the store *)

RoleKey(role, i) == <<"role", role, i>>
Entries(d, role) == [i \in Nat |-> Item(d, RoleKey(role, i))]

(* The last entry of f up to index.                                        *)
Known(f, index) == {i \in 0..index : f[i] # None}
Last(f, index) ==
  IF Known(f, index) = {} THEN [nodes |-> {}, height |-> 0]
  ELSE [nodes |-> f[Max(Known(f, index))], height |-> Max(Known(f, index))]

LEMMA DesignatedLast ==
  ASSUME NEW d, NEW role, NEW index \in Nat
  PROVE  DesignatedFromStorage(d, role, index) = Last(Entries(d, role), index)
  <1> DEFINE f == Entries(d, role)
  <1>1. \A i \in 0..index : f[i] = Item(d, <<"role", role, i>>)
    BY DEF Entries, RoleKey
  <1> HIDE DEF f
  <1>2. {i \in 0..index : Item(d, <<"role", role, i>>) # None} = Known(f, index)
    BY <1>1 DEF Known
  <1>3. CASE Known(f, index) = {}
    BY <1>2, <1>3 DEF DesignatedFromStorage, Last, f
  <1>4. CASE Known(f, index) # {}
    <2>1. Max(Known(f, index)) \in 0..index
      BY <1>4, MaxIs DEF Known
    <2>2. DesignatedFromStorage(d, role, index)
            = [nodes |-> Item(d, <<"role", role, Max(Known(f, index))>>), height |-> Max(Known(f, index))]
      BY <1>2, <1>4 DEF DesignatedFromStorage
    <2>3. Last(f, index) = [nodes |-> f[Max(Known(f, index))], height |-> Max(Known(f, index))]
      BY <1>4 DEF Last
    <2> QED BY <1>1, <2>1, <2>2, <2>3 DEF f
  <1> QED BY <1>3, <1>4

(* An answer that counts already is the answer for now.                    *)
LEMMA LastNow ==
  ASSUME NEW f, NEW g, NEW lo \in Nat, NEW hi \in Nat, lo <= hi, \A i \in 0..lo : f[i] = g[i],
         Last(f, hi).height <= lo
  PROVE  Last(f, hi) = Last(g, lo)
  <1> DEFINE K == Known(f, hi)
             L == Known(g, lo)
  <1>1. L \subseteq K /\ L \subseteq 0..lo /\ K \subseteq 0..hi
    BY DEF Known
  <1>2. CASE K = {}
    <2>1. L = {}
      BY <1>1, <1>2
    <2> QED BY <1>2, <2>1 DEF Last
  <1>3. CASE K # {}
    <2>1. Last(f, hi) = [nodes |-> f[Max(K)], height |-> Max(K)]
      BY <1>3 DEF Last
    <2>2. Max(K) \in K /\ \A k \in K : k <= Max(K)
      BY <1>1, <1>3, MaxIs
    <2> HIDE DEF K
    <2>3. Last(f, hi).height = Max(K)
      BY <2>1
    <2>4. Max(K) \in 0..lo
      <3>1. Max(K) \in 0..hi
        BY <1>1, <2>2
      <3>2. Max(K) <= lo
        BY <2>3
      <3> QED BY <3>1, <3>2
    <2>5. Max(K) \in L
      BY <2>2, <2>4 DEF Known, K
    <2>6. Max(L) \in L /\ \A k \in L : k <= Max(L)
      BY <1>1, <2>5, MaxIs
    <2> HIDE DEF L
    <2>7. Max(L) = Max(K)
      <3>1. Max(L) <= Max(K) /\ Max(K) <= Max(L)
        BY <1>1, <2>2, <2>5, <2>6
      <3>2. Max(L) \in 0..lo
        BY <1>1, <2>6
      <3> QED BY <2>4, <3>1, <3>2
    <2>8. Last(g, lo) = [nodes |-> g[Max(L)], height |-> Max(L)]
      BY <2>5 DEF Last, L
    <2> QED BY <2>1, <2>4, <2>7, <2>8
  <1> QED BY <1>2, <1>3

LEMMA OnDisk == ASSUME NEW key PROVE Item(<< >>, key) = IF key \in DOMAIN disk THEN disk[key] ELSE None
  <1>1. Writers(<< >>, 0, key) = {}
    BY DEF Writers
  <1>2. Item(<< >>, key) = ItemAt(<< >>, 0, key)
    BY DEF Item
  <1> QED BY <1>1, <1>2, ItemOnDisk

(* Designations of the block that is executed do not count yet.            *)
LEMMA EntriesNow ==
  ASSUME FrameInv, NEW role \in Roles, NEW i \in 0..(height + 1)
  PROVE  Entries(db, role)[i] = Entries(<< >>, role)[i]
  <1> DEFINE key == RoleKey(role, i)
             n == Len(db)
  <1>1. i \in Nat /\ n \in Nat
    BY DBLength DEF FrameInv, FramesOn
  <1>2. OldRole(key)
    BY DEF OldRole, RoleKey
  <1> HIDE DEF key
  <1>3. Writers(db, n, key) = {}
    BY <1>2 DEF FrameInv, FreshRoles, Writers
  <1>4. Item(db, key) = Item(<< >>, key)
    <2>1. Item(db, key) = IF key \in DOMAIN disk THEN disk[key] ELSE None
      BY <1>1, <1>3, ItemOnDisk DEF Item
    <2> QED BY <2>1, OnDisk
  <1> QED BY <1>1, <1>4 DEF Entries, key

LEMMA CacheOf ==
  ASSUME NEW d, NEW role \in Roles
  PROVE  UpdateCache(d)[role] = DesignatedFromStorage(d, role, LastIndex)
  <1>1. role # "price"
    BY DEF Roles
  <1>2. UpdateRoles(d)[role] = DesignatedFromStorage(d, role, LastIndex) /\ role \in DOMAIN UpdateRoles(d)
    BY DEF UpdateRoles
  <1> QED BY <1>1, <1>2 DEF UpdateCache, With

(* A cache says who is next, or is ahead; after PostPersist it is that of  *)
(* the block that may or may not be stored.                                *)
CacheInv ==
  \A role \in Roles :
    /\ cache[role].height <= height + 1 => cache[role] = DesignatedFromStorage(<< >>, role, height + 1)
    /\ phase = "post" => cache[role] = DesignatedFromStorage(db, role, LastIndex)

(* A cache that was read from d is right when d has the store's entries.   *)
LEMMA CacheRight ==
  ASSUME height \in Nat, NEW role \in Roles, NEW d,
         \A i \in 0..(height + 1) : Entries(d, role)[i] = Entries(<< >>, role)[i],
         NEW c, c = DesignatedFromStorage(d, role, LastIndex), c.height <= height + 1
  PROVE  c = DesignatedFromStorage(<< >>, role, height + 1)
  <1> DEFINE f == Entries(d, role)
             g == Entries(<< >>, role)
             lo == height + 1
             hi == LastIndex
  <1>1. lo \in Nat /\ hi \in Nat /\ lo <= hi
    BY DEF LastIndex
  <1>2. DesignatedFromStorage(d, role, hi) = Last(f, hi) /\ DesignatedFromStorage(<< >>, role, lo) = Last(g, lo)
    <2> HIDE DEF lo, hi
    <2> QED BY <1>1, DesignatedLast
  <1> HIDE DEF f, g, lo, hi
  <1>3. Last(f, hi).height <= lo /\ \A i \in 0..lo : f[i] = g[i]
    BY <1>2 DEF lo, hi, f, g
  <1>4. Last(f, hi) = Last(g, lo)
    BY <1>1, <1>3, LastNow
  <1> QED BY <1>2, <1>4 DEF lo, hi

LEMMA InitCache == ASSUME Init PROVE CacheInv
  <1>1. height \in Nat /\ phase = "idle" /\ cache = UpdateCache(<< >>)
    BY DEF Init
  <1>2. ASSUME NEW role \in Roles, cache[role].height <= height + 1
        PROVE  cache[role] = DesignatedFromStorage(<< >>, role, height + 1)
    BY <1>1, <1>2, CacheOf, CacheRight
  <1> QED BY <1>1, <1>2 DEF CacheInv

(* What is read from the disk changes with the disk only.                  *)
LEMMA DiskNext ==
  ASSUME disk' = disk, height' = height
  PROVE  \A role : DesignatedFromStorage(<< >>, role, height + 1)' = DesignatedFromStorage(<< >>, role, height + 1)
  BY DEF DesignatedFromStorage, Item, ItemAt

LEMMA CacheKept ==
  ASSUME CacheInv, UNCHANGED <<disk, height, cache>>, phase' # "post" \/ UNCHANGED <<phase, db>>
  PROVE  CacheInv'
  <1>1. ASSUME NEW role \in Roles, cache'[role].height <= height' + 1
        PROVE  cache'[role] = DesignatedFromStorage(<< >>, role, height + 1)'
    BY <1>1, DiskNext DEF CacheInv
  <1>2. ASSUME NEW role \in Roles, phase' = "post"
        PROVE  cache'[role] = DesignatedFromStorage(db, role, LastIndex)'
    <2>1. UNCHANGED <<phase, db>>
      BY <1>2
    <2>2. DesignatedFromStorage(db, role, LastIndex)' = DesignatedFromStorage(db, role, LastIndex)
      BY <2>1 DEF DesignatedFromStorage, Item, ItemAt, LastIndex
    <2> QED BY <1>2, <2>1, <2>2 DEF CacheInv
  <1> QED BY <1>1, <1>2 DEF CacheInv

LEMMA PostPersistCache == ASSUME FrameInv, CacheInv, PostPersist PROVE CacheInv'
  <1>1. /\ height \in Nat /\ UNCHANGED <<disk, height, db>> /\ cache' = UpdateCache(db)
    BY DEF FrameInv, PostPersist
  <1>2. ASSUME NEW role \in Roles PROVE cache'[role] = DesignatedFromStorage(db, role, LastIndex)
    BY <1>1, CacheOf
  <1>3. ASSUME NEW role \in Roles, cache'[role].height <= height' + 1
        PROVE  cache'[role] = DesignatedFromStorage(<< >>, role, height + 1)'
    <2>1. cache'[role] = DesignatedFromStorage(<< >>, role, height + 1)
      BY <1>1, <1>2, <1>3, EntriesNow, CacheRight
    <2> QED BY <1>1, <2>1, DiskNext
  <1>4. \A role : DesignatedFromStorage(db, role, LastIndex)' = DesignatedFromStorage(db, role, LastIndex)
    BY <1>1 DEF DesignatedFromStorage, Item, ItemAt, LastIndex
  <1> QED BY <1>2, <1>3, <1>4 DEF CacheInv

LEMMA RestartCache == ASSUME FrameInv, Restart PROVE CacheInv'
  <1>1. /\ height \in Nat /\ UNCHANGED <<disk, height, phase>> /\ cache' = UpdateCache(<< >>) /\ phase = "idle"
    BY DEF FrameInv, Restart
  <1>2. ASSUME NEW role \in Roles, cache'[role].height <= height' + 1
        PROVE  cache'[role] = DesignatedFromStorage(<< >>, role, height + 1)'
    <2>1. cache'[role] = DesignatedFromStorage(<< >>, role, LastIndex)
      BY <1>1, CacheOf
    <2>2. cache'[role] = DesignatedFromStorage(<< >>, role, height + 1)
      BY <1>1, <1>2, <2>1, CacheRight
    <2> QED BY <1>1, <2>2, DiskNext
  <1> QED BY <1>1, <1>2 DEF CacheInv

(* The entries that the disk has, or would have with these items.          *)
DiskEntries(items, role) ==
  [i \in Nat |-> IF RoleKey(role, i) \in DOMAIN items THEN items[RoleKey(role, i)] ELSE None]

LEMMA DiskLast ==
  height \in Nat => \A role : DesignatedFromStorage(<< >>, role, height + 1) = Last(DiskEntries(disk, role), height + 1)
  <1> SUFFICES ASSUME height \in Nat, NEW role
               PROVE  DesignatedFromStorage(<< >>, role, height + 1) = Last(DiskEntries(disk, role), height + 1)
    OBVIOUS
  <1>1. DiskEntries(disk, role) = Entries(<< >>, role)
    BY OnDisk DEF DiskEntries, Entries
  <1> QED BY <1>1, DesignatedLast

LEMMA PersistCache == ASSUME FrameInv, CacheInv, Persist PROVE CacheInv'
  <1>1. /\ height \in Nat /\ height' = height + 1 /\ cache' = cache /\ phase = "post" /\ phase' = "idle"
        /\ disk' = Merged(db) /\ Len(db) \in Nat
    BY DBLength DEF FrameInv, FramesOn, Persist
  <1>2. height' \in Nat => \A role :
          DesignatedFromStorage(<< >>, role, height + 1)' = Last(DiskEntries(disk', role), height' + 1)
    <2>1. (height \in Nat => \A role : DesignatedFromStorage(<< >>, role, height + 1) = Last(DiskEntries(disk, role), height + 1))'
      BY DiskLast, PTL
    <2> QED BY <2>1
  <1>3. ASSUME NEW role \in Roles, cache'[role].height <= height' + 1
        PROVE  cache'[role] = DesignatedFromStorage(<< >>, role, height + 1)'
    <2> DEFINE f == Entries(db, role)
               g == DiskEntries(disk', role)
               lo == height' + 1
               hi == LastIndex
    <2>1. lo \in Nat /\ hi \in Nat /\ lo <= hi
      BY <1>1 DEF LastIndex
    <2>2. cache[role] = DesignatedFromStorage(db, role, hi)
      BY <1>1 DEF CacheInv
    <2>3. DesignatedFromStorage(db, role, hi) = Last(f, hi)
      <3> HIDE DEF hi
      <3> QED BY <2>1, DesignatedLast
    <2>4. ASSUME NEW i \in Nat PROVE f[i] = g[i]
      <3> DEFINE key == RoleKey(role, i)
                 x == Items(db, Len(db))
      <3>1. f[i] = ItemAt(db, Len(db), key)
        BY DEF Entries, Item
      <3>2. g[i] = IF key \in DOMAIN x THEN x[key] ELSE None
        BY <1>1 DEF DiskEntries, Merged
      <3> HIDE DEF key
      <3>3. /\ key \in DOMAIN x <=> ItemAt(db, Len(db), key) # None
            /\ key \in DOMAIN x => x[key] = ItemAt(db, Len(db), key)
        BY <1>1, ItemsHold
      <3> HIDE DEF f, g, x
      <3> QED BY <3>1, <3>2, <3>3
    <2>5. DesignatedFromStorage(<< >>, role, height + 1)' = Last(g, lo)
      BY <1>1, <1>2
    <2> HIDE DEF f, g, lo, hi
    <2>6. Last(f, hi).height <= lo
      BY <1>1, <1>3, <2>2, <2>3 DEF lo
    <2>7. \A i \in 0..lo : f[i] = g[i]
      BY <2>1, <2>4
    <2>8. Last(f, hi) = Last(g, lo)
      BY <2>1, <2>6, <2>7, LastNow
    <2> QED BY <1>1, <2>2, <2>3, <2>5, <2>8
  <1> QED BY <1>1, <1>3 DEF CacheInv

LEMMA CacheStep == ASSUME FrameInv, CacheInv, [Next]_vars PROVE CacheInv'
  <1>1. CASE LocalStep \/ EnterStep \/ LeaveStep
    <2>1. UNCHANGED <<disk, height, cache>> /\ phase' = "exec"
      BY <1>1 DEF LocalStep, EnterStep, LeaveStep, Ledgers
    <2> QED BY <2>1, CacheKept
  <1>2. CASE PostPersist
    BY <1>2, PostPersistCache
  <1>3. CASE Persist
    BY <1>3, PersistCache
  <1>4. CASE Restart
    BY <1>4, RestartCache
  <1>5. CASE StartBlock \/ FinishTx \/ StoreFails
    <2>1. UNCHANGED <<disk, height, cache>> /\ phase' # "post"
      BY <1>5 DEF StartBlock, FinishTx, StoreFails
    <2> QED BY <2>1, CacheKept
  <1>6. CASE UNCHANGED vars
    BY <1>6, CacheKept DEF vars
  <1> QED BY <1>1, <1>2, <1>3, <1>4, <1>5, <1>6, NextKinds

(* THEOREM.  The caches' answer to who validates the next block is that of *)
(* the store, at every moment, after a failed block too.                   *)
THEOREM CachesAgree == Spec => []CommitteeAgrees
  <1>1. Init => CacheInv
    BY InitCache
  <1>2. FrameInv /\ CacheInv /\ [Next]_vars => CacheInv'
    BY CacheStep
  <1>3. CacheInv => CommitteeAgrees
    BY DEF CacheInv, CommitteeAgrees, Designated
  <1> QED BY <1>1, <1>2, <1>3, FramesHold, PTL DEF Spec

---------------------------------------------------------------------------
(* Sums over finite sets: what they do when one of the summands changes.   *)
(* The items of a layer are Balanced if their supply is the sum of their   *)
(* balances; every operation of the state database and of the native       *)
(* contracts keeps what is seen through each layer balanced and typed, so  *)
(* that it is balanced in nested calls, after reverts and between blocks.  *)

(* A set of naturals that is not empty has a least element.                *)
LEMMA LeastIs ==
  ASSUME NEW B, B \subseteq Nat, B # {}
  PROVE  \E m \in B : \A k \in B : m <= k
  <1>1. PICK m \in B : \A k \in B : ~(<<k, m>> \in OpToRel(<, Nat))
    BY NatLessThanWellFounded, WFMin
  <1>2. ASSUME NEW k \in B PROVE m <= k
    <2>1. <<k, m>> \in Nat \X Nat
      OBVIOUS
    <2>2. k < m => <<k, m>> \in OpToRel(<, Nat)
      BY <2>1, Zenon DEF OpToRel
    <2>3. ~(k < m)
      BY <1>1, <2>2
    <2> QED BY <2>3
  <1> QED BY <1>2

(* Among some subsets of a finite set there is a smallest.                 *)
LEMMA SmallestIs ==
  ASSUME NEW S, IsFiniteSet(S), NEW Bad, Bad \subseteq SUBSET S, Bad # {}
  PROVE  \E s \in Bad : \A t \in Bad : Cardinality(s) <= Cardinality(t)
  <1> DEFINE B == {Cardinality(s) : s \in Bad}
  <1>1. \A s \in Bad : Cardinality(s) \in Nat
    BY FS_Subset, FS_CardinalityType
  <1>2. B \subseteq Nat /\ B # {}
    BY <1>1
  <1>3. PICK m \in B : \A k \in B : m <= k
    <2> HIDE DEF B
    <2> QED BY <1>2, LeastIs
  <1>4. PICK s \in Bad : m = Cardinality(s)
    OBVIOUS
  <1> QED BY <1>3, <1>4

LEMMA SmallerIs ==
  ASSUME NEW S, IsFiniteSet(S), NEW x \in S
  PROVE  /\ IsFiniteSet(S \ {x}) /\ Cardinality(S) \in Nat /\ Cardinality(S \ {x}) \in Nat
         /\ Cardinality(S \ {x}) + 1 = Cardinality(S)
  BY FS_RemoveElement, FS_CardinalityType

(* What MapThenSumSet is: the value at S of a function on the subsets.     *)
Pick(s) == CHOOSE x \in s : TRUE
Rule(g, f, s) == IF s = {} THEN 0 ELSE f[Pick(s)] + g[s \ {Pick(s)}]
IsSummer(g, f, S) == g = [s \in SUBSET S |-> Rule(g, f, s)]
Sums(g, f, S) == \A s \in SUBSET S : g[s] = Rule(g, f, s)
Sum(f, S) == (CHOOSE g : IsSummer(g, f, S))[S]

LEMMA SupplySum ==
  SupplyIsSum <=> 
    LET seen == Seen(db, Len(db)).items
    IN seen[<<"supply">>] = Sum(seen, {key \in DOMAIN seen : key[1] = "bal"})
  BY DEF SupplyIsSum, MapThenSumSet, MapThenFoldSet, Sum, IsSummer, Rule, Pick

LEMMA SummerIs ==
  ASSUME NEW f, NEW S, IsFiniteSet(S)
  PROVE  \E g : IsSummer(g, f, S)
  <1> DEFINE Part(n) == {s \in SUBSET S : Cardinality(s) <= n}
             Upto(n, h) == h = [s \in SUBSET S |-> h[s]] /\ \A s \in Part(n) : h[s] = Rule(h, f, s)
             Bad == {n \in Nat : ~\E h : Upto(n, h)}
  <1>1. \A s \in SUBSET S : IsFiniteSet(s) /\ Cardinality(s) \in Nat
    BY FS_Subset, FS_CardinalityType
  <1>2. \A s \in SUBSET S : s # {} => Pick(s) \in s
    BY DEF Pick
  <1>3. Bad = {}
    <2> SUFFICES ASSUME Bad # {} PROVE FALSE
      OBVIOUS
    <2>1. PICK n \in Bad : \A k \in Bad : n <= k
      <3>1. Bad \subseteq Nat
        OBVIOUS
      <3> HIDE DEF Bad
      <3> QED BY <3>1, LeastIs
    <2>2. CASE n = 0
      <3> DEFINE z == [s \in SUBSET S |-> 0]
      <3>1. \A s \in Part(0) : s = {}
        BY <1>1, FS_EmptySet
      <3>2. Upto(0, z)
        BY <3>1 DEF Rule
      <3> QED BY <2>1, <2>2, <3>2
    <2>3. CASE n # 0
      <3>1. n - 1 \in Nat /\ n - 1 \notin Bad
        <4>1. n \in Nat /\ n - 1 \in Nat /\ ~(n <= n - 1)
          BY <2>3
        <4> QED BY <2>1, <4>1
      <3>2. PICK h : Upto(n - 1, h)
        BY <3>1
      <3> DEFINE e == [s \in SUBSET S |-> Rule(h, f, s)]
      <3>3. \A s \in SUBSET S : e[s] = Rule(h, f, s)
        OBVIOUS
      <3>4. ASSUME NEW s \in Part(n) PROVE e[s] = Rule(e, f, s)
        <4>1. CASE s = {}
          BY <4>1 DEF Rule
        <4>2. CASE s # {}
          <5> DEFINE t == s \ {Pick(s)}
          <5>1. t \in SUBSET S /\ Cardinality(t) <= n - 1
            BY <1>1, <1>2, <4>2, SmallerIs
          <5>2. h[t] = Rule(h, f, t)
            BY <3>2, <5>1
          <5>3. e[t] = h[t]
            BY <3>3, <5>1, <5>2
          <5>4. e[s] = f[Pick(s)] + h[t]
            BY <4>2 DEF Rule
          <5>5. Rule(e, f, s) = f[Pick(s)] + e[t]
            BY <4>2 DEF Rule
          <5> QED BY <5>3, <5>4, <5>5
        <4> QED BY <4>1, <4>2
      <3>5. Upto(n, e)
        BY <3>4
      <3> HIDE DEF e, Upto
      <3> QED BY <3>5
    <2> QED BY <2>2, <2>3
  <1>4. Cardinality(S) \in Nat
    BY FS_CardinalityType
  <1>5. PICK h : Upto(Cardinality(S), h)
    BY <1>3, <1>4
  <1>6. \A s \in SUBSET S : s \in Part(Cardinality(S))
    BY FS_Subset
  <1>7. IsSummer(h, f, S)
    BY <1>5, <1>6 DEF IsSummer
  <1> QED BY <1>7

(* The function that Sum chooses, at every subset.                         *)
LEMMA SumRule ==
  ASSUME NEW f, NEW S, IsFiniteSet(S)
  PROVE  \E g : /\ Sum(f, S) = g[S]
                /\ Sums(g, f, S)
  <1>1. PICK g : g = CHOOSE h : IsSummer(h, f, S)
    OBVIOUS
  <1>2. IsSummer(g, f, S)
    BY <1>1, SummerIs
  <1>3. Sums(g, f, S)
    BY <1>2 DEF IsSummer, Sums
  <1> QED BY <1>1, <1>3 DEF Sum

(* Two such functions agree where the functions they sum up do.            *)
LEMMA SummersAgree ==
  ASSUME NEW f, NEW e, NEW S, IsFiniteSet(S), \A x \in S : f[x] = e[x],
         NEW g, Sums(g, f, S),
         NEW h, Sums(h, e, S)
  PROVE  g[S] = h[S]
  <1> DEFINE Bad == {s \in SUBSET S : g[s] # h[s]}
  <1> SUFFICES ASSUME Bad # {} PROVE FALSE
    OBVIOUS
  <1>1. PICK s \in Bad : \A t \in Bad : Cardinality(s) <= Cardinality(t)
    <2>1. Bad \subseteq SUBSET S
      OBVIOUS
    <2> HIDE DEF Bad
    <2> QED BY <2>1, SmallestIs
  <1>2. CASE s = {}
    BY <1>2 DEF Rule, Sums
  <1>3. CASE s # {}
    <2> DEFINE x == Pick(s)
    <2>1. x \in s
      BY <1>3 DEF Pick
    <2>2. IsFiniteSet(s)
      BY FS_Subset
    <2>3. s \ {x} \in SUBSET S /\ ~(Cardinality(s) <= Cardinality(s \ {x}))
      BY <2>1, <2>2, SmallerIs
    <2>4. g[s \ {x}] = h[s \ {x}]
      BY <1>1, <2>3
    <2>5. g[s] = f[x] + g[s \ {x}] /\ h[s] = e[x] + h[s \ {x}]
      BY <1>3 DEF Rule, Sums
    <2> QED BY <2>1, <2>4, <2>5
  <1> QED BY <1>2, <1>3

LEMMA SumSame ==
  ASSUME NEW f, NEW e, NEW S, IsFiniteSet(S), \A x \in S : f[x] = e[x]
  PROVE  Sum(f, S) = Sum(e, S)
  <1>1. PICK g : Sum(f, S) = g[S] /\ Sums(g, f, S)
    BY SumRule
  <1>2. PICK h : Sum(e, S) = h[S] /\ Sums(h, e, S)
    BY SumRule
  <1> QED BY <1>1, <1>2, SummersAgree

LEMMA SumSub ==
  ASSUME NEW f, NEW S, IsFiniteSet(S), NEW g, Sums(g, f, S), NEW T \in SUBSET S
  PROVE  Sum(f, T) = g[T]
  <1>1. IsFiniteSet(T)
    BY FS_Subset
  <1>2. PICK h : Sum(f, T) = h[T] /\ Sums(h, f, T)
    BY <1>1, SumRule
  <1>3. Sums(g, f, T)
    BY DEF Sums
  <1> QED BY <1>1, <1>2, <1>3, SummersAgree

LEMMA SumNone == ASSUME NEW f PROVE Sum(f, {}) = 0
  <1>1. PICK g : Sum(f, {}) = g[{}] /\ Sums(g, f, {})
    BY FS_EmptySet, SumRule
  <1> QED BY <1>1 DEF Rule, Sums

(* One summand, whichever, taken out of the sum.                           *)
LEMMA SumOut ==
  ASSUME NEW f, NEW S, IsFiniteSet(S), \A x \in S : f[x] \in Int
  PROVE  Sum(f, S) \in Int /\ \A x \in S : Sum(f, S) = f[x] + Sum(f, S \ {x})
  <1>1. PICK g : Sum(f, S) = g[S] /\ Sums(g, f, S)
    BY SumRule
  <1> DEFINE Fit(s) == g[s] \in Int /\ \A x \in s : g[s] = f[x] + g[s \ {x}]
             Bad == {s \in SUBSET S : ~Fit(s)}
  <1>2. Bad = {}
    <2> SUFFICES ASSUME Bad # {} PROVE FALSE
      OBVIOUS
    <2>1. PICK s \in Bad : \A t \in Bad : Cardinality(s) <= Cardinality(t)
      <3>1. Bad \subseteq SUBSET S
        OBVIOUS
      <3> HIDE DEF Bad
      <3> QED BY <3>1, SmallestIs
    <2>2. CASE s = {}
      <3>1. s \in SUBSET S /\ ~Fit(s)
        OBVIOUS
      <3>2. g[s] = 0
        BY <1>1, <2>2, <3>1 DEF Rule, Sums
      <3> QED BY <2>2, <3>1, <3>2
    <2>3. CASE s # {}
      <3> DEFINE y == Pick(s)
      <3>1. y \in s /\ IsFiniteSet(s) /\ s \subseteq S
        BY <2>3, FS_Subset DEF Pick
      <3>2. ASSUME NEW x \in s PROVE s \ {x} \in SUBSET S /\ Fit(s \ {x})
        <4>1. s \ {x} \in SUBSET S /\ ~(Cardinality(s) <= Cardinality(s \ {x}))
          BY <3>1, SmallerIs
        <4> QED BY <2>1, <4>1
      <3>3. g[s] = f[y] + g[s \ {y}]
        BY <1>1, <2>3 DEF Rule, Sums
      <3> HIDE DEF y
      <3>4. g[s] \in Int
        <4>1. g[s \ {y}] \in Int /\ f[y] \in Int
          BY <3>1, <3>2
        <4> QED BY <3>3, <4>1
      <3>5. ASSUME NEW x \in s PROVE g[s] = f[x] + g[s \ {x}]
        <4>1. CASE x = y
          BY <3>3, <4>1
        <4>2. CASE x # y
          <5>1. x \in s \ {y} /\ y \in s \ {x} /\ (s \ {y}) \ {x} = (s \ {x}) \ {y}
            BY <3>1, <4>2
          <5>2. g[s \ {y}] = f[x] + g[(s \ {y}) \ {x}]
            BY <3>1, <3>2, <5>1
          <5>3. g[s \ {x}] = f[y] + g[(s \ {x}) \ {y}]
            BY <3>2, <5>1
          <5>4. f[x] \in Int /\ f[y] \in Int
            BY <3>1
          <5>5. (s \ {x}) \ {y} \in SUBSET S
            BY <3>1
          <5>6. g[(s \ {x}) \ {y}] \in Int
            <6>1. (s \ {x}) \ {y} \notin Bad
              <7>1. IsFiniteSet(s \ {x}) /\ Cardinality((s \ {x}) \ {y}) \in Nat
                BY <3>1, <5>1, SmallerIs
              <7>2. ~(Cardinality(s) <= Cardinality((s \ {x}) \ {y}))
                <8>1. Cardinality((s \ {x}) \ {y}) + 1 = Cardinality(s \ {x})
                  BY <5>1, <7>1, SmallerIs
                <8>2. Cardinality(s \ {x}) + 1 = Cardinality(s) /\ Cardinality(s \ {x}) \in Nat
                  BY <3>1, SmallerIs
                <8> QED BY <7>1, <8>1, <8>2
              <7> HIDE DEF Bad
              <7> QED BY <2>1, <7>2
            <6> QED BY <5>5, <6>1
          <5>7. g[s] = f[y] + (f[x] + g[(s \ {x}) \ {y}])
            BY <3>3, <5>1, <5>2
          <5> HIDE DEF Fit, Bad
          <5> QED BY <5>3, <5>4, <5>6, <5>7
        <4> QED BY <4>1, <4>2
      <3> QED BY <3>4, <3>5
    <2> QED BY <2>2, <2>3
  <1>3. Fit(S)
    BY <1>2
  <1>4. \A x \in S : Sum(f, S \ {x}) = g[S \ {x}]
    BY <1>1, SumSub
  <1> QED BY <1>1, <1>3, <1>4

---------------------------------------------------------------------------
(* Items that add up *)

Supply == <<"supply">>
Bals(x) == {key \in DOMAIN x : key[1] = "bal"}
Balanced(x) ==
  /\ IsFiniteSet(DOMAIN x)
  /\ \A key \in DOMAIN x : key[1] \in {"bal", "supply", "price"} => x[key] \in Int
  /\ Supply \in DOMAIN x
  /\ x[Supply] = Sum(x, Bals(x))

(* Items without the one of k.                                             *)
LEMMA BalanceOut ==
  ASSUME NEW x, IsFiniteSet(DOMAIN x), \A key \in Bals(x) : x[key] \in Int, NEW k
  PROVE  /\ Sum(x, Bals(x)) \in Int /\ Sum(x, Bals(x) \ {k}) \in Int /\ IsFiniteSet(Bals(x) \ {k})
         /\ Sum(x, Bals(x)) = (IF k \in Bals(x) THEN x[k] ELSE 0) + Sum(x, Bals(x) \ {k})
  <1> DEFINE B == Bals(x)
  <1>1. IsFiniteSet(B) /\ IsFiniteSet(B \ {k})
    BY FS_Subset DEF Bals
  <1>2. Sum(x, B) \in Int /\ \A y \in B : Sum(x, B) = x[y] + Sum(x, B \ {y})
    BY <1>1, SumOut
  <1>3. Sum(x, B \ {k}) \in Int
    BY <1>1, SumOut
  <1>4. CASE k \in B
    BY <1>1, <1>2, <1>3, <1>4
  <1>5. CASE k \notin B
    <2>1. B \ {k} = B
      BY <1>5
    <2> HIDE DEF B
    <2>2. Sum(x, B) = 0 + Sum(x, B \ {k})
      BY <1>2, <2>1
    <2> QED BY <1>1, <1>2, <1>3, <1>5, <2>2 DEF B
  <1> QED BY <1>4, <1>5

(* A balance and the supply change by the same amount.                     *)
LEMMA BalancedMove ==
  ASSUME NEW x, Balanced(x), NEW y, NEW k, k[1] = "bal", NEW v,
         v = None \/ v \in Int,
         \A key : key # k /\ key # Supply =>
                    /\ key \in DOMAIN y <=> key \in DOMAIN x
                    /\ key \in DOMAIN x => y[key] = x[key],
         k \in DOMAIN y <=> v # None, k \in DOMAIN y => y[k] = v,
         Supply \in DOMAIN y,
         y[Supply] = x[Supply] + OrZero(v) - (IF k \in DOMAIN x THEN x[k] ELSE 0)
  PROVE  Balanced(y)
  <1> DEFINE r == Sum(x, Bals(x) \ {k})
             was == IF k \in Bals(x) THEN x[k] ELSE 0
             is == IF k \in Bals(y) THEN y[k] ELSE 0
  <1>1. k # Supply /\ (k \in Bals(x) <=> k \in DOMAIN x) /\ (k \in Bals(y) <=> k \in DOMAIN y)
    BY DEF Bals, Supply
  <1>2. IsFiniteSet(DOMAIN y)
    <2>1. DOMAIN y \subseteq DOMAIN x \cup {k, Supply}
      OBVIOUS
    <2>2. IsFiniteSet(DOMAIN x)
      BY DEF Balanced
    <2>3. IsFiniteSet(DOMAIN x \cup {k, Supply})
      <3>1. IsFiniteSet(DOMAIN x \cup {k})
        BY <2>2, FS_AddElement
      <3>2. IsFiniteSet((DOMAIN x \cup {k}) \cup {Supply})
        BY <3>1, FS_AddElement
      <3>3. (DOMAIN x \cup {k}) \cup {Supply} = DOMAIN x \cup {k, Supply}
        OBVIOUS
      <3> QED BY <3>2, <3>3
    <2> QED BY <2>1, <2>3, FS_Subset
  <1>3. Bals(y) \ {k} = Bals(x) \ {k} /\ \A key \in Bals(x) \ {k} : x[key] = y[key]
    <2>1. Supply[1] # "bal"
      BY DEF Supply
    <2> QED BY <2>1 DEF Bals
  <1>4. \A key \in Bals(x) : x[key] \in Int
    BY DEF Bals, Balanced
  <1>5. r \in Int /\ Sum(x, Bals(x)) = was + r /\ IsFiniteSet(Bals(x) \ {k})
    BY <1>4, BalanceOut DEF Balanced
  <1>6. \A key \in Bals(y) : y[key] \in Int
    BY <1>1, <1>3, <1>4
  <1>7. Sum(y, Bals(y)) = is + Sum(y, Bals(y) \ {k})
    BY <1>2, <1>6, BalanceOut
  <1>8. Sum(y, Bals(y) \ {k}) = r
    BY <1>3, <1>5, SumSame
  <1>9. was \in Int /\ is \in Int /\ is = OrZero(v) /\ x[Supply] = was + r
    BY <1>1, <1>4, <1>5, <1>6, AmountsAssumption DEF OrZero, Balanced
  <1>10. y[Supply] = x[Supply] + OrZero(v) - was
    BY <1>1
  <1> HIDE DEF r, was, is
  <1>11. y[Supply] = Sum(y, Bals(y)) /\ y[Supply] \in Int
    BY <1>5, <1>7, <1>8, <1>9, <1>10
  <1>12. ASSUME NEW key \in DOMAIN y, key[1] \in {"bal", "supply", "price"} PROVE y[key] \in Int
    <2>1. CASE key = k
      BY <1>1, <1>6, <2>1
    <2>2. CASE key = Supply
      BY <1>11, <2>2
    <2>3. CASE key # k /\ key # Supply
      BY <1>12, <2>3 DEF Balanced
    <2> QED BY <2>1, <2>2, <2>3
  <1> QED BY <1>2, <1>11, <1>12 DEF Balanced

(* An item that is neither a balance nor the supply changes.               *)
LEMMA BalancedOther ==
  ASSUME NEW x, Balanced(x), NEW y, NEW k, k[1] \notin {"bal", "supply"},
         \A key : key # k =>
                    /\ key \in DOMAIN y <=> key \in DOMAIN x
                    /\ key \in DOMAIN x => y[key] = x[key],
         k[1] = "price" /\ k \in DOMAIN y => y[k] \in Int
  PROVE  Balanced(y)
  <1>1. IsFiniteSet(DOMAIN y)
    <2>1. DOMAIN y \subseteq DOMAIN x \cup {k}
      OBVIOUS
    <2>2. IsFiniteSet(DOMAIN x \cup {k})
      BY FS_AddElement DEF Balanced
    <2> QED BY <2>1, <2>2, FS_Subset
  <1>2. k # Supply
    BY DEF Supply
  <1>3. Bals(y) = Bals(x) /\ \A key \in Bals(x) : x[key] = y[key]
    BY DEF Bals
  <1>4. IsFiniteSet(Bals(x))
    BY FS_Subset DEF Balanced, Bals
  <1>5. Sum(y, Bals(y)) = Sum(x, Bals(x))
    BY <1>3, <1>4, SumSame
  <1>6. Supply \in DOMAIN y /\ y[Supply] = Sum(y, Bals(y))
    BY <1>2, <1>5 DEF Balanced
  <1>7. ASSUME NEW key \in DOMAIN y, key[1] \in {"bal", "supply", "price"} PROVE y[key] \in Int
    <2>1. CASE key = k
      BY <1>7, <2>1
    <2>2. CASE key # k
      BY <1>7, <2>2 DEF Balanced
    <2> QED BY <2>1, <2>2
  <1> QED BY <1>1, <1>6, <1>7 DEF Balanced

---------------------------------------------------------------------------
(* Databases that add up, in every layer and on the disk *)

Fine(d) ==
  /\ IsDB(d)
  /\ \A n \in 0..Len(d) : Balanced(Items(d, n))
  /\ \A n \in 1..Len(d) : d[n].fund \in Int

LEMMA ItemsBelow ==
  ASSUME NEW d, NEW e, NEW n \in Nat, \A i \in 1..n : d[i] = e[i]
  PROVE  Items(d, n) = Items(e, n)
  BY ItemAtSame, ItemsSame

LEMMA FineTop ==
  ASSUME NEW d, Fine(d), NEW e, Wrote(d, e), Balanced(Items(e, Len(e))), Current(e).fund \in Int
  PROVE  Fine(e)
  <1>1. IsDB(e) /\ Len(e) = Len(d) /\ Len(d) \in Nat /\ \A i \in 1..(Len(d) - 1) : e[i] = d[i]
    BY DBLength DEF Wrote
  <1>2. ASSUME NEW n \in 0..Len(e) PROVE Balanced(Items(e, n))
    <2>1. CASE n = Len(e)
      BY <2>1
    <2>2. CASE n # Len(e)
      <3>1. n \in Nat /\ n \in 0..Len(d) /\ \A i \in 1..n : d[i] = e[i]
        BY <1>1, <2>2
      <3>2. Items(d, n) = Items(e, n)
        BY <3>1, ItemsBelow
      <3>3. Balanced(Items(d, n))
        BY <3>1 DEF Fine
      <3> QED BY <3>2, <3>3
    <2> QED BY <2>1, <2>2
  <1>3. ASSUME NEW n \in 1..Len(e) PROVE e[n].fund \in Int
    <2>1. CASE n = Len(e)
      BY <2>1 DEF Current
    <2>2. CASE n # Len(e)
      <3>1. n \in 1..Len(d) /\ e[n] = d[n]
        BY <1>1, <2>2
      <3> QED BY <3>1 DEF Fine
    <2> QED BY <2>1, <2>2
  <1> QED BY <1>1, <1>2, <1>3 DEF Fine

LEMMA FineDB ==
  ASSUME NEW d, Fine(d)
  PROVE  /\ IsDB(d) /\ Len(d) \in Nat /\ Len(d) >= 1 /\ Balanced(Items(d, Len(d)))
         /\ Current(d).fund \in Int
  <1>1. IsDB(d) /\ Len(d) \in Nat /\ Len(d) >= 1
    BY DBLength DEF Fine
  <1>2. Len(d) \in 0..Len(d) /\ Len(d) \in 1..Len(d)
    BY <1>1
  <1> QED BY <1>1, <1>2 DEF Fine, Current

(* What is found, as items.                                                *)
LEMMA ItemIs ==
  ASSUME NEW d, IsDB(d), NEW key
  PROVE  LET x == Items(d, Len(d))
         IN  /\ key \in DOMAIN x <=> Item(d, key) # None
             /\ key \in DOMAIN x => x[key] = Item(d, key)
  BY DBLength, ItemsHold DEF Item

(* A write of anything but a balance and the supply.                       *)
LEMMA FineOther ==
  ASSUME NEW d, Fine(d), NEW e, Wrote(d, e), Current(e).fund \in Int,
         NEW k, k[1] \notin {"bal", "supply"}, \A key : key # k => Item(e, key) = Item(d, key),
         k[1] = "price" => Item(e, k) \in Int \/ Item(e, k) = None
  PROVE  Fine(e)
  <1> DEFINE x == Items(d, Len(d))
             y == Items(e, Len(e))
  <1>1. IsDB(d) /\ IsDB(e) /\ Balanced(x)
    BY FineDB DEF Wrote
  <1>2. ASSUME NEW key
        PROVE  /\ key \in DOMAIN x <=> Item(d, key) # None
               /\ key \in DOMAIN x => x[key] = Item(d, key)
               /\ key \in DOMAIN y <=> Item(e, key) # None
               /\ key \in DOMAIN y => y[key] = Item(e, key)
    BY <1>1, ItemIs
  <1> HIDE DEF x, y
  <1>3. \A key : key # k =>
          /\ key \in DOMAIN y <=> key \in DOMAIN x
          /\ key \in DOMAIN x => y[key] = x[key]
    BY <1>2
  <1>4. k[1] = "price" /\ k \in DOMAIN y => y[k] \in Int
    BY <1>2
  <1>5. Balanced(y)
    BY <1>1, <1>3, <1>4, BalancedOther
  <1> QED BY <1>5, FineTop DEF y

LEMMA FinePut ==
  ASSUME NEW d, Fine(d), NEW k, k[1] \notin {"bal", "supply"}, ~OldRole(k), NEW v,
         k[1] = "price" => v \in Int
  PROVE  Fine(Put(d, k, v))
  <1> DEFINE e == Put(d, k, v)
             c == Current(d)
  <1>1. /\ Wrote(d, e)
        /\ Current(e) = LayerOf(With(c.dao, k, v), c.fund, c.logs, c.access)
        /\ \A key : Item(e, key) = IF key = k THEN v ELSE Item(d, key)
    BY FineDB, PutWrites
  <1>2. c.fund \in Int
    BY FineDB
  <1> HIDE DEF e
  <1>3. Current(e).fund \in Int
    BY <1>1, <1>2, LayerFields
  <1>4. Fine(e)
    BY <1>1, <1>3, FineOther
  <1> QED BY <1>4 DEF e

(* Nothing that is found changes.                                          *)
LEMMA FineSame ==
  ASSUME NEW d, Fine(d), NEW e, Wrote(d, e), Current(e).fund \in Int,
         \A key : Item(e, key) = Item(d, key)
  PROVE  Fine(e)
  <1>1. \A key : key # <<"code">> => Item(e, key) = Item(d, key)
    OBVIOUS
  <1>2. <<"code">>[1] \notin {"bal", "supply"} /\ <<"code">>[1] # "price"
    OBVIOUS
  <1> QED BY <1>1, <1>2, FineOther

LEMMA FineNoted ==
  ASSUME NEW d, Fine(d), NEW x
  PROVE  Fine(AddToAccessList(d, x)) /\ Fine(PrepareAccessList(d, x)) /\ Fine(AddLog(d, x))
  <1>1. IsDB(d) /\ Current(d).fund \in Int
    BY FineDB
  <1>2. /\ Prepares(d, AddToAccessList(d, x)) /\ Prepares(d, PrepareAccessList(d, x))
        /\ \A k : Item(AddToAccessList(d, x), k) = Item(d, k)
        /\ \A k : Item(PrepareAccessList(d, x), k) = Item(d, k)
    BY <1>1, AccessPrepares
  <1>3. Fine(AddToAccessList(d, x))
    BY <1>1, <1>2, FineSame DEF Prepares
  <1>4. Fine(PrepareAccessList(d, x))
    BY <1>1, <1>2, FineSame DEF Prepares
  <1>5. Fine(AddLog(d, x))
    BY <1>1, LogWrites, FineSame
  <1> QED BY <1>3, <1>4, <1>5

LEMMA FineRefund ==
  ASSUME NEW d, Fine(d), NEW x \in Int
  PROVE  Fine(AddRefund(d, x))
  <1> DEFINE e == AddRefund(d, x)
  <1>1. IsDB(d) /\ Current(d).fund \in Int
    BY FineDB
  <1>2. Wrote(d, e) /\ Current(e).fund = Current(d).fund + x /\ \A k : Item(e, k) = Item(d, k)
    BY <1>1, RefundWrites
  <1> HIDE DEF e
  <1>3. Current(e).fund \in Int
    BY <1>1, <1>2
  <1> QED BY <1>2, <1>3, FineSame DEF e

(* Balances and the supply are numbers, and so is the price.               *)
LEMMA FineItems ==
  ASSUME NEW d, Fine(d)
  PROVE  /\ \A a : GetBalance(d, a) \in Int
         /\ \A a : Item(d, <<"bal", a>>) = None \/ Item(d, <<"bal", a>>) \in Int
         /\ Item(d, Supply) \in Int /\ Item(d, Supply) # None
         /\ GasPriceFromStorage(d) \in Int
  <1> DEFINE x == Items(d, Len(d))
  <1>1. IsDB(d) /\ Balanced(x)
    BY FineDB
  <1>2. ASSUME NEW key
        PROVE  /\ key \in DOMAIN x <=> Item(d, key) # None
               /\ key \in DOMAIN x => x[key] = Item(d, key)
    BY <1>1, ItemIs
  <1> HIDE DEF x
  <1>3. ASSUME NEW key, key[1] \in {"bal", "supply", "price"} PROVE Item(d, key) = None \/ Item(d, key) \in Int
    BY <1>1, <1>2, <1>3 DEF Balanced
  <1>4. \A a : Item(d, <<"bal", a>>) = None \/ Item(d, <<"bal", a>>) \in Int
    BY <1>3
  <1>5. Item(d, Supply) \in Int /\ Item(d, Supply) # None
    <2>1. Supply \in DOMAIN x /\ Supply[1] = "supply"
      BY <1>1 DEF Balanced, Supply
    <2> QED BY <1>2, <1>3, <2>1
  <1>6. GasPriceFromStorage(d) \in Int
    <2>1. Item(d, <<"price">>) = None \/ Item(d, <<"price">>) \in Int
      BY <1>3
    <2> QED BY <2>1, NativesAssumption DEF GasPriceFromStorage
  <1> QED BY <1>4, <1>5, <1>6 DEF GetBalance, OrZero

LEMMA FineTokens ==
  ASSUME NEW d, Fine(d), NEW a, NEW amount \in Int
  PROVE  Fine(AddTokens(d, a, amount))
  <1> DEFINE k == <<"bal", a>>
             old == Item(d, k)
             new == OrZero(old) + amount
             v == IF old # None /\ new = 0 THEN None ELSE new
             w == OrZero(Item(d, Supply)) + amount
             c == Put(d, k, v)
             e == Put(c, Supply, w)
             x == Items(d, Len(d))
             y == Items(e, Len(e))
  <1>1. CASE amount = 0 \/ new < 0
    BY <1>1 DEF AddTokens
  <1>2. CASE ~(amount = 0 \/ new < 0)
    <2>1. AddTokens(d, a, amount) = e
      BY <1>2 DEF AddTokens, Supply
    <2>2. IsDB(d) /\ Balanced(x) /\ Current(d).fund \in Int
      BY FineDB
    <2>3. old = None \/ old \in Int
      BY FineItems
    <2>4. OrZero(old) \in Int /\ new \in Int /\ (old = None => OrZero(old) = 0) /\ (old \in Int => OrZero(old) = old)
      BY <2>3, AmountsAssumption DEF OrZero
    <2>5. Item(d, Supply) \in Int /\ w = Item(d, Supply) + amount /\ w # None
      BY FineItems, AmountsAssumption DEF OrZero
    <2>6. (v = None \/ v \in Int) /\ OrZero(v) = new
      BY <2>4, AmountsAssumption DEF OrZero
    <2>7. ~OldRole(k) /\ ~OldRole(Supply) /\ k # Supply /\ k[1] = "bal"
      BY NotRole DEF Supply
    <2> HIDE DEF k, v, w, new, old
    <2>8. /\ Wrote(d, c)
          /\ Current(c) = LayerOf(With(Current(d).dao, k, v), Current(d).fund, Current(d).logs, Current(d).access)
          /\ \A key : Item(c, key) = IF key = k THEN v ELSE Item(d, key)
      BY <2>2, <2>7, PutWrites
    <2> HIDE DEF c
    <2>9. /\ Wrote(c, e)
          /\ Current(e) = LayerOf(With(Current(c).dao, Supply, w), Current(c).fund, Current(c).logs, Current(c).access)
          /\ \A key : Item(e, key) = IF key = Supply THEN w ELSE Item(c, key)
      BY <2>7, <2>8, PutWrites DEF Wrote
    <2> HIDE DEF e
    <2>10. Wrote(d, e) /\ IsDB(e)
      BY <2>8, <2>9, WroteTwice DEF Wrote
    <2>11. Current(e).fund \in Int
      BY <2>2, <2>8, <2>9, LayerFields
    <2>12. ASSUME NEW key
          PROVE  /\ key \in DOMAIN x <=> Item(d, key) # None
                 /\ key \in DOMAIN x => x[key] = Item(d, key)
                 /\ key \in DOMAIN y <=> Item(e, key) # None
                 /\ key \in DOMAIN y => y[key] = Item(e, key)
      BY <2>2, <2>10, ItemIs
    <2> HIDE DEF x, y
    <2>13. \A key : key # k /\ key # Supply =>
             /\ key \in DOMAIN y <=> key \in DOMAIN x
             /\ key \in DOMAIN x => y[key] = x[key]
      BY <2>8, <2>9, <2>12
    <2>14. Item(e, k) = v /\ Item(e, Supply) = w
      BY <2>7, <2>8, <2>9
    <2>15. (k \in DOMAIN y <=> v # None) /\ (k \in DOMAIN y => y[k] = v)
      BY <2>12, <2>14
    <2>16. Supply \in DOMAIN y /\ y[Supply] = w /\ x[Supply] = Item(d, Supply)
      BY <2>5, <2>12, <2>14, FineItems
    <2>17. (IF k \in DOMAIN x THEN x[k] ELSE 0) = OrZero(old)
      BY <2>3, <2>4, <2>12 DEF old
    <2>18. w = x[Supply] + OrZero(v) - OrZero(old)
      BY <2>4, <2>5, <2>6, <2>16 DEF new
    <2>19. Balanced(y)
      BY <2>2, <2>6, <2>7, <2>13, <2>15, <2>16, <2>17, <2>18, BalancedMove
    <2> QED BY <2>1, <2>10, <2>11, <2>19, FineTop DEF y
  <1> QED BY <1>1, <1>2

LEMMA FineTransfer ==
  ASSUME NEW d, Fine(d), NEW from, NEW to, NEW value \in Int
  PROVE  Fine(Transfer(d, from, to, value))
  <1>1. -value \in Int
    OBVIOUS
  <1>2. Fine(AddTokens(d, from, -value))
    BY <1>1, FineTokens
  <1>3. Fine(AddTokens(AddTokens(d, from, -value), to, value))
    BY <1>2, FineTokens
  <1> QED BY <1>3 DEF Transfer

LEMMA FineAccount ==
  ASSUME NEW d, Fine(d), NEW a, NEW x
  PROVE  Fine(SetNonce(d, a, x)) /\ Fine(SetCode(d, a, x)) /\ Fine(Destroy(d, a)) /\ Fine(Put(d, <<"slot", a>>, x))
  <1>1. ASSUME NEW k, k[1] \in {"nonce", "code", "codeOfItself", "slot"}, NEW v PROVE Fine(Put(d, k, v))
    BY <1>1, NotRole, FinePut
  <1>2. Fine(Put(d, <<"codeOfItself", a>>, None))
    BY <1>1
  <1>3. Fine(Destroy(d, a))
    BY <1>2 DEF Destroy
  <1>4. Fine(SetNonce(d, a, x))
    BY <1>1 DEF SetNonce
  <1>5. Fine(SetCode(d, a, x))
    BY <1>1 DEF SetCode
  <1>6. Fine(Put(d, <<"slot", a>>, x))
    BY <1>1
  <1> QED BY <1>3, <1>4, <1>5, <1>6

LEMMA FineSnapshot ==
  ASSUME NEW d, Fine(d)
  PROVE  Fine(Snapshot(d))
  <1> DEFINE e == Snapshot(d)
             c == Current(d)
             l == Len(d)
  <1>1. IsDB(d) /\ l \in Nat /\ c.fund \in Int /\ Balanced(Items(d, l))
    BY FineDB
  <1>2. /\ IsDB(e) /\ Len(e) = l + 1 /\ \A i \in 1..l : e[i] = d[i]
        /\ Current(e) = LayerOf(<< >>, c.fund, c.logs, c.access)
        /\ \A k : Item(e, k) = Item(d, k)
    BY <1>1, SnapshotAdds
  <1> HIDE DEF e
  <1>3. e[l + 1].fund \in Int
    BY <1>1, <1>2, LayerFields DEF Current
  <1>4. Items(e, l + 1) = Items(d, l)
    <2>1. \A k : ItemAt(e, l + 1, k) = ItemAt(d, l, k)
      BY <1>2 DEF Item
    <2>2. l + 1 \in Nat
      BY <1>1
    <2> QED BY <1>1, <2>1, <2>2, ItemsSame
  <1>5. ASSUME NEW n \in 0..l PROVE Balanced(Items(e, n))
    <2>1. n \in Nat /\ \A i \in 1..n : d[i] = e[i]
      BY <1>1, <1>2
    <2>2. Items(d, n) = Items(e, n)
      BY <2>1, ItemsBelow
    <2> QED BY <2>2 DEF Fine
  <1>6. \A n \in 0..Len(e) : n = l + 1 \/ n \in 0..l
    BY <1>1, <1>2
  <1>7. \A n \in 1..Len(e) : n = l + 1 \/ n \in 1..l
    BY <1>1, <1>2
  <1>8. \A n \in 1..l : e[n].fund \in Int
    BY <1>2 DEF Fine
  <1>9. \A n \in 0..Len(e) : Balanced(Items(e, n))
    BY <1>1, <1>4, <1>5, <1>6
  <1>10. \A n \in 1..Len(e) : e[n].fund \in Int
    BY <1>3, <1>7, <1>8
  <1> QED BY <1>2, <1>9, <1>10 DEF Fine, e

LEMMA FineRevert ==
  ASSUME NEW d, Fine(d), NEW id \in Nat, id + 1 <= Len(d)
  PROVE  Fine(RevertToSnapshot(d, id))
  <1> DEFINE e == RevertToSnapshot(d, id)
  <1>1. IsDB(d) /\ Len(d) \in Nat
    BY FineDB
  <1>2. IsDB(e) /\ Len(e) = id + 1 /\ \A i \in 1..(id + 1) : e[i] = d[i]
    BY <1>1, RevertCuts
  <1> HIDE DEF e
  <1>3. ASSUME NEW n \in 0..Len(e) PROVE Balanced(Items(e, n))
    <2>1. n \in Nat /\ n \in 0..Len(d) /\ \A i \in 1..n : d[i] = e[i]
      BY <1>1, <1>2
    <2>2. Items(d, n) = Items(e, n)
      BY <2>1, ItemsBelow
    <2> QED BY <2>1, <2>2 DEF Fine
  <1>4. ASSUME NEW n \in 1..Len(e) PROVE e[n].fund \in Int
    <2>1. n \in 1..Len(d) /\ e[n] = d[n]
      BY <1>1, <1>2
    <2> QED BY <2>1 DEF Fine
  <1> QED BY <1>2, <1>3, <1>4 DEF Fine, e

(* Commit keeps what is found.                                             *)
LEMMA CommitFinds ==
  ASSUME NEW d, IsDB(d), NEW key
  PROVE  ItemAt(Commit(d), 1, key) = Item(d, key)
  <1> DEFINE x == [k \in Written(d) |-> Item(d, k)]
             e == Commit(d)
  <1>1. IsLayer(d[1]) /\ Len(d) \in Nat
    BY DBLength DEF IsDB
  <1>2. e[1].dao = x
    <2>1. [d[1] EXCEPT !.dao = x] = LayerOf(x, d[1].fund, d[1].logs, d[1].access)
      BY <1>1, LayerExcept
    <2>2. e[1] = [d[1] EXCEPT !.dao = x]
      BY DEF Commit
    <2> HIDE DEF x, e
    <2> QED BY <2>1, <2>2, LayerFields
  <1>3. CASE key \in Written(d)
    <2>1. key \in DOMAIN e[1].dao /\ e[1].dao[key] = Item(d, key)
      BY <1>2, <1>3
    <2> HIDE DEF e
    <2>2. ItemAt(e, 1, key) = e[1].dao[key]
      BY <2>1, ItemTop
    <2> QED BY <2>1, <2>2 DEF e
  <1>4. CASE key \notin Written(d)
    <2>1. key \notin DOMAIN e[1].dao
      BY <1>2, <1>4
    <2> HIDE DEF e
    <2>2. Writers(e, 1, key) = {}
      BY <2>1 DEF Writers
    <2>3. Writers(d, Len(d), key) = {}
      BY <1>4 DEF Writers, Written
    <2>4. ItemAt(e, 1, key) = IF key \in DOMAIN disk THEN disk[key] ELSE None
      BY <2>2, ItemOnDisk
    <2>5. ItemAt(d, Len(d), key) = IF key \in DOMAIN disk THEN disk[key] ELSE None
      BY <1>1, <2>3, ItemOnDisk
    <2> QED BY <2>4, <2>5 DEF e, Item
  <1> QED BY <1>3, <1>4

LEMMA FineCommit ==
  ASSUME NEW d, Fine(d)
  PROVE  Fine(Commit(d))
  <1> DEFINE e == Commit(d)
             x == [k \in Written(d) |-> Item(d, k)]
  <1>1. IsDB(d) /\ Len(d) \in Nat /\ Len(d) >= 1 /\ Balanced(Items(d, Len(d)))
    BY FineDB
  <1>2. IsDB(e) /\ Len(e) = 1
    BY <1>1, CommitMerges
  <1>3. d[1].fund \in Int
    BY <1>1 DEF Fine
  <1>4. e[1].fund \in Int
    <2>1. IsLayer(d[1])
      BY <1>1 DEF IsDB
    <2>2. [d[1] EXCEPT !.dao = x] = LayerOf(x, d[1].fund, d[1].logs, d[1].access)
      BY <2>1, LayerExcept
    <2>3. e[1] = [d[1] EXCEPT !.dao = x]
      BY DEF Commit
    <2> HIDE DEF x, e
    <2> QED BY <1>3, <2>2, <2>3, LayerFields
  <1>5. Items(e, 1) = Items(d, Len(d))
    <2>1. \A k : ItemAt(e, 1, k) = ItemAt(d, Len(d), k)
      BY <1>1, CommitFinds DEF Item
    <2> HIDE DEF e
    <2> QED BY <1>1, <2>1, ItemsSame
  <1>6. Balanced(Items(e, 0))
    <2> HIDE DEF e
    <2>1. Items(e, 0) = Items(d, 0)
      <3>1. \A i \in 1..0 : e[i] = d[i]
        OBVIOUS
      <3> QED BY <3>1, ItemsBelow
    <2>2. 0 \in 0..Len(d)
      BY <1>1
    <2> QED BY <2>1, <2>2 DEF Fine
  <1> HIDE DEF e
  <1>7. \A n \in 0..Len(e) : n = 0 \/ n = 1
    BY <1>2
  <1>8. \A n \in 1..Len(e) : n = 1
    BY <1>2
  <1>9. \A n \in 0..Len(e) : Balanced(Items(e, n))
    BY <1>1, <1>5, <1>6, <1>7
  <1> QED BY <1>2, <1>4, <1>8, <1>9 DEF Fine, e

---------------------------------------------------------------------------
(* Outcomes of calls *)

Priced(input) == input.method = "setGasPrice" => input.price \in Int

LEMMA FineNative ==
  ASSUME height \in Nat, NEW d, Fine(d), NEW sender, NEW input, Priced(input),
         ContractCall(d, sender, input) # None
  PROVE  Fine(ContractCall(d, sender, input))
  <1>1. \A role : ~OldRole(<<"role", role, DesignateIndex(role)>>)
    BY DEF OldRole, DesignateIndex
  <1>2. ~OldRole(<<"price">>) /\ \A a : ~OldRole(<<"blocked", a>>)
    BY NotRole
  <1>3. PICK key, val, log : /\ ~OldRole(key) /\ key[1] \notin {"bal", "supply"} /\ (key[1] = "price" => val \in Int)
                             /\ ContractCall(d, sender, input) = AddLog(Put(d, key, val), log)
    <2>1. CASE input.method = "designateAsRole"
      <3>1. ContractCall(d, sender, input) = DesignateAsRole(d, sender, input.role, input.nodes)
        BY <2>1 DEF ContractCall
      <3> QED BY <1>1, <3>1 DEF DesignateAsRole
    <2>2. CASE input.method = "setGasPrice"
      <3>1. ContractCall(d, sender, input) = SetGasPrice(d, sender, input.price) /\ input.price \in Int
        BY <2>2 DEF ContractCall, Priced
      <3> QED BY <1>2, <3>1 DEF SetGasPrice
    <2>3. CASE input.method = "block"
      <3>1. ContractCall(d, sender, input) = SetBlocked(d, sender, input.account, input.blocked)
        BY <2>3 DEF ContractCall
      <3> QED BY <1>2, <3>1 DEF SetBlocked
    <2>4. CASE input.method \notin {"designateAsRole", "setGasPrice", "block"}
      BY <2>4 DEF ContractCall
    <2> QED BY <2>1, <2>2, <2>3, <2>4
  <1>4. Fine(Put(d, key, val))
    BY <1>3, FinePut
  <1>5. Fine(AddLog(Put(d, key, val), log))
    BY <1>4, FineNoted
  <1> QED BY <1>3, <1>5

FineOutcome(o) ==
  /\ Fine(o.db) /\ o.run \in BOOLEAN
  /\ o.run => o.frame.gas \in Int
  /\ ~o.run => o.gas \in Int

LEMMA FineDone ==
  ASSUME NEW d, Fine(d), NEW gas \in Int, NEW res
  PROVE  FineOutcome(Done(d, gas, res))
  <1> DEFINE o == Done(d, gas, res)
  <1>1. o.run = FALSE /\ o.db = d /\ o.gas = gas
    BY DEF Done
  <1> HIDE DEF o
  <1>2. FineOutcome(o)
    BY <1>1 DEF FineOutcome
  <1> QED BY <1>2 DEF o

LEMMA FineRuns ==
  ASSUME NEW d, Fine(d), NEW kind, NEW self, NEW caller, NEW gas \in Int, NEW snap
  PROVE  FineOutcome(Runs(d, NewFrame(kind, self, caller, gas, snap)))
  <1> DEFINE f == NewFrame(kind, self, caller, gas, snap)
             o == Runs(d, f)
  <1>1. f.gas = gas
    BY DEF NewFrame
  <1> HIDE DEF f
  <1>2. o.run = TRUE /\ o.db = d /\ o.frame = f
    BY DEF Runs
  <1> HIDE DEF o
  <1>3. FineOutcome(o)
    BY <1>1, <1>2 DEF FineOutcome
  <1> QED BY <1>3 DEF o, f

LEMMA FineDirect ==
  ASSUME NEW d, IsDB(d), NEW ready, Fine(ready), Len(ready) = Len(d) + 1,
         NEW after, after # None => Fine(after), NEW gas \in Int, NEW cost \in Int
  PROVE  FineOutcome(RunDirect(d, ready, gas, cost, after))
  <1> DEFINE id == SnapshotId(d)
  <1>1. id \in Nat /\ id + 1 <= Len(ready)
    BY DBLength DEF SnapshotId
  <1> HIDE DEF id
  <1>2. Fine(RevertToSnapshot(ready, id))
    BY <1>1, FineRevert
  <1>3. FineOutcome(Done(RevertToSnapshot(ready, id), 0, "err"))
    BY <1>2, FineDone
  <1>4. after # None => FineOutcome(Done(after, gas - cost, "ok"))
    BY FineDone
  <1>5. RunDirect(d, ready, gas, cost, after) =
          IF gas < cost \/ after = None THEN Done(RevertToSnapshot(ready, id), 0, "err")
          ELSE Done(after, gas - cost, "ok")
    BY DEF RunDirect, id
  <1> QED BY <1>3, <1>4, <1>5

LEMMA FineInvoke ==
  ASSUME height \in Nat, NEW d, IsDB(d), NEW ready, Fine(ready), Len(ready) = Len(d) + 1,
         NEW kind, NEW from, NEW self, NEW caller, NEW a, NEW gas \in Int, NEW input, Priced(input)
  PROVE  FineOutcome(Invoke(kind, d, ready, from, self, caller, a, gas, input))
  <1> DEFINE o == Invoke(kind, d, ready, from, self, caller, a, gas, input)
             after == ContractCall(ready, from, input)
             p == RunDirect(d, ready, gas, Cost.precompile, ready)
             q == RunDirect(d, ready, gas, RequiredGas(input), after)
             r == Done(ready, gas, "ok")
             t == Runs(ready, NewFrame(kind, self, caller, gas, SnapshotId(d)))
  <1>1. o \in {p, q, r, t}
    <2> HIDE DEF p, q, r, t
    <2>1. Precompile # Native
      BY DEF Precompile, Native
    <2>2. o = IF a = Precompile THEN p ELSE IF a = Native THEN q
              ELSE IF GetCode(d, a) # "code" THEN r ELSE t
      <3> USE DEF p, q, r, t, after
      <3> QED BY <2>1, Zenon DEF Invoke
    <2> QED BY <2>2
  <1>2. Cost.precompile \in Int /\ RequiredGas(input) \in Int
    BY AmountsAssumption, NativesAssumption DEF RequiredGas, DesignateGas, PolicyGas
  <1>3. FineOutcome(p)
    BY <1>2, FineDirect
  <1>4. FineOutcome(q)
    <2>1. after # None => Fine(after)
      BY FineNative
    <2> HIDE DEF after
    <2> QED BY <1>2, <2>1, FineDirect
  <1>5. FineOutcome(r)
    BY FineDone
  <1>6. FineOutcome(t)
    BY FineRuns
  <1> HIDE DEF o, p, q, r, t
  <1>7. FineOutcome(o)
    BY <1>1, <1>3, <1>4, <1>5, <1>6
  <1> QED BY <1>7 DEF o

LEMMA FineCalls ==
  ASSUME height \in Nat, NEW d, Fine(d), NEW from, NEW sender, NEW a,
         NEW gas \in Int, NEW value \in Int, NEW input, Priced(input)
  PROVE  /\ FineOutcome(Call(d, from, a, gas, value, input))
         /\ FineOutcome(CallCode(d, from, a, gas, value, input))
         /\ FineOutcome(DelegateCall(d, from, sender, a, gas, input))
         /\ FineOutcome(StaticCall(d, from, a, gas, input))
  <1> DEFINE s == Snapshot(d)
             t == Transfer(s, from, a, value)
  <1>1. IsDB(d) /\ IsDB(s) /\ Len(s) = Len(d) + 1
    BY FineDB, SnapshotAdds
  <1>2. Fine(s)
    BY FineSnapshot
  <1>3. Fine(t) /\ Len(t) = Len(s)
    BY <1>1, <1>2, FineTransfer, TransferWrites DEF Wrote
  <1>4. FineOutcome(Done(d, gas, "err"))
    BY FineDone
  <1> HIDE DEF t
  <1>5. ASSUME NEW kind, NEW self, NEW caller
        PROVE  /\ FineOutcome(Invoke(kind, d, t, from, self, caller, a, gas, input))
               /\ FineOutcome(Invoke(kind, d, s, from, self, caller, a, gas, input))
    BY <1>1, <1>2, <1>3, FineInvoke
  <1>6. FineOutcome(Call(d, from, a, gas, value, input))
    BY <1>4, <1>5 DEF Call, t
  <1>7. FineOutcome(CallCode(d, from, a, gas, value, input))
    BY <1>4, <1>5 DEF CallCode
  <1>8. FineOutcome(DelegateCall(d, from, sender, a, gas, input))
    BY <1>4, <1>5 DEF DelegateCall
  <1>9. FineOutcome(StaticCall(d, from, a, gas, input))
    BY <1>4, <1>5 DEF StaticCall
  <1> QED BY <1>6, <1>7, <1>8, <1>9

LEMMA FineDeploy ==
  ASSUME NEW d, Fine(d), NEW kind, NEW from, NEW gas \in Int, NEW value \in Int
  PROVE  FineOutcome(Deploy(kind, d, from, gas, value))
  <1> DEFINE o == Deploy(kind, d, from, gas, value)
             address == CreateAddress(kind, d, from)
             nonced == SetNonce(d, from, GetNonce(d, from) + 1)
             noted == AddToAccessList(nonced, {address})
             first == SetNonce(Snapshot(noted), address, 1)
             ready == Transfer(first, from, address, value)
             f == NewFrame(kind, address, from, gas, SnapshotId(noted))
  <1>1. o \in {Done(d, gas, "err"), Done(noted, 0, "err"), Runs(ready, f)}
    BY DEF Deploy
  <1> HIDE DEF address
  <1>2. Fine(noted)
    <2>1. Fine(nonced)
      BY FineAccount
    <2> HIDE DEF nonced
    <2> QED BY <2>1, FineNoted
  <1> HIDE DEF noted
  <1>3. Fine(ready)
    <2>1. Fine(Snapshot(noted))
      BY <1>2, FineSnapshot
    <2>2. Fine(first)
      BY <2>1, FineAccount
    <2> HIDE DEF first
    <2> QED BY <2>2, FineTransfer
  <1> HIDE DEF ready
  <1>4. FineOutcome(Runs(ready, f))
    BY <1>3, FineRuns
  <1>5. FineOutcome(Done(d, gas, "err")) /\ FineOutcome(Done(noted, 0, "err"))
    BY <1>2, FineDone
  <1> HIDE DEF o, f
  <1> QED BY <1>1, <1>4, <1>5 DEF o

---------------------------------------------------------------------------
(* The invariant of the supply *)

Gased(fs) == \A i \in 1..Len(fs) : fs[i].gas \in Int

SupplyInv ==
  /\ Fine(db) /\ Gased(frames) /\ left \in Int /\ cache.price \in Int
  /\ phase = "exec" => tx.gas \in Int /\ tx.price \in Int

LEMMA GasSet ==
  ASSUME NEW d, NEW fs, FramesOn(d, fs), fs # << >>, Gased(fs), NEW x \in Int
  PROVE  LET gs == [fs EXCEPT ![Len(fs)].gas = x] IN Gased(gs) /\ FramesOn(d, gs) /\ fs[Len(fs)].gas \in Int
  <1> DEFINE n == Len(fs)
             g == [fs[n] EXCEPT !.gas = x]
             gs == [fs EXCEPT ![n] = g]
  <1>1. PICK S : fs \in Seq(S)
    BY DEF FramesOn, IsSeq
  <1>2. n \in Nat /\ n >= 1 /\ IsDB(d) /\ Len(d) \in Nat
    BY FramesLength DEF FramesOn
  <1>3. IsFrame(fs[n]) /\ fs[n].gas \in Int
    BY <1>2 DEF FramesOn, Gased
  <1>4. g.gas = x
    <2>1. PICK k, s, c, h, m, r :
            fs[n] = [kind |-> k, self |-> s, sender |-> c, gas |-> h, snap |-> m, setsReadOnly |-> r]
      BY <1>3 DEF IsFrame, FrameOf
    <2> HIDE DEF n
    <2> QED BY <2>1
  <1>5. [fs EXCEPT ![Len(fs)].gas = x] = gs
    OBVIOUS
  <1>6. SameFrames(fs, [fs EXCEPT ![Len(fs)].gas = x])
    BY GasOnly
  <1> HIDE DEF g
  <1>7. gs[n] = g /\ \A i \in 1..n : i # n => gs[i] = fs[i]
    BY <1>1, <1>2
  <1>8. SameFrames(fs, gs) /\ Len(gs) = n
    BY <1>5, <1>6 DEF SameFrames
  <1> HIDE DEF gs
  <1>9. Gased(gs)
    BY <1>4, <1>7, <1>8 DEF Gased
  <1>10. FramesOn(d, gs)
    <2>1. Len(d) >= Len(d)
      BY <1>2
    <2> QED BY <1>2, <1>8, <2>1, SavedKept
  <1> QED BY <1>3, <1>5, <1>9, <1>10

LEMMA GaveBack ==
  ASSUME NEW d, NEW fs, FramesOn(d, fs), Gased(fs), NEW gas \in Int, left \in Int, GiveBack(fs, gas)
  PROVE  Gased(frames') /\ left' \in Int
  <1>1. CASE fs = << >>
    <2>1. frames' = fs /\ left' = gas
      BY <1>1 DEF GiveBack
    <2> QED BY <2>1
  <1>2. CASE fs # << >>
    <2> DEFINE x == fs[Len(fs)].gas + gas
    <2>1. frames' = [fs EXCEPT ![Len(fs)].gas = x] /\ left' = left
      BY <1>2 DEF GiveBack
    <2>2. fs[Len(fs)].gas \in Int
      BY <1>2, GasSet
    <2>3. x \in Int
      BY <2>2
    <2> HIDE DEF x
    <2> QED BY <1>2, <2>1, <2>3, GasSet
  <1> QED BY <1>1, <1>2

LEMMA EnterSupply ==
  ASSUME NEW fs, FramesOn(db, fs), Gased(fs), NEW o, FineOutcome(o), left \in Int, Enter(fs, o)
  PROVE  Fine(db') /\ Gased(frames') /\ left' \in Int
  <1>1. Fine(db')
    BY DEF FineOutcome, Enter
  <1>2. CASE o.run
    <2>1. frames' = Append(fs, o.frame) /\ left' = left /\ o.frame.gas \in Int
      BY <1>2 DEF Enter, FineOutcome
    <2>2. PICK S : fs \in Seq(S)
      BY DEF FramesOn, IsSeq
    <2> DEFINE f == o.frame
    <2>3. fs \in Seq(S \cup {f})
      BY <2>2
    <2> HIDE DEF f
    <2>4. /\ Len(Append(fs, f)) = Len(fs) + 1 /\ Append(fs, f)[Len(fs) + 1] = f /\ Len(fs) \in Nat
          /\ \A i \in 1..Len(fs) : Append(fs, f)[i] = fs[i]
      BY <2>3
    <2>5. \A i \in 1..(Len(fs) + 1) : i = Len(fs) + 1 \/ i \in 1..Len(fs)
      BY <2>4
    <2>6. f.gas \in Int /\ frames' = Append(fs, f)
      BY <2>1 DEF f
    <2>7. Gased(frames')
      BY <2>4, <2>5, <2>6 DEF Gased
    <2> QED BY <1>1, <2>1, <2>7
  <1>3. CASE ~o.run
    <2>1. GiveBack(fs, o.gas) /\ o.gas \in Int
      BY <1>3 DEF Enter, FineOutcome
    <2> QED BY <1>1, <2>1, GaveBack
  <1> QED BY <1>2, <1>3

(* While the disk stays, a database adds up in the next state as it did.   *)
LEMMA FineNext == ASSUME disk' = disk, Fine(db') PROVE Fine(db)'
  BY DEF Fine, Items, ItemAt

(* A step of running code.                                                 *)
Ran == Fine(db') /\ Gased(frames') /\ left' \in Int

LEMMA RanKeeps ==
  ASSUME SupplyInv, Ran, UNCHANGED <<disk, cache, phase, tx>>
  PROVE  SupplyInv'
  <1>1. Fine(db)'
    BY FineNext DEF Ran
  <1> QED BY <1>1 DEF SupplyInv, Ran, Gased

LEMMA TopGas ==
  ASSUME FrameInv, SupplyInv, frames # << >>
  PROVE  /\ Top.gas \in Int /\ FramesOn(db, frames) /\ Gased(frames) /\ Fine(db) /\ left \in Int /\ height \in Nat
         /\ Top.snap \in Nat /\ Top.snap + 1 <= Len(db)
  <1>1. FramesOn(db, frames) /\ Gased(frames) /\ Fine(db) /\ left \in Int /\ height \in Nat
    BY DEF FrameInv, SupplyInv
  <1>2. frames[Len(frames)].gas \in Int
    BY <1>1, GasSet
  <1>3. Top.snap \in Nat /\ Top.snap + 2 <= Len(db)
    BY TopOrdinary
  <1>4. Top.snap + 1 <= Len(db)
    BY <1>1, <1>3, FineDB
  <1> QED BY <1>1, <1>2, <1>3, <1>4 DEF Top

LEMMA SpendRan ==
  ASSUME FrameInv, SupplyInv, frames # << >>, NEW x \in Int, Spend(x)
  PROVE  Gased(frames') /\ left' \in Int
  <1> DEFINE y == frames[Len(frames)].gas - x
  <1>1. Top.gas \in Int /\ FramesOn(db, frames) /\ Gased(frames) /\ left \in Int
    BY TopGas
  <1>2. frames' = [frames EXCEPT ![Len(frames)].gas = y] /\ left' = left
    BY DEF Spend
  <1>3. y \in Int
    BY <1>1 DEF Top
  <1> HIDE DEF y
  <1> QED BY <1>1, <1>2, <1>3, GasSet

LEMMA SstoreCharge ==
  ASSUME NEW d, NEW a, NEW v
  PROVE  SstoreGas(d, a, v).gas \in Int /\ SstoreGas(d, a, v).refund \in Int
  <1> DEFINE current == OrZero(Item(d, <<"slot", a>>))
             original == OrZero(ItemAt(d, 1, <<"slot", a>>))
             cold == IF InAccessList(d, <<"slot", a>>) THEN 0 ELSE Cost.coldSload
  <1>1. /\ Cost.coldSload \in Int /\ Cost.warm \in Int /\ Cost.set \in Int /\ Cost.reset \in Int
        /\ Cost.clears \in Int
    BY AmountsAssumption
  <1>2. cold \in Int
    BY <1>1
  <1> HIDE DEF current, original, cold
  <1>3. CleanRefund(original, v) \in Int
    BY <1>1 DEF CleanRefund
  <1>4. DirtyRefund(original, current, v) \in Int
    <2> DEFINE p == CASE original # 0 /\ current = 0 -> -Cost.clears
                      [] original # 0 /\ current # 0 /\ v = 0 -> Cost.clears
                      [] OTHER -> 0
               q == CASE original = v /\ original = 0 -> Cost.set - Cost.warm
                      [] original = v /\ original # 0 -> Cost.reset - Cost.coldSload - Cost.warm
                      [] OTHER -> 0
    <2>1. p \in Int
      BY <1>1
    <2>2. q \in Int
      BY <1>1
    <2>3. DirtyRefund(original, current, v) = p + q
      BY DEF DirtyRefund
    <2> HIDE DEF p, q
    <2> QED BY <2>1, <2>2, <2>3
  <1> DEFINE g == SstoreGas(d, a, v)
             clean == cold + (IF original = 0 THEN Cost.set ELSE Cost.reset - Cost.coldSload)
             r1 == [gas |-> cold + Cost.warm, refund |-> 0]
             r2 == [gas |-> clean, refund |-> CleanRefund(original, v)]
             r3 == [gas |-> cold + Cost.warm, refund |-> DirtyRefund(original, current, v)]
  <1>5. g \in {r1, r2, r3}
    BY DEF SstoreGas, current, original, cold
  <1>6. clean \in Int /\ cold + Cost.warm \in Int
    BY <1>1, <1>2
  <1>7. \A r \in {r1, r2, r3} : r.gas \in Int /\ r.refund \in Int
    <2> HIDE DEF clean
    <2> QED BY <1>3, <1>4, <1>6
  <1> HIDE DEF g, r1, r2, r3
  <1> QED BY <1>5, <1>7 DEF g

LEMMA LocalSupply ==
  ASSUME FrameInv, SupplyInv, Sload \/ Log \/ \E v \in SlotValues : Sstore(v)
  PROVE  SupplyInv'
  <1>1. frames # << >> /\ UNCHANGED <<disk, cache, phase, tx>>
    BY DEF Sload, Log, Sstore, Running, block
  <1>2. Fine(db)
    BY DEF SupplyInv
  <1>3. CASE Sload
    <2> DEFINE x == IF InAccessList(db, <<"slot", Top.self>>) THEN Cost.warm ELSE Cost.coldSload
    <2>1. db' = AddToAccessList(db, {<<"slot", Top.self>>}) /\ Spend(x)
      BY <1>3 DEF Sload
    <2>2. x \in Int
      BY AmountsAssumption
    <2> HIDE DEF x
    <2>3. Fine(db')
      BY <1>2, <2>1, FineNoted
    <2> QED BY <1>1, <2>1, <2>2, <2>3, SpendRan, RanKeeps DEF Ran
  <1>4. CASE Log
    <2>1. db' = AddLog(db, Top.self) /\ Spend(Cost.log)
      BY <1>4 DEF Log
    <2>2. Cost.log \in Int
      BY AmountsAssumption
    <2>3. Fine(db')
      BY <1>2, <2>1, FineNoted
    <2> QED BY <1>1, <2>1, <2>2, <2>3, SpendRan, RanKeeps DEF Ran
  <1>5. ASSUME NEW v \in SlotValues, Sstore(v) PROVE SupplyInv'
    <2> DEFINE c == AddToAccessList(db, {<<"slot", Top.self>>})
               charge == SstoreGas(db, Top.self, v)
               e == AddRefund(c, charge.refund)
    <2>1. db' = Put(e, <<"slot", Top.self>>, v) /\ Spend(charge.gas)
      BY <1>5 DEF Sstore
    <2>2. charge.gas \in Int /\ charge.refund \in Int
      BY SstoreCharge
    <2> HIDE DEF charge
    <2>3. Fine(c)
      BY <1>2, FineNoted
    <2> HIDE DEF c
    <2>4. Fine(e)
      BY <2>2, <2>3, FineRefund
    <2> HIDE DEF e
    <2>5. Fine(db')
      BY <2>1, <2>4, FineAccount
    <2> QED BY <1>1, <2>1, <2>2, <2>5, SpendRan, RanKeeps DEF Ran
  <1> QED BY <1>3, <1>4, <1>5

LEMMA KeptReserve == ASSUME NEW gas \in Int PROVE AllButReserve(gas) \in Int
  <1>1. GasReserve \in Nat /\ GasReserve > 0
    BY AmountsAssumption
  <1>2. gas \div GasReserve \in Int
    BY <1>1
  <1> QED BY <1>2 DEF AllButReserve

LEMMA CallSupply ==
  ASSUME FrameInv, SupplyInv, NEW kind \in {"call", "callcode", "delegate", "static"}, NEW a,
         NEW value \in Int, NEW input, Priced(input), CallOp(kind, a, value, input)
  PROVE  SupplyInv'
  <1> DEFINE cost == CallCost(db, kind, a, value)
             given == AllButReserve(Top.gas - cost)
             granted == given + (IF value # 0 THEN Cost.stipend ELSE 0)
             noted == AddToAccessList(db, {a})
             y == frames[Len(frames)].gas - cost - given
             rest == [frames EXCEPT ![Len(frames)].gas = y]
             o == CASE kind = "call" -> Call(noted, Top.self, a, granted, value, input)
                    [] kind = "callcode" -> CallCode(noted, Top.self, a, granted, value, input)
                    [] kind = "delegate" -> DelegateCall(noted, Top.self, Top.sender, a, granted, input)
                    [] kind = "static" -> StaticCall(noted, Top.self, a, granted, input)
  <1>1. frames # << >> /\ Enter(rest, o) /\ UNCHANGED <<disk, cache, phase, tx>>
    BY DEF CallOp, Running, block
  <1>2. /\ Top.gas \in Int /\ FramesOn(db, frames) /\ Gased(frames) /\ Fine(db) /\ left \in Int /\ height \in Nat
    BY <1>1, TopGas
  <1>3. cost \in Int
    BY AmountsAssumption DEF CallCost
  <1> HIDE DEF cost
  <1>4. given \in Int
    BY <1>2, <1>3, KeptReserve
  <1> HIDE DEF given
  <1>5. granted \in Int /\ y \in Int
    <2>1. Cost.stipend \in Int
      BY AmountsAssumption
    <2>2. granted \in Int
      BY <1>4, <2>1
    <2>3. y \in Int
      BY <1>2, <1>3, <1>4 DEF Top
    <2> QED BY <2>2, <2>3
  <1> HIDE DEF granted, y
  <1>6. Gased(rest) /\ FramesOn(db, rest)
    BY <1>1, <1>2, <1>5, GasSet
  <1>7. Fine(noted)
    BY <1>2, FineNoted
  <1> HIDE DEF rest, noted
  <1>8. /\ FineOutcome(Call(noted, Top.self, a, granted, value, input))
        /\ FineOutcome(CallCode(noted, Top.self, a, granted, value, input))
        /\ FineOutcome(DelegateCall(noted, Top.self, Top.sender, a, granted, input))
        /\ FineOutcome(StaticCall(noted, Top.self, a, granted, input))
    BY <1>2, <1>5, <1>7, FineCalls
  <1>9. FineOutcome(o)
    BY <1>8
  <1> HIDE DEF o
  <1>10. Ran
    BY <1>1, <1>2, <1>6, <1>9, EnterSupply DEF Ran
  <1> QED BY <1>1, <1>10, RanKeeps

LEMMA CreateSupply ==
  ASSUME FrameInv, SupplyInv, NEW kind, NEW value \in Int, CreateOp(kind, value)
  PROVE  SupplyInv'
  <1> DEFINE given == AllButReserve(Top.gas - Cost.create)
             y == frames[Len(frames)].gas - Cost.create - given
             rest == [frames EXCEPT ![Len(frames)].gas = y]
             o == Deploy(kind, db, Top.self, given, value)
  <1>1. frames # << >> /\ Enter(rest, o) /\ UNCHANGED <<disk, cache, phase, tx>>
    BY DEF CreateOp, Running, block
  <1>2. /\ Top.gas \in Int /\ FramesOn(db, frames) /\ Gased(frames) /\ Fine(db) /\ left \in Int
    BY <1>1, TopGas
  <1>3. Cost.create \in Int
    BY AmountsAssumption
  <1>4. given \in Int
    BY <1>2, <1>3, KeptReserve
  <1> HIDE DEF given
  <1>5. y \in Int
    BY <1>2, <1>3, <1>4 DEF Top
  <1> HIDE DEF y
  <1>6. Gased(rest) /\ FramesOn(db, rest)
    BY <1>1, <1>2, <1>5, GasSet
  <1>7. FineOutcome(o)
    BY <1>2, <1>4, FineDeploy
  <1> HIDE DEF rest, o
  <1>8. Ran
    BY <1>1, <1>2, <1>6, <1>7, EnterSupply DEF Ran
  <1> QED BY <1>1, <1>8, RanKeeps

LEMMA BeginSupply ==
  ASSUME FrameInv, SupplyInv, NEW from, NEW to, NEW value \in Int, NEW input, Priced(input),
         BeginTx(from, to, value, input)
  PROVE  SupplyInv'
  <1> DEFINE fresh == PrepareAccessList(db, {from, Precompile} \cup ({to} \ {None}))
             gas == TxGas - NetFee
             o == IF to = None THEN Deploy("create", fresh, from, gas, value)
                  ELSE Call(fresh, from, to, gas, value, input)
  <1>1. /\ Enter(<< >>, o) /\ UNCHANGED <<disk, cache>>
        /\ tx' = [from |-> from, gas |-> gas, price |-> GasPrice]
    BY DEF BeginTx
  <1>2. FramesOn(db, << >>) /\ Gased(<< >>)
    <2>1. frames = << >> /\ FramesOn(db, frames) /\ Gased(frames)
      BY DEF FrameInv, SupplyInv, BeginTx
    <2> QED BY <2>1
  <1>3. Fine(db) /\ height \in Nat /\ left \in Int /\ cache.price \in Int
    BY DEF FrameInv, SupplyInv
  <1>4. gas \in Int /\ GasPrice \in Int
    BY <1>3, AmountsAssumption, NativesAssumption DEF GasPrice
  <1> HIDE DEF gas
  <1>5. Fine(fresh)
    BY <1>3, FineNoted
  <1> HIDE DEF fresh
  <1>6. FineOutcome(o)
    BY <1>3, <1>4, <1>5, FineDeploy, FineCalls
  <1> HIDE DEF o
  <1>7. Fine(db') /\ Gased(frames') /\ left' \in Int
    BY <1>1, <1>2, <1>3, <1>6, EnterSupply
  <1>8. tx'.gas \in Int /\ tx'.price \in Int
    <2>1. tx'.gas = gas /\ tx'.price = GasPrice
      BY <1>1
    <2> QED BY <1>4, <2>1
  <1>9. Fine(db)'
    BY <1>1, <1>7, FineNext
  <1> QED BY <1>1, <1>3, <1>7, <1>8, <1>9 DEF SupplyInv, Gased

LEMMA CallersGased ==
  ASSUME NEW d, NEW fs, FramesOn(d, fs), fs # << >>, Gased(fs)
  PROVE  FramesOn(d, Callers(fs)) /\ Gased(Callers(fs))
  <1>1. /\ FramesOn(d, Callers(fs)) /\ Len(Callers(fs)) = Len(fs) - 1 /\ Len(fs) \in Nat
        /\ \A i \in 1..(Len(fs) - 1) : Callers(fs)[i] = fs[i]
    BY CallersOn, FramesLength
  <1>2. \A i \in 1..(Len(fs) - 1) : i \in 1..Len(fs)
    BY <1>1
  <1> QED BY <1>1, <1>2 DEF Gased

LEMMA LeaveSupply ==
  ASSUME FrameInv, SupplyInv, frames # << >>, NEW d, Fine(d), NEW gas \in Int, NEW res, Leave(d, gas, res),
         res # "ok" => d = db, UNCHANGED block
  PROVE  SupplyInv'
  <1>1. /\ FramesOn(db, frames) /\ Gased(frames) /\ Fine(db) /\ left \in Int
        /\ Top.snap \in Nat /\ Top.snap + 1 <= Len(db)
    BY TopGas
  <1> DEFINE x == IF res = "fault" THEN 0 ELSE gas
  <1>2. GiveBack(Callers(frames), x) /\ db' = IF res = "ok" THEN d ELSE RevertToSnapshot(d, Top.snap)
    BY DEF Leave, Callers
  <1>3. x \in Int
    OBVIOUS
  <1> HIDE DEF x
  <1>4. Gased(frames') /\ left' \in Int
    BY <1>1, <1>2, <1>3, CallersGased, GaveBack
  <1>5. Fine(db')
    <2>1. CASE res = "ok"
      BY <1>2, <2>1
    <2>2. CASE res # "ok"
      <3> DEFINE m == Top.snap
      <3>1. m \in Nat /\ m + 1 <= Len(db) /\ db' = RevertToSnapshot(db, m)
        BY <1>1, <1>2, <2>2
      <3> HIDE DEF m
      <3> QED BY <1>1, <3>1, FineRevert
    <2> QED BY <2>1, <2>2
  <1> QED BY <1>4, <1>5, RanKeeps DEF Ran, block

LEMMA FinishSupply ==
  ASSUME FrameInv, SupplyInv, frames # << >>, NEW d, Fine(d), NEW gas \in Int, NEW code, Finish(d, gas, code),
         UNCHANGED block
  PROVE  SupplyInv'
  <1>1. CASE Top.kind \in {"create", "create2"}
    <2> DEFINE deposit == IF code = "code" THEN Cost.codeDeposit ELSE 0
               e == SetCode(d, Top.self, code)
               x == gas - deposit
    <2>1. Leave(e, x, "ok")
      BY <1>1 DEF Finish
    <2>2. x \in Int
      <3>1. Cost.codeDeposit \in Int
        BY AmountsAssumption
      <3> QED BY <3>1
    <2>3. Fine(e)
      BY FineAccount
    <2> HIDE DEF e, x
    <2> QED BY <2>1, <2>2, <2>3, LeaveSupply
  <1>2. CASE Top.kind \notin {"create", "create2"}
    <2>1. Leave(d, gas, "ok")
      BY <1>2 DEF Finish
    <2> QED BY <2>1, LeaveSupply
  <1> QED BY <1>1, <1>2

LEMMA EndSupply ==
  ASSUME FrameInv, SupplyInv
  PROVE  /\ \A code : Return(code) => SupplyInv'
         /\ Revert => SupplyInv'
         /\ Fault => SupplyInv'
         /\ \A to : Selfdestruct(to) => SupplyInv'
  <1>1. frames # << >> => Top.gas \in Int
    BY TopGas
  <1>2. Fine(db)
    BY DEF SupplyInv
  <1>3. ASSUME NEW code, Return(code) PROVE SupplyInv'
    <2>1. Finish(db, Top.gas, code) /\ frames # << >> /\ UNCHANGED block
      BY <1>3 DEF Return, Running
    <2> QED BY <1>1, <1>2, <2>1, FinishSupply
  <1>4. ASSUME Revert PROVE SupplyInv'
    <2>1. Leave(db, Top.gas, "reverted") /\ frames # << >> /\ UNCHANGED block
      BY <1>4 DEF Revert, Running
    <2> QED BY <1>1, <1>2, <2>1, LeaveSupply
  <1>5. ASSUME Fault PROVE SupplyInv'
    <2>1. Leave(db, Top.gas, "fault") /\ frames # << >> /\ UNCHANGED block
      BY <1>5 DEF Fault, Running
    <2> QED BY <1>1, <1>2, <2>1, LeaveSupply
  <1>6. ASSUME NEW to, Selfdestruct(to) PROVE SupplyInv'
    <2> DEFINE noted == AddToAccessList(db, {to})
               cost == Cost.destruct + (IF InAccessList(db, to) THEN 0 ELSE Cost.cold)
                         + (IF Empty(db, to) /\ GetBalance(db, Top.self) # 0 THEN Cost.newAccount ELSE 0)
               given == AddTokens(noted, to, GetBalance(db, Top.self))
               e == Destroy(given, Top.self)
               x == Top.gas - cost
    <2>1. Finish(e, x, "empty") /\ frames # << >> /\ UNCHANGED block
      BY <1>6 DEF Selfdestruct, Running
    <2>2. x \in Int
      <3>1. Cost.destruct \in Int /\ Cost.cold \in Int /\ Cost.newAccount \in Int
        BY AmountsAssumption
      <3>2. cost \in Int
        BY <3>1
      <3> HIDE DEF cost
      <3> QED BY <1>1, <2>1, <3>2
    <2>3. GetBalance(db, Top.self) \in Int
      BY <1>2, FineItems
    <2>4. Fine(noted)
      BY <1>2, FineNoted
    <2> HIDE DEF noted
    <2>5. Fine(given)
      BY <2>3, <2>4, FineTokens
    <2> HIDE DEF given
    <2>6. Fine(e)
      BY <2>5, FineAccount
    <2> HIDE DEF e, x
    <2> QED BY <2>1, <2>2, <2>6, FinishSupply
  <1> QED BY <1>3, <1>4, <1>5, <1>6

LEMMA FinishTxSupply ==
  ASSUME FrameInv, SupplyInv, FinishTx
  PROVE  SupplyInv'
  <1> DEFINE used == TxGas - left
             nonced == SetNonce(db, tx.from, GetNonce(db, tx.from) + 1)
             fee == NetFee * tx.price
             primary == AddTokens(nonced, Coinbase, fee)
             share == (tx.gas - left) * tx.price
             shared == IF tx.gas > left
                       THEN AddTokens(primary, CommitteeAddress(CommitteeAt(<< >>, height + 1)), share)
                       ELSE primary
             refund == IF Current(db).fund > used \div Cost.refundQuotient
                       THEN used \div Cost.refundQuotient ELSE Current(db).fund
             price == (used - refund) * tx.price
             paid == AddTokens(shared, tx.from, -price)
  <1>1. Fine(db) /\ left \in Int /\ tx.gas \in Int /\ tx.price \in Int /\ cache.price \in Int /\ Gased(frames)
    BY DEF SupplyInv, FinishTx
  <1>2. db' = Commit(paid) /\ phase' = "block" /\ left' = 0 /\ UNCHANGED <<disk, cache, frames>>
    BY DEF FinishTx
  <1>3. TxGas \in Int /\ NetFee \in Int /\ Cost.refundQuotient \in Nat /\ Cost.refundQuotient > 0
    BY AmountsAssumption
  <1>4. fee \in Int /\ share \in Int
    BY <1>1, <1>3
  <1>5. used \in Int /\ used \div Cost.refundQuotient \in Int
    BY <1>1, <1>3
  <1>6. refund \in Int
    BY <1>1, <1>5, FineDB
  <1> HIDE DEF used, refund, fee, share
  <1>7. price \in Int
    BY <1>1, <1>5, <1>6
  <1> HIDE DEF price
  <1>8. -price \in Int
    BY <1>7
  <1>9. Fine(nonced)
    BY <1>1, FineAccount
  <1> HIDE DEF nonced
  <1>10. Fine(primary)
    BY <1>4, <1>9, FineTokens
  <1> HIDE DEF primary
  <1>11. Fine(shared)
    BY <1>4, <1>10, FineTokens
  <1> HIDE DEF shared
  <1>12. Fine(paid)
    BY <1>8, <1>11, FineTokens
  <1> HIDE DEF paid
  <1>13. Fine(db')
    BY <1>2, <1>12, FineCommit
  <1>14. Fine(db)'
    BY <1>2, <1>13, FineNext
  <1> QED BY <1>1, <1>2, <1>14 DEF SupplyInv, Gased

(* The items on the disk.                                                  *)
LEMMA DiskItem ==
  \A key : /\ key \in DOMAIN Items(<< >>, 0) <=> key \in DOMAIN disk /\ disk[key] # None
           /\ key \in DOMAIN Items(<< >>, 0) => Items(<< >>, 0)[key] = disk[key]
  <1>1. ASSUME NEW key
        PROVE  /\ key \in DOMAIN Items(<< >>, 0) <=> key \in DOMAIN disk /\ disk[key] # None
               /\ key \in DOMAIN Items(<< >>, 0) => Items(<< >>, 0)[key] = disk[key]
    <2>1. Writers(<< >>, 0, key) = {}
      BY DEF Writers
    <2>2. ItemAt(<< >>, 0, key) = IF key \in DOMAIN disk THEN disk[key] ELSE None
      BY <2>1, ItemOnDisk
    <2>3. /\ key \in DOMAIN Items(<< >>, 0) <=> ItemAt(<< >>, 0, key) # None
          /\ key \in DOMAIN Items(<< >>, 0) => Items(<< >>, 0)[key] = ItemAt(<< >>, 0, key)
      BY ItemsHold
    <2> QED BY <2>2, <2>3
  <1> QED BY <1>1

LEMMA FineDisk == ASSUME NEW d, Fine(d) PROVE Balanced(Items(<< >>, 0))
  <1>1. \A i \in 1..0 : << >>[i] = d[i]
    OBVIOUS
  <1>2. Items(<< >>, 0) = Items(d, 0)
    BY <1>1, ItemsBelow
  <1>3. 0 \in 0..Len(d)
    BY FineDB
  <1> QED BY <1>2, <1>3 DEF Fine

LEMMA FineEmpty == Balanced(Items(<< >>, 0)) => Fine(<< EmptyStore >>)
  <1> SUFFICES ASSUME Balanced(Items(<< >>, 0)) PROVE Fine(<< EmptyStore >>)
    OBVIOUS
  <1> DEFINE e == << EmptyStore >>
  <1>1. IsDB(e) /\ DOMAIN e[1].dao = {}
    BY EmptyFresh
  <1>2. Len(e) = 1 /\ e[1].fund = 0
    BY DEF EmptyStore
  <1> HIDE DEF e
  <1>3. Items(e, 0) = Items(<< >>, 0)
    <2>1. \A i \in 1..0 : e[i] = << >>[i]
      OBVIOUS
    <2> QED BY <2>1, ItemsBelow
  <1>4. Items(e, 1) = Items(e, 0)
    <2>1. ASSUME NEW k PROVE ItemAt(e, 1, k) = ItemAt(e, 0, k)
      <3>1. k \notin DOMAIN e[1].dao
        BY <1>1
      <3>2. ItemAt(e, 1, k) = ItemAt(e, 1 - 1, k)
        BY <3>1, ItemBelow
      <3> QED BY <3>2
    <2> QED BY <2>1, ItemsSame
  <1>5. \A n \in 0..Len(e) : n = 0 \/ n = 1
    BY <1>2
  <1>6. \A n \in 1..Len(e) : n = 1
    BY <1>2
  <1>7. \A n \in 0..Len(e) : Balanced(Items(e, n))
    BY <1>3, <1>4, <1>5
  <1>8. Fine(e)
    BY <1>1, <1>2, <1>6, <1>7 DEF Fine
  <1> QED BY <1>8 DEF e

LEMMA CachePrice == ASSUME NEW d, GasPriceFromStorage(d) \in Int PROVE UpdateCache(d).price \in Int
  BY DEF UpdateCache, With

LEMMA DiskPrice == Balanced(Items(<< >>, 0)) => GasPriceFromStorage(<< >>) \in Int
  <1> SUFFICES ASSUME Balanced(Items(<< >>, 0)) PROVE GasPriceFromStorage(<< >>) \in Int
    OBVIOUS
  <1> DEFINE x == Items(<< >>, 0)
             k == <<"price">>
  <1>1. Item(<< >>, k) = IF k \in DOMAIN disk THEN disk[k] ELSE None
    BY OnDisk
  <1>2. k \in DOMAIN x => x[k] \in Int
    BY DEF Balanced
  <1>3. /\ k \in DOMAIN x <=> k \in DOMAIN disk /\ disk[k] # None
        /\ k \in DOMAIN x => x[k] = disk[k]
    BY DiskItem
  <1> HIDE DEF x
  <1>4. Item(<< >>, k) = None \/ Item(<< >>, k) \in Int
    BY <1>1, <1>2, <1>3
  <1> QED BY <1>4, NativesAssumption DEF GasPriceFromStorage

LEMMA BlockSupply ==
  ASSUME FrameInv, SupplyInv, StartBlock \/ PostPersist \/ StoreFails \/ Restart
  PROVE  SupplyInv'
  <1>1. Fine(db) /\ Balanced(Items(<< >>, 0)) /\ cache.price \in Int
    BY FineDisk DEF SupplyInv
  <1>2. Fine(db')
    <2>1. db' = db \/ db' = << EmptyStore >>
      BY DEF StartBlock, PostPersist, StoreFails, Restart
    <2> QED BY <1>1, <2>1, FineEmpty
  <1>3. disk' = disk /\ left' = left /\ frames' = frames /\ phase' # "exec"
    BY DEF StartBlock, PostPersist, StoreFails, Restart
  <1>4. Fine(db)'
    BY <1>2, <1>3, FineNext
  <1>5. cache'.price \in Int
    <2>1. CASE PostPersist
      <3>1. GasPriceFromStorage(db) \in Int
        BY <1>1, FineItems
      <3>2. cache' = UpdateCache(db)
        BY <2>1 DEF PostPersist
      <3> QED BY <3>1, <3>2, CachePrice
    <2>2. CASE Restart
      <3>1. GasPriceFromStorage(<< >>) \in Int
        BY <1>1, DiskPrice
      <3>2. cache' = UpdateCache(<< >>)
        BY <2>2 DEF Restart
      <3> QED BY <3>1, <3>2, CachePrice
    <2>3. CASE StartBlock \/ StoreFails
      <3>1. cache' = cache
        BY <2>3 DEF StartBlock, StoreFails
      <3> QED BY <1>1, <3>1
    <2> QED BY <2>1, <2>2, <2>3
  <1> QED BY <1>3, <1>4, <1>5 DEF SupplyInv, Gased

LEMMA PersistSupply ==
  ASSUME FrameInv, SupplyInv, Persist
  PROVE  SupplyInv'
  <1> DEFINE x == Items(db, Len(db))
             y == Items(<< >>, 0)'
  <1>1. Fine(db) /\ IsDB(db) /\ Balanced(x)
    BY FineDB DEF SupplyInv
  <1>2. disk' = x /\ db' = << EmptyStore >> /\ left' = left /\ frames' = frames /\ phase' # "exec" /\ cache' = cache
    BY DEF Persist, Merged
  <1>3. \A key : key \in DOMAIN x => x[key] # None
    BY <1>1, ItemIs
  <1>4. \A key : /\ key \in DOMAIN y <=> key \in DOMAIN disk' /\ disk'[key] # None
                 /\ key \in DOMAIN y => y[key] = disk'[key]
    <2>1. (\A key : /\ key \in DOMAIN Items(<< >>, 0) <=> key \in DOMAIN disk /\ disk[key] # None
                    /\ key \in DOMAIN Items(<< >>, 0) => Items(<< >>, 0)[key] = disk[key])'
      BY DiskItem, PTL
    <2> QED BY <2>1
  <1>5. Balanced(y)
    <2> HIDE DEF x, y
    <2>1. <<"code">>[1] \notin {"bal", "supply"} /\ <<"code">>[1] # "price"
      OBVIOUS
    <2>2. \A key : key # <<"code">> =>
            /\ key \in DOMAIN y <=> key \in DOMAIN x
            /\ key \in DOMAIN x => y[key] = x[key]
      BY <1>2, <1>3, <1>4
    <2> QED BY <1>1, <2>1, <2>2, BalancedOther
  <1>6. Balanced(y) => Fine(<< EmptyStore >>)'
    <2>1. (Balanced(Items(<< >>, 0)) => Fine(<< EmptyStore >>))'
      BY FineEmpty, PTL
    <2> QED BY <2>1
  <1>7. Fine(db)'
    BY <1>2, <1>5, <1>6
  <1> QED BY <1>2, <1>7 DEF SupplyInv, Gased

---------------------------------------------------------------------------
(* The genesis block *)

LEMMA ImageFinite == ASSUME NEW S, IsFiniteSet(S), NEW tag PROVE IsFiniteSet({<<tag, c>> : c \in S})
  <1> DEFINE T == {<<tag, c>> : c \in S}
             f == [c \in S |-> <<tag, c>>]
  <1>1. f \in Surjection(S, T)
    BY DEF Surjection
  <1> HIDE DEF f, T
  <1>2. IsFiniteSet(T)
    BY <1>1, FS_Surjection
  <1> QED BY <1>2 DEF T

(* Equal balances of some accounts.                                        *)
LEMMA SumEqual ==
  ASSUME NEW S, IsFiniteSet(S), NEW f, NEW K \in Nat, \A c \in S : f[<<"bal", c>>] = K
  PROVE  Sum(f, {<<"bal", c>> : c \in S}) = Cardinality(S) * K
  <1> DEFINE Keys(C) == {<<"bal", c>> : c \in C}
             Bad == {C \in SUBSET S : Sum(f, Keys(C)) # Cardinality(C) * K}
  <1> SUFFICES ASSUME Bad # {} PROVE FALSE
    OBVIOUS
  <1>1. PICK C \in Bad : \A D \in Bad : Cardinality(C) <= Cardinality(D)
    <2>1. Bad \subseteq SUBSET S
      OBVIOUS
    <2> HIDE DEF Bad
    <2> QED BY <2>1, SmallestIs
  <1>2. C \in SUBSET S /\ Sum(f, Keys(C)) # Cardinality(C) * K /\ IsFiniteSet(C)
    BY FS_Subset
  <1>3. CASE C = {}
    <2>1. Keys(C) = {} /\ Cardinality(C) = 0
      BY <1>3, FS_EmptySet
    <2>2. Sum(f, Keys(C)) = 0
      BY <2>1, SumNone
    <2> QED BY <1>2, <2>1, <2>2
  <1>4. CASE C # {}
    <2>1. PICK c \in C : TRUE
      BY <1>4
    <2> DEFINE D == C \ {c}
               x == <<"bal", c>>
    <2>2. /\ IsFiniteSet(D) /\ Cardinality(C) \in Nat /\ Cardinality(D) \in Nat
          /\ Cardinality(D) + 1 = Cardinality(C)
      BY <1>2, SmallerIs
    <2>3. Sum(f, Keys(D)) = Cardinality(D) * K
      <3>1. D \in SUBSET S /\ ~(Cardinality(C) <= Cardinality(D))
        BY <2>2
      <3> QED BY <1>1, <3>1
    <2>4. Keys(D) = Keys(C) \ {x} /\ x \in Keys(C)
      OBVIOUS
    <2>5. \A k \in Keys(C) : f[k] \in Int
      BY <1>2
    <2>6. IsFiniteSet(Keys(C))
      BY <1>2, ImageFinite
    <2> HIDE DEF Keys, D
    <2>7. Sum(f, Keys(C)) = f[x] + Sum(f, Keys(D))
      BY <2>4, <2>5, <2>6, SumOut
    <2>8. f[x] = K
      BY <1>2
    <2>9. Cardinality(C) * K = K + Cardinality(D) * K
      <3> DEFINE n == Cardinality(D)
      <3>1. n \in Nat /\ Cardinality(C) = n + 1
        BY <2>2
      <3> HIDE DEF n
      <3>2. (n + 1) * K = K + n * K
        BY <3>1
      <3> QED BY <3>1, <3>2 DEF n
    <2> QED BY <1>2, <2>3, <2>7, <2>8, <2>9
  <1> QED BY <1>3, <1>4

LEMMA GenesisBalanced == ASSUME disk = Genesis PROVE Balanced(Items(<< >>, 0))
  <1> DEFINE x == Items(<< >>, 0)
             first == CommitteeAddress(Committee0)
             A == Contracts \cup {User, first}
             B == {<<"bal", a>> : a \in A}
             u == <<"bal", User>>
             m == <<"bal", first>>
             R == {<<"bal", c>> : c \in Contracts}
             F == TxGas * DefaultPrice * 2
             Z == Cardinality(Contracts)
  <1>1. IsFiniteSet(Contracts) /\ Z \in Nat
    BY ContractsAssumption, FS_CardinalityType
  <1>2. User \notin Contracts /\ first \notin Contracts /\ User # first
    <2>1. first[1] \in {"node", "committee"} /\ User[1] = "user"
      BY DEF CommitteeAddress, Account, User
    <2> HIDE DEF first
    <2> QED BY <2>1, ContractsAssumption
  <1>3. UserBalance \in Nat /\ ContractBalance \in Nat /\ F \in Nat
    BY AmountsAssumption, NativesAssumption
  <1> DEFINE S == F + UserBalance + Z * ContractBalance
  <1>4. S \in Int
    BY <1>1, <1>3
  <1> HIDE DEF F, first
  <1>5. /\ DOMAIN disk = B \cup {<<"code", c>> : c \in Contracts} \cup {<<"slot", c>> : c \in Contracts}
                           \cup {<<"role", "committee", 0>>, <<"supply">>}
        /\ \A a \in A : disk[<<"bal", a>>] = GenesisBalance(a)
        /\ disk[<<"supply">>] = S
    BY DEF Genesis, F, first
  <1>6. /\ GenesisBalance(User) = UserBalance /\ GenesisBalance(first) = F
        /\ \A c \in Contracts : GenesisBalance(c) = ContractBalance
    BY <1>2 DEF GenesisBalance, F
  <1>7. None \notin Int
    BY AmountsAssumption
  <1>8. \A key : /\ key \in DOMAIN x <=> key \in DOMAIN disk /\ disk[key] # None
                 /\ key \in DOMAIN x => x[key] = disk[key]
    BY DiskItem
  <1> HIDE DEF x, S
  <1>9. IsFiniteSet(A)
    <2>1. IsFiniteSet(Contracts \cup {User})
      BY <1>1, FS_AddElement
    <2>2. IsFiniteSet((Contracts \cup {User}) \cup {first})
      BY <2>1, FS_AddElement
    <2>3. (Contracts \cup {User}) \cup {first} = A
      OBVIOUS
    <2> QED BY <2>2, <2>3
  <1>10. IsFiniteSet(DOMAIN x)
    <2> DEFINE T == {<<"code", c>> : c \in Contracts}
               U == {<<"slot", c>> : c \in Contracts}
               V == {<<"role", "committee", 0>>, <<"supply">>}
    <2>1. IsFiniteSet(B) /\ IsFiniteSet(T) /\ IsFiniteSet(U)
      BY <1>1, <1>9, ImageFinite
    <2>2. IsFiniteSet(V)
      <3>1. IsFiniteSet({<<"supply">>})
        BY FS_Singleton
      <3>2. IsFiniteSet({<<"supply">>} \cup {<<"role", "committee", 0>>})
        BY <3>1, FS_AddElement
      <3>3. {<<"supply">>} \cup {<<"role", "committee", 0>>} = V
        OBVIOUS
      <3> QED BY <3>2, <3>3
    <2> HIDE DEF B, T, U, V
    <2>3. IsFiniteSet(B \cup T \cup U \cup V)
      BY <2>1, <2>2, FS_Union
    <2>4. DOMAIN x \subseteq B \cup T \cup U \cup V
      BY <1>5, <1>8 DEF B, T, U, V
    <2> QED BY <2>3, <2>4, FS_Subset
  <1>11. \A a \in A : disk[<<"bal", a>>] \in Int
    <2>1. \A a \in A : a = User \/ a = first \/ a \in Contracts
      OBVIOUS
    <2>2. \A a \in A : GenesisBalance(a) \in Int
      BY <1>3, <1>6, <2>1
    <2> HIDE DEF A
    <2> QED BY <1>5, <2>2
  <1>12. Bals(x) = B
    <2>1. ASSUME NEW key \in B PROVE key \in Bals(x)
      BY <1>5, <1>7, <1>8, <1>11, <2>1 DEF Bals
    <2>2. ASSUME NEW key \in Bals(x) PROVE key \in B
      <3>1. key \in DOMAIN disk /\ key[1] = "bal"
        BY <1>8 DEF Bals
      <3> QED BY <1>5, <3>1
    <2> QED BY <2>1, <2>2
  <1>13. \A key \in B : x[key] \in Int
    BY <1>8, <1>11, <1>12 DEF Bals
  <1>14. Supply \in DOMAIN x /\ x[Supply] = S
    BY <1>4, <1>5, <1>7, <1>8 DEF Supply
  <1>15. ASSUME NEW key \in DOMAIN x, key[1] \in {"bal", "supply", "price"} PROVE x[key] \in Int
    <2>1. key \in DOMAIN disk
      BY <1>8
    <2>2. key \in B \/ key = Supply
      BY <1>5, <1>15, <2>1 DEF Supply
    <2> QED BY <1>4, <1>13, <1>14, <2>2
  <1>16. u \in B /\ m \in B /\ u # m /\ (B \ {u}) \ {m} = R
    BY <1>2
  <1>17. x[u] = UserBalance /\ x[m] = F /\ \A c \in Contracts : x[<<"bal", c>>] = ContractBalance
    <2>1. \A a \in A : x[<<"bal", a>>] = GenesisBalance(a)
      <3>1. \A a \in A : <<"bal", a>> \in DOMAIN x
        BY <1>12 DEF Bals
      <3> QED BY <1>5, <1>8, <3>1
    <2> QED BY <1>6, <2>1
  <1>18. IsFiniteSet(B) /\ IsFiniteSet(B \ {u})
    <2>1. IsFiniteSet(B)
      BY <1>9, ImageFinite
    <2> HIDE DEF B
    <2> QED BY <2>1, FS_Subset
  <1>19. Sum(x, R) = Z * ContractBalance
    BY <1>1, <1>3, <1>17, SumEqual
  <1> HIDE DEF B, R, u, m
  <1>20. Sum(x, B) = x[u] + Sum(x, B \ {u})
    BY <1>13, <1>16, <1>18, SumOut
  <1>21. Sum(x, B \ {u}) = x[m] + Sum(x, R)
    <2>1. m \in B \ {u} /\ \A key \in B \ {u} : x[key] \in Int
      BY <1>13, <1>16
    <2> QED BY <1>16, <1>18, <2>1, SumOut
  <1>22. Sum(x, B) = S
    <2> DEFINE W == Z * ContractBalance
    <2>1. W \in Nat
      BY <1>1, <1>3
    <2>2. S = F + UserBalance + W /\ Sum(x, R) = W
      BY <1>19 DEF S
    <2> HIDE DEF W
    <2> QED BY <1>3, <1>17, <1>20, <1>21, <2>1, <2>2
  <1> QED BY <1>10, <1>12, <1>14, <1>15, <1>22 DEF Balanced, x

LEMMA InitSupply == ASSUME Init PROVE SupplyInv
  <1>1. disk = Genesis /\ db = << EmptyStore >> /\ frames = << >> /\ left = 0 /\ phase = "idle" /\ cache = UpdateCache(<< >>)
    BY DEF Init
  <1>2. Balanced(Items(<< >>, 0))
    BY <1>1, GenesisBalanced
  <1>3. Fine(db)
    BY <1>1, <1>2, FineEmpty
  <1>4. cache.price \in Int
    BY <1>1, <1>2, DiskPrice, CachePrice
  <1>5. Gased(frames)
    BY <1>1 DEF Gased
  <1> QED BY <1>1, <1>3, <1>4, <1>5 DEF SupplyInv

LEMMA SupplyStep == ASSUME FrameInv, SupplyInv, [Next]_vars PROVE SupplyInv'
  <1>1. CASE Sload \/ Log \/ \E v \in SlotValues : Sstore(v)
    BY <1>1, LocalSupply
  <1>2. CASE Revert \/ Fault
    BY <1>2, EndSupply
  <1>3. \A v \in Values : v \in Int
    BY AmountsAssumption
  <1>4. \A input \in NativeCalls \cup ContractNativeCalls \cup {[method |-> "initialize"]} : Priced(input)
    BY AmountsAssumption DEF NativeCalls, ContractNativeCalls, Priced
  <1>5. CASE \E kind \in {"call", "callcode", "delegate", "static"}, a \in Targets, v \in Values :
               \E input \in IF a = Native THEN ContractNativeCalls ELSE {[method |-> "initialize"]} :
                 CallOp(kind, a, v, input)
    <2>1. PICK kind \in {"call", "callcode", "delegate", "static"}, a \in Targets, v \in Values,
               input \in ContractNativeCalls \cup {[method |-> "initialize"]} : CallOp(kind, a, v, input)
      BY <1>5
    <2> QED BY <1>3, <1>4, <2>1, CallSupply
  <1>6. CASE \E kind \in {"create", "create2"}, v \in Values : CreateOp(kind, v)
    BY <1>3, <1>6, CreateSupply
  <1>7. CASE \E to \in {User, Nobody} : Selfdestruct(to)
    BY <1>7, EndSupply
  <1>8. CASE \E code \in {"empty", "code"} : Return(code)
    BY <1>8, EndSupply
  <1>9. CASE UserTx
    <2>1. PICK to \in Targets \cup {None}, v \in Values, input \in ContractNativeCalls : BeginTx(User, to, v, input)
      BY <1>9 DEF UserTx
    <2> QED BY <1>3, <1>4, <2>1, BeginSupply
  <1>10. CASE CommitteeTx
    <2>1. PICK input \in NativeCalls : BeginTx(CommitteeAddress(CommitteeAt(db, height + 1)), Native, 0, input)
      BY <1>10 DEF CommitteeTx
    <2> QED BY <1>4, <2>1, BeginSupply
  <1>11. CASE FinishTx
    BY <1>11, FinishTxSupply
  <1>12. CASE StartBlock \/ PostPersist \/ StoreFails \/ Restart
    BY <1>12, BlockSupply
  <1>13. CASE Persist
    BY <1>13, PersistSupply
  <1>14. CASE UNCHANGED vars
    <2>1. UNCHANGED <<disk, db, frames, left, cache, phase, tx>>
      BY <1>14 DEF vars
    <2>2. Ran
      BY <2>1 DEF Ran, SupplyInv
    <2> QED BY <2>1, <2>2, RanKeeps
  <1> QED BY <1>1, <1>2, <1>5, <1>6, <1>7, <1>8, <1>9, <1>10, <1>11, <1>12, <1>13, <1>14 DEF Next

(* The total supply is the sum of the balances in every state that code    *)
(* running in a block can see: addTokens (sai.go) moves both together      *)
(* whatever transfers, fees, refunds, self-destructions and reverted       *)
(* frames do, for every configuration of accounts, amounts and prices.     *)
THEOREM SupplyExact == Spec => []SupplyIsSum
  <1>1. Init => SupplyInv
    BY InitSupply
  <1>2. FrameInv /\ SupplyInv /\ [Next]_vars => SupplyInv'
    BY SupplyStep
  <1>3. SupplyInv => SupplyIsSum
    <2> SUFFICES ASSUME SupplyInv PROVE SupplyIsSum
      OBVIOUS
    <2> DEFINE x == Items(db, Len(db))
    <2>1. Balanced(x)
      BY FineDB DEF SupplyInv
    <2>2. Seen(db, Len(db)).items = x
      BY DEF Seen
    <2> HIDE DEF x
    <2>3. x[<<"supply">>] = Sum(x, {key \in DOMAIN x : key[1] = "bal"})
      BY <2>1 DEF Balanced, Supply, Bals
    <2> QED BY <2>2, <2>3, SupplySum
  <1> QED BY <1>1, <1>2, <1>3, FramesHold, PTL DEF Spec
=============================================================================
