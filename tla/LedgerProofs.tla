---------------------------- MODULE LedgerProofs ----------------------------
(***************************************************************************)
(* Proofs about Ledger: whatever is flushed, refused by the disk or lost   *)
(* in a crash, the header list, the blocks and the state the node works    *)
(* with are the ones of the chain, and the disk can be started from.       *)
(***************************************************************************)
EXTENDS Ledger, FiniteSetTheorems, SequenceTheorems, TLAPS

-----------------------------------------------------------------------------
(* Layers of the store.                                                    *)

Opt == Nat \cup {None}
Layers == [curBlock : Opt, curHeader : Opt, block : [Heights -> {NoBlock, "header", "block"}],
           hashes : SUBSET Nat, state : Opt, root : [Heights -> Opt]]

LEMMA SameLayer ==
  ASSUME NEW a \in Layers, NEW b \in Layers,
         a.curBlock = b.curBlock, a.curHeader = b.curHeader, a.block = b.block,
         a.hashes = b.hashes, a.state = b.state, a.root = b.root
  PROVE  a = b
  BY DEF Layers

LEMMA EmptyLayer == Empty \in Layers /\ Empty.curBlock = None
  BY DEF Layers, Empty, Opt, None

LEMMA OverLayer ==
  ASSUME NEW a \in Layers, NEW b \in Layers
  PROVE  Over(a, b) \in Layers
  BY DEF Layers, Over, Newest

LEMMA OverEmpty ==
  ASSUME NEW a \in Layers
  PROVE  Over(a, Empty) = a
  <1> DEFINE b == Over(a, Empty)
  <1>1. b \in Layers
    BY OverLayer, EmptyLayer
  <1>2. a.block = b.block
    BY DEF Over, Empty, Layers
  <1>3. a.root = b.root
    BY DEF Over, Empty, Newest, Layers
  <1>4. /\ a.curBlock = b.curBlock /\ a.curHeader = b.curHeader
        /\ a.hashes = b.hashes /\ a.state = b.state
    BY DEF Over, Empty, Newest, Layers
  <1> HIDE DEF b
  <1>5. b = a
    BY <1>1, <1>2, <1>3, <1>4, SameLayer
  <1>6. QED
    BY <1>5 DEF b

LEMMA EmptyOver ==
  ASSUME NEW a \in Layers
  PROVE  Over(Empty, a) = a
  <1> DEFINE b == Over(Empty, a)
  <1>1. b \in Layers
    BY OverLayer, EmptyLayer
  <1>2. a.block = b.block
    BY DEF Over, Empty, Layers
  <1>3. a.root = b.root
    BY DEF Over, Empty, Newest, Layers
  <1>4. /\ a.curBlock = b.curBlock /\ a.curHeader = b.curHeader
        /\ a.hashes = b.hashes /\ a.state = b.state
    BY DEF Over, Empty, Newest, Layers
  <1> HIDE DEF b
  <1>5. b = a
    BY <1>1, <1>2, <1>3, <1>4, SameLayer
  <1>6. QED
    BY <1>5 DEF b

(* Joining the maps again after a failed flush, or reading them through    *)
(* one another, makes no difference.                                       *)
LEMMA OverAssoc ==
  ASSUME NEW a \in Layers, NEW b \in Layers, NEW c \in Layers
  PROVE  Over(Over(a, b), c) = Over(a, Over(b, c))
  BY DEF Over, Newest, Layers

(* What is flushed hides the same entries of the disk as before.           *)
LEMMA OverAgain ==
  ASSUME NEW a \in Layers, NEW b \in Layers
  PROVE  Over(Over(a, b), b) = Over(a, b)
  BY DEF Over, Newest, Layers

-----------------------------------------------------------------------------
(* Batches of header hashes.                                               *)

LEMMA BatchSize == HeaderBatchCount \in Nat /\ HeaderBatchCount > 0
  BY LedgerAssumption

LEMMA Product ==
  ASSUME NEW b \in Int, NEW c \in Int, NEW d \in Int
  PROVE  b * c \in Int /\ b * (c - d) = b * c - b * d /\ b * (c + d) = b * c + b * d
  OBVIOUS

LEMMA Multiple ==
  ASSUME NEW d \in Int
  PROVE  /\ HeaderBatchCount * d \in Int
         /\ d >= 1 => HeaderBatchCount * d >= HeaderBatchCount
         /\ d <= -1 => HeaderBatchCount * d <= -HeaderBatchCount
         /\ d \in Nat => HeaderBatchCount * d \in Nat
  BY BatchSize

LEMMA DivMod ==
  ASSUME NEW a \in Nat
  PROVE  /\ a \div HeaderBatchCount \in Nat
         /\ a % HeaderBatchCount \in 0 .. (HeaderBatchCount - 1)
         /\ a = (HeaderBatchCount * (a \div HeaderBatchCount)) + (a % HeaderBatchCount)
  BY BatchSize

LEMMA DivModUnique ==
  ASSUME NEW a \in Nat, NEW q \in Int, NEW r \in 0 .. (HeaderBatchCount - 1),
         a = (HeaderBatchCount * q) + r
  PROVE  q = a \div HeaderBatchCount /\ r = a % HeaderBatchCount
  <1> DEFINE p == a \div HeaderBatchCount
             s == a % HeaderBatchCount
  <1>1. p \in Nat /\ s \in 0 .. (HeaderBatchCount - 1) /\ a = (HeaderBatchCount * p) + s
    BY DivMod
  <1> HIDE DEF p, s
  <1>2. HeaderBatchCount * (q - p) = s - r /\ q - p \in Int /\ HeaderBatchCount * q \in Int
    BY <1>1, BatchSize, Product
  <1>3. q - p < 1 /\ q - p > -1
    BY <1>1, <1>2, BatchSize, Multiple
  <1>4. q = p
    BY <1>1, <1>3
  <1>5. QED
    BY <1>1, <1>2, <1>4, BatchSize DEF p, s

(* The start of a batch: a multiple of the size of the batches.            *)
LEMMA Starts ==
  ASSUME NEW a \in Nat
  PROVE  a % HeaderBatchCount = 0 <=> \E k \in Nat : a = HeaderBatchCount * k
  <1>1. ASSUME a % HeaderBatchCount = 0
        PROVE  \E k \in Nat : a = HeaderBatchCount * k
    BY <1>1, DivMod, Multiple
  <1>2. ASSUME NEW k \in Nat, a = HeaderBatchCount * k
        PROVE  a % HeaderBatchCount = 0
    BY <1>2, DivModUnique, BatchSize
  <1>3. QED
    BY <1>1, <1>2

LEMMA ModShift ==
  ASSUME NEW from \in Nat, NEW s \in Nat, from <= s, from % HeaderBatchCount = 0
  PROVE  (s - from) % HeaderBatchCount = s % HeaderBatchCount
  <1>1. PICK k \in Nat : from = HeaderBatchCount * k
    BY Starts
  <1> DEFINE q == s \div HeaderBatchCount
             r == s % HeaderBatchCount
  <1>2. q \in Nat /\ r \in 0 .. (HeaderBatchCount - 1) /\ s = (HeaderBatchCount * q) + r
    BY DivMod
  <1> HIDE DEF q, r
  <1>3. s - from = (HeaderBatchCount * (q - k)) + r
    BY <1>1, <1>2, BatchSize, Product
  <1>4. r = (s - from) % HeaderBatchCount
    BY <1>2, <1>3, DivModUnique
  <1>5. QED
    BY <1>4 DEF r

(* Batches written after batches are the batches of the longer list.       *)
LEMMA BatchesJoin ==
  ASSUME NEW from \in Nat, NEW to \in Nat, from <= to, from % HeaderBatchCount = 0
  PROVE  BatchStarts(0, from) \cup BatchStarts(from, to) = BatchStarts(0, to)
  <1>1. \A s \in Nat : s - 0 = s
    OBVIOUS
  <1>2. \A s \in from .. (to - 1) : (s - from) % HeaderBatchCount = s % HeaderBatchCount
    BY ModShift
  <1>3. QED
    BY <1>1, <1>2 DEF BatchStarts

(* addHeaders writes whole batches only, and never past the last header.   *)
LEMMA StoredGrows ==
  ASSUME NEW stored \in Nat, NEW last \in Nat, stored <= last, stored % HeaderBatchCount = 0
  PROVE  LET c == StoredHeaderCount(last, stored)
         IN  c \in Nat /\ stored <= c /\ c <= last /\ c % HeaderBatchCount = 0
  <1> DEFINE d == last - HeaderBatchCount - stored
             q == d \div HeaderBatchCount
             c == StoredHeaderCount(last, stored)
  <1>1. CASE last - HeaderBatchCount >= stored
    <2>1. d \in Nat
      BY <1>1, BatchSize
    <2>2. q \in Nat /\ HeaderBatchCount * q <= d
      <3> HIDE DEF d
      <3>1. QED
        BY <2>1, DivMod, Multiple, BatchSize
    <2>3. c = stored + HeaderBatchCount * (q + 1)
      BY <1>1 DEF StoredHeaderCount
    <2>4. PICK k \in Nat : stored = HeaderBatchCount * k
      BY Starts
    <2> HIDE DEF q, c
    <2>5. HeaderBatchCount * (q + 1) = HeaderBatchCount * q + HeaderBatchCount
      BY <2>2, BatchSize, Product
    <2>6. HeaderBatchCount * q \in Nat
      BY <2>2, Multiple
    <2>7. c \in Nat /\ stored <= c /\ c <= last
      BY <2>2, <2>3, <2>5, <2>6, BatchSize
    <2>8. c = HeaderBatchCount * (k + (q + 1)) /\ k + (q + 1) \in Nat
      BY <2>2, <2>3, <2>4, BatchSize, Product
    <2>9. c % HeaderBatchCount = 0
      BY <2>7, <2>8, Starts
    <2>10. QED
      BY <2>7, <2>9 DEF c
  <1>2. CASE ~(last - HeaderBatchCount >= stored)
    BY <1>2 DEF StoredHeaderCount
  <1>3. QED
    BY <1>1, <1>2

LEMMA BatchCount ==
  ASSUME NEW m \in Nat
  PROVE  Cardinality(BatchStarts(0, HeaderBatchCount * m)) = m
  <1> DEFINE f == [k \in 1 .. m |-> HeaderBatchCount * (k - 1)]
             S == BatchStarts(0, HeaderBatchCount * m)
  <1>1. ASSUME NEW k \in 1 .. m
        PROVE  HeaderBatchCount * (k - 1) \in S
    <2>1. HeaderBatchCount * (k - 1) \in Nat /\ k - 1 \in Nat
      BY Multiple
    <2>2. HeaderBatchCount * (m - (k - 1)) >= HeaderBatchCount
      BY Multiple
    <2>3. HeaderBatchCount * (m - (k - 1)) = HeaderBatchCount * m - HeaderBatchCount * (k - 1)
      BY BatchSize, Product
    <2>4. HeaderBatchCount * m \in Nat
      BY Multiple
    <2>5. (HeaderBatchCount * (k - 1)) % HeaderBatchCount = 0
      BY <2>1, Starts
    <2> DEFINE x == HeaderBatchCount * (k - 1)
               y == HeaderBatchCount * m
    <2>6. x \in 0 .. (y - 1) /\ x - 0 = x
      <3> HIDE DEF x, y
      <3>1. y - x >= HeaderBatchCount /\ x \in Nat /\ y \in Nat
        BY <2>1, <2>2, <2>3, <2>4 DEF x, y
      <3>2. QED
        BY <3>1, BatchSize
    <2>7. QED
      BY <2>5, <2>6 DEF BatchStarts
  <1>2. ASSUME NEW k \in 1 .. m, NEW l \in 1 .. m,
               HeaderBatchCount * (k - 1) = HeaderBatchCount * (l - 1)
        PROVE  k = l
    <2>1. HeaderBatchCount * ((k - 1) - (l - 1)) = 0
      BY <1>2, BatchSize, Product
    <2>2. QED
      BY <2>1, BatchSize, Multiple
  <1>3. ASSUME NEW s \in S
        PROVE  \E k \in 1 .. m : s = HeaderBatchCount * (k - 1)
    <2>1. s \in Nat /\ s < HeaderBatchCount * m /\ s % HeaderBatchCount = 0
      BY Multiple DEF BatchStarts
    <2>2. PICK k \in Nat : s = HeaderBatchCount * k
      BY <2>1, Starts
    <2>3. k < m
      <3> SUFFICES ASSUME k >= m PROVE FALSE
        OBVIOUS
      <3>1. HeaderBatchCount * (k - m) \in Nat
        BY Multiple
      <3>2. HeaderBatchCount * (k - m) = HeaderBatchCount * k - HeaderBatchCount * m
        BY BatchSize, Product
      <3>3. HeaderBatchCount * m \in Nat
        BY Multiple
      <3>4. QED
        BY <2>1, <2>2, <3>1, <3>2, <3>3
    <2>4. k + 1 \in 1 .. m /\ (k + 1) - 1 = k
      BY <2>3
    <2>5. QED
      BY <2>2, <2>4
  <1> HIDE DEF S
  <1>4. f \in Bijection(1 .. m, S)
    BY <1>1, <1>2, <1>3 DEF Bijection, Injection, Surjection, IsInjective
  <1>5. QED
    BY <1>4, FS_CountingElements DEF ExistsBijection, S

(* GetHeaderHashes finds the batches in their order.                       *)
LEMMA NthBatch ==
  ASSUME NEW m \in Nat, NEW n \in 0 .. (m - 1)
  PROVE  NthStart(BatchStarts(0, HeaderBatchCount * m), n) = HeaderBatchCount * n
  <1> DEFINE S == BatchStarts(0, HeaderBatchCount * m)
  <1>1. ASSUME NEW j \in Nat, HeaderBatchCount * j < HeaderBatchCount * m
        PROVE  Cardinality({t \in S : t < HeaderBatchCount * j}) = j
    <2>1. {t \in S : t < HeaderBatchCount * j} = BatchStarts(0, HeaderBatchCount * j)
      <3> DEFINE x == HeaderBatchCount * j
                 y == HeaderBatchCount * m
      <3>1. x \in Nat /\ y \in Nat /\ x < y
        BY <1>1, Multiple
      <3> HIDE DEF x, y
      <3>2. {t \in BatchStarts(0, y) : t < x} = BatchStarts(0, x)
        BY <3>1 DEF BatchStarts
      <3>3. QED
        BY <3>2 DEF x, y
    <2>2. QED
      BY <2>1, BatchCount
  <1>2. HeaderBatchCount * n \in S
    <2>1. HeaderBatchCount * n \in Nat /\ HeaderBatchCount * m \in Nat
      BY Multiple
    <2>2. HeaderBatchCount * (m - n) >= HeaderBatchCount
      BY Multiple
    <2>3. HeaderBatchCount * (m - n) = HeaderBatchCount * m - HeaderBatchCount * n
      BY BatchSize, Product
    <2>4. HeaderBatchCount * n < HeaderBatchCount * m
      BY <2>1, <2>2, <2>3, BatchSize
    <2>5. (HeaderBatchCount * n) % HeaderBatchCount = 0
      BY <2>1, Starts
    <2> DEFINE x == HeaderBatchCount * n
               y == HeaderBatchCount * m
    <2> HIDE DEF x, y
    <2>6. x \in BatchStarts(0, y)
      BY <2>1, <2>4, <2>5 DEF BatchStarts, x, y
    <2>7. QED
      BY <2>6 DEF x, y
  <1>3. ASSUME NEW s \in S, Cardinality({t \in S : t < s}) = n
        PROVE  s = HeaderBatchCount * n
    <2>1. s \in Nat /\ s < HeaderBatchCount * m /\ s % HeaderBatchCount = 0
      BY Multiple DEF BatchStarts
    <2>2. PICK k \in Nat : s = HeaderBatchCount * k
      BY <2>1, Starts
    <2>3. Cardinality({t \in S : t < s}) = k
      BY <1>1, <2>1, <2>2
    <2>4. QED
      BY <1>3, <2>2, <2>3
  <1>4. Cardinality({t \in S : t < HeaderBatchCount * n}) = n
    <2>1. HeaderBatchCount * n < HeaderBatchCount * m
      BY <1>2, Multiple DEF BatchStarts
    <2>2. QED
      BY <1>1, <2>1
  <1> HIDE DEF S
  <1>5. (CHOOSE s \in S : Cardinality({t \in S : t < s}) = n) = HeaderBatchCount * n
    BY <1>2, <1>3, <1>4
  <1>6. QED
    BY <1>5 DEF NthStart, S

-----------------------------------------------------------------------------
(* The list of hashes.                                                     *)

LEMMA ChainSeq ==
  ASSUME NEW from \in Nat, NEW to \in Int, to + 1 >= from
  PROVE  /\ Chain(from, to) \in Seq(Nat) /\ Len(Chain(from, to)) = to + 1 - from
         /\ \A n \in 1 .. (to + 1 - from) : Chain(from, to)[n] = from + n - 1
  <1>1. to + 1 - from \in Nat
    OBVIOUS
  <1>2. Chain(from, to) \in [1 .. (to + 1 - from) -> Nat]
    BY DEF Chain
  <1>3. Chain(from, to) \in Seq(Nat)
    BY <1>1, <1>2, SeqDef
  <1>4. DOMAIN Chain(from, to) = 1 .. (to + 1 - from)
    BY <1>2
  <1>5. Len(Chain(from, to)) = to + 1 - from
    <2>1. /\ Len(Chain(from, to)) \in Nat
          /\ 1 .. Len(Chain(from, to)) = 1 .. (to + 1 - from)
      BY <1>3, <1>4, LenProperties
    <2> DEFINE a == Len(Chain(from, to))
               b == to + 1 - from
    <2> HIDE DEF a, b
    <2>2. a \in Nat /\ b \in Nat /\ 1 .. a = 1 .. b
      BY <1>1, <2>1 DEF a, b
    <2>3. a = b
      <3>1. CASE a > b
        <4>1. a \in 1 .. a /\ a \notin 1 .. b
          BY <2>2, <3>1
        <4>2. QED
          BY <2>2, <4>1
      <3>2. CASE b > a
        <4>1. b \in 1 .. b /\ b \notin 1 .. a
          BY <2>2, <3>2
        <4>2. QED
          BY <2>2, <4>1
      <3>3. QED
        BY <2>2, <3>1, <3>2
    <2>4. QED
      BY <2>3 DEF a, b
  <1>6. QED
    BY <1>3, <1>5 DEF Chain

LEMMA GenesisChain == <<0>> = Chain(0, 0)
  <1>1. ASSUME NEW z \in Nat
        PROVE  <<z>> = Chain(z, z)
    <2>1. z \in Int /\ z + 1 >= z /\ z + 1 - z = 1 /\ z + 1 - 1 = z
      OBVIOUS
    <2>2. /\ Chain(z, z) \in Seq(Nat) /\ Len(Chain(z, z)) = z + 1 - z
          /\ \A n \in 1 .. (z + 1 - z) : Chain(z, z)[n] = z + n - 1
      BY <2>1, ChainSeq
    <2>3. Len(Chain(z, z)) = 1 /\ Chain(z, z)[1] = z
      BY <2>2
    <2>4. QED
      BY <2>2, <2>3, SeqEqual
  <1>2. QED
    BY <1>1

LEMMA ChainConcat ==
  ASSUME NEW from \in Nat, NEW mid \in Int, NEW to \in Int, mid + 1 >= from, to >= mid
  PROVE  Chain(from, mid) \o Chain(mid + 1, to) = Chain(from, to)
  <1> DEFINE a == Chain(from, mid)
             b == Chain(mid + 1, to)
             c == Chain(from, to)
  <1>0. mid + 1 \in Nat /\ to + 1 >= mid + 1 /\ to + 1 >= from
    OBVIOUS
  <1>1. /\ a \in Seq(Nat) /\ Len(a) = mid + 1 - from
        /\ \A n \in 1 .. (mid + 1 - from) : a[n] = from + n - 1
    BY ChainSeq
  <1>2. /\ b \in Seq(Nat) /\ Len(b) = to + 1 - (mid + 1)
        /\ \A n \in 1 .. (to + 1 - (mid + 1)) : b[n] = (mid + 1) + n - 1
    BY <1>0, ChainSeq
  <1>3. /\ c \in Seq(Nat) /\ Len(c) = to + 1 - from
        /\ \A n \in 1 .. (to + 1 - from) : c[n] = from + n - 1
    BY <1>0, ChainSeq
  <1> HIDE DEF a, b, c
  <1>4. /\ a \o b \in Seq(Nat) /\ Len(a \o b) = to + 1 - from
        /\ \A n \in 1 .. (to + 1 - from) :
              (a \o b)[n] = IF n <= Len(a) THEN a[n] ELSE b[n - Len(a)]
    <2>1. Len(a) + Len(b) = to + 1 - from
      BY <1>1, <1>2
    <2>2. /\ a \o b \in Seq(Nat) /\ Len(a \o b) = Len(a) + Len(b)
          /\ \A n \in 1 .. (Len(a) + Len(b)) :
                (a \o b)[n] = IF n <= Len(a) THEN a[n] ELSE b[n - Len(a)]
      BY <1>1, <1>2, ConcatProperties, Zenon
    <2>3. QED
      BY <2>1, <2>2
  <1>5. ASSUME NEW n \in 1 .. (to + 1 - from)
        PROVE  (a \o b)[n] = c[n]
    <2>1. CASE n <= Len(a)
      BY <1>1, <1>3, <1>4, <2>1
    <2>2. CASE ~(n <= Len(a))
      <3>1. n - Len(a) \in 1 .. (to + 1 - (mid + 1))
        BY <1>1, <2>2
      <3>2. (a \o b)[n] = b[n - Len(a)]
        BY <1>1, <1>4, <2>2
      <3>3. b[n - Len(a)] = (mid + 1) + (n - Len(a)) - 1
        BY <1>2, <3>1
      <3>4. QED
        BY <1>1, <1>3, <3>2, <3>3
    <2>3. QED
      BY <2>1, <2>2
  <1>6. a \o b = c
    BY <1>3, <1>4, <1>5, SeqEqual
  <1>7. QED
    BY <1>6 DEF a, b, c

(* The batches of a store are read back as the list they were cut from.    *)
LEMMA HashesRead ==
  ASSUME NEW layer, NEW c \in Nat, c % HeaderBatchCount = 0, layer.hashes = BatchStarts(0, c)
  PROVE  StoredHashes(layer) = Chain(0, c - 1)
  <1>1. PICK m \in Nat : c = HeaderBatchCount * m
    BY Starts
  <1>2. Cardinality(layer.hashes) = m
    BY <1>1, BatchCount
  <1>3. ASSUME NEW n \in 1 .. c
        PROVE  NthStart(layer.hashes, (n - 1) \div HeaderBatchCount)
                 + ((n - 1) % HeaderBatchCount) = n - 1
    <2> DEFINE q == (n - 1) \div HeaderBatchCount
               r == (n - 1) % HeaderBatchCount
    <2>1. /\ q \in Nat /\ r \in 0 .. (HeaderBatchCount - 1)
          /\ n - 1 = (HeaderBatchCount * q) + r
      BY DivMod
    <2> HIDE DEF q, r
    <2>2. q \in 0 .. (m - 1)
      <3> SUFFICES ASSUME q >= m PROVE FALSE
        BY <2>1
      <3>1. HeaderBatchCount * (q - m) \in Nat
        BY <2>1, Multiple
      <3>2. HeaderBatchCount * (q - m) = HeaderBatchCount * q - HeaderBatchCount * m
        BY <2>1, BatchSize, Product
      <3>3. HeaderBatchCount * q \in Nat
        BY <2>1, Multiple
      <3>4. QED
        BY <1>1, <2>1, <3>1, <3>2, <3>3, BatchSize
    <2>3. NthStart(layer.hashes, q) = HeaderBatchCount * q
      BY <1>1, <2>2, NthBatch
    <2>4. NthStart(layer.hashes, q) + r = n - 1
      BY <2>1, <2>3
    <2>5. QED
      BY <2>4 DEF q, r
  <1>4. StoredHashes(layer) = [n \in 1 .. c |->
            NthStart(layer.hashes, (n - 1) \div HeaderBatchCount) + ((n - 1) % HeaderBatchCount)]
    BY <1>1, <1>2 DEF StoredHashes
  <1>5. Chain(0, c - 1) = [n \in 1 .. c |-> n - 1]
    BY DEF Chain
  <1>6. QED
    BY <1>3, <1>4, <1>5

-----------------------------------------------------------------------------
(* What a snapshot of the store holds: the view through some of its layers *)
(* that a start may find on disk.                                          *)

(* Block and state: the state is of the current block or the one before,   *)
(* and local state roots end with the state.                               *)
BlockPart(X) ==
    /\ X.curBlock \in Heights /\ X.state \in Heights
    /\ X.state \in {X.curBlock, X.curBlock - 1}
    /\ X.root[X.state] # None
    /\ \A i \in Heights : X.root[i] # None => i <= X.state

(* Headers: there are c hashes in whole batches, all headers up to the     *)
(* current one can be read, and traceable blocks are whole.                *)
HeaderPart(X, c) ==
    /\ X.curHeader \in Heights /\ X.curBlock <= X.curHeader
    /\ \A i \in 0 .. X.curHeader : X.block[i] # NoBlock
    /\ \A i \in 0 .. X.curBlock :
         (MaxTraceableBlocks = 0 \/ i > X.curBlock - MaxTraceableBlocks) => X.block[i] = "block"
    /\ c \in 0 .. X.curHeader /\ c % HeaderBatchCount = 0
    /\ X.hashes = BatchStarts(0, c)

Consistent(X) == BlockPart(X) /\ \E c \in Nat : HeaderPart(X, c)

LEMMA NotEmpty == ASSUME NEW X, Consistent(X) PROVE X # Empty /\ X.curBlock # None
  BY EmptyLayer DEF Consistent, BlockPart, Heights, None

LEMMA GenesisConsistent ==
  /\ GenesisLayer \in Layers /\ BlockPart(GenesisLayer) /\ HeaderPart(GenesisLayer, 0)
  /\ GenesisLayer.curBlock = 0 /\ GenesisLayer.curHeader = 0 /\ GenesisLayer.state = 0
  <1> DEFINE G == GenesisLayer
  <1>1. /\ G.curBlock = 0 /\ G.curHeader = 0 /\ G.state = 0 /\ G.hashes = {}
        /\ G.block = [i \in Heights |-> IF i = 0 THEN "block" ELSE NoBlock]
        /\ G.root = [i \in Heights |-> IF i = 0 THEN 0 ELSE None]
    BY DEF GenesisLayer, Empty
  <1>2. G \in Layers
    BY DEF GenesisLayer, Empty, Layers, Opt, None, Heights
  <1>3. 0 \in Heights
    BY LedgerAssumption DEF Heights
  <1>4. 0 % HeaderBatchCount = 0
    BY BatchSize
  <1>5. BatchStarts(0, 0) = {}
    BY DEF BatchStarts
  <1> HIDE DEF G
  <1>6. BlockPart(G)
    BY <1>1, <1>3 DEF BlockPart, None
  <1>7. HeaderPart(G, 0)
    BY <1>1, <1>3, <1>4, <1>5 DEF HeaderPart, NoBlock
  <1>8. QED
    BY <1>1, <1>2, <1>6, <1>7 DEF G

(* addHeaders.                                                             *)
LEMMA HeadersWritten ==
  ASSUME NEW X \in Layers, BlockPart(X), HeaderPart(X, storedHeaderCount),
         Len(headerHashes) = X.curHeader + 1,
         NEW to \in Heights, to >= Len(headerHashes)
  PROVE  LET L == HeaderLayer(to)
             Y == Over(X, L)
         IN  /\ L \in Layers
             /\ BlockPart(Y) /\ HeaderPart(Y, StoredHeaderCount(to, storedHeaderCount))
             /\ Y.curHeader = to /\ Y.curBlock = X.curBlock /\ Y.state = X.state
  <1> DEFINE L == HeaderLayer(to)
             Y == Over(X, L)
             c == StoredHeaderCount(to, storedHeaderCount)
  <1>1. /\ X.curHeader \in Nat /\ to \in Nat /\ to > X.curHeader
        /\ storedHeaderCount \in Nat /\ storedHeaderCount <= to
    BY DEF HeaderPart, Heights
  <1>2. c \in 0 .. to /\ storedHeaderCount <= c /\ c % HeaderBatchCount = 0
    BY <1>1, StoredGrows DEF HeaderPart
  <1>3. /\ L.curHeader = to /\ L.curBlock = None /\ L.state = None
        /\ L.block = [i \in Heights |-> IF i \in Len(headerHashes) .. to THEN "header" ELSE NoBlock]
        /\ L.hashes = BatchStarts(storedHeaderCount, c)
        /\ L.root = [i \in Heights |-> None]
    BY DEF HeaderLayer, Empty
  <1>4. BatchStarts(storedHeaderCount, c) \subseteq Nat
    BY <1>1, <1>2 DEF BatchStarts
  <1>5. L \in Layers
    BY <1>1, <1>4 DEF HeaderLayer, Empty, Layers, Opt, None
  <1>6. /\ Y.curHeader = to /\ Y.curBlock = X.curBlock /\ Y.state = X.state
        /\ Y.block = [i \in Heights |-> IF i \in (X.curHeader + 1) .. to THEN "header" ELSE X.block[i]]
        /\ Y.hashes = X.hashes \cup BatchStarts(storedHeaderCount, c)
        /\ Y.root = X.root
    <2> HIDE DEF L
    <2>1. /\ Y.curHeader = to /\ Y.curBlock = X.curBlock /\ Y.state = X.state
          /\ Y.hashes = X.hashes \cup BatchStarts(storedHeaderCount, c)
      BY <1>1, <1>3 DEF Over, Newest, None
    <2>2. Y.block = [i \in Heights |-> IF i \in (X.curHeader + 1) .. to THEN "header" ELSE X.block[i]]
      BY <1>3 DEF Over, NoBlock
    <2>3. Y.root = X.root
      BY <1>3 DEF Over, Newest, Layers
    <2>4. QED
      BY <2>1, <2>2, <2>3
  <1>7. Y.hashes = BatchStarts(0, c)
    BY <1>1, <1>2, <1>6, BatchesJoin DEF HeaderPart
  <1> HIDE DEF Y, L, c
  <1>8. BlockPart(Y)
    BY <1>6 DEF BlockPart
  <1>9. HeaderPart(Y, c)
    <2>1. Y.curHeader \in Heights /\ Y.curBlock <= Y.curHeader
      BY <1>1, <1>6 DEF BlockPart, HeaderPart, Heights
    <2>2. \A i \in 0 .. Y.curHeader : Y.block[i] # NoBlock
      BY <1>1, <1>6, LedgerAssumption DEF HeaderPart, Heights, NoBlock
    <2>3. \A i \in 0 .. Y.curBlock :
            (MaxTraceableBlocks = 0 \/ i > Y.curBlock - MaxTraceableBlocks) => Y.block[i] = "block"
      BY <1>1, <1>6, LedgerAssumption DEF BlockPart, HeaderPart, Heights
    <2>4. QED
      BY <1>2, <1>6, <1>7, <2>1, <2>2, <2>3 DEF HeaderPart
  <1>10. QED
    BY <1>5, <1>6, <1>8, <1>9 DEF Y, L, c

(* aerCache.Persist of the next block.                                     *)
LEMMA BlockWritten ==
  ASSUME NEW X \in Layers, BlockPart(X), NEW c, HeaderPart(X, c), X.state = X.curBlock,
         NEW i \in Heights, i = X.curBlock + 1, i <= X.curHeader
  PROVE  LET L == AerLayer(i)
             Y == Over(X, L)
         IN  /\ L \in Layers
             /\ BlockPart(Y) /\ HeaderPart(Y, c)
             /\ Y.curHeader = X.curHeader /\ Y.curBlock = i /\ Y.state = X.state
  <1> DEFINE L == AerLayer(i)
             Y == Over(X, L)
             cut == MaxTraceableBlocks > 0 /\ i > MaxTraceableBlocks
  <1>1. i \in Nat /\ X.curBlock \in Nat /\ MaxTraceableBlocks \in Nat
    BY LedgerAssumption DEF BlockPart, Heights
  <1>2. /\ L.curHeader = None /\ L.curBlock = i /\ L.state = None /\ L.hashes = {}
        /\ L.block = [j \in Heights |-> IF j = i THEN "block"
                        ELSE IF cut /\ j = i - MaxTraceableBlocks THEN "header" ELSE NoBlock]
        /\ L.root = [j \in Heights |-> None]
    <2>1. CASE cut
      <3>1. i - MaxTraceableBlocks \in Heights /\ i - MaxTraceableBlocks # i
        BY <1>1, <2>1, LedgerAssumption DEF Heights
      <3>2. L = DeleteBlock(StoreAsBlock(StoreAsCurrentBlock(Empty, i), i), i - MaxTraceableBlocks)
        BY <2>1 DEF AerLayer
      <3> HIDE DEF L
      <3>3. QED
        BY <2>1, <3>1, <3>2 DEF StoreAsBlock, StoreAsCurrentBlock, DeleteBlock, Empty
    <2>2. CASE ~cut
      <3>1. L = StoreAsBlock(StoreAsCurrentBlock(Empty, i), i)
        BY <2>2 DEF AerLayer
      <3> HIDE DEF L
      <3>2. QED
        BY <2>2, <3>1 DEF StoreAsBlock, StoreAsCurrentBlock, Empty
    <2>3. QED
      BY <2>1, <2>2
  <1>3. L \in Layers
    BY <1>1 DEF AerLayer, StoreAsBlock, StoreAsCurrentBlock, DeleteBlock, Empty, Layers, Opt,
                None
  <1>4. /\ Y.curHeader = X.curHeader /\ Y.curBlock = i /\ Y.state = X.state
        /\ Y.hashes = X.hashes /\ Y.root = X.root
        /\ Y.block = [j \in Heights |-> IF j = i THEN "block"
                        ELSE IF cut /\ j = i - MaxTraceableBlocks THEN "header" ELSE X.block[j]]
    <2> HIDE DEF L
    <2>1. /\ Y.curHeader = X.curHeader /\ Y.curBlock = i /\ Y.state = X.state
          /\ Y.hashes = X.hashes
      BY <1>1, <1>2 DEF Over, Newest, None
    <2>2. Y.block = [j \in Heights |-> IF j = i THEN "block"
                       ELSE IF cut /\ j = i - MaxTraceableBlocks THEN "header" ELSE X.block[j]]
      BY <1>2 DEF Over, NoBlock
    <2>3. Y.root = X.root
      BY <1>2 DEF Over, Newest, Layers
    <2>4. QED
      BY <2>1, <2>2, <2>3
  <1> HIDE DEF Y, L
  <1>5. BlockPart(Y)
    <2>1. Y.state = i - 1
      BY <1>1, <1>4
    <2>2. QED
      BY <1>1, <1>4, <2>1 DEF BlockPart
  <1>6. HeaderPart(Y, c)
    <2>1. \A j \in 0 .. Y.curHeader : Y.block[j] # NoBlock
      BY <1>1, <1>4, LedgerAssumption DEF HeaderPart, Heights, NoBlock
    <2>2. \A j \in 0 .. Y.curBlock :
            (MaxTraceableBlocks = 0 \/ j > Y.curBlock - MaxTraceableBlocks) => Y.block[j] = "block"
      BY <1>1, <1>4, LedgerAssumption DEF HeaderPart, Heights
    <2>3. QED
      BY <1>4, <2>1, <2>2 DEF HeaderPart
  <1>7. QED
    BY <1>3, <1>4, <1>5, <1>6 DEF Y, L

(* cache.Persist of the block whose pointer is already written.            *)
LEMMA StateWritten ==
  ASSUME NEW X \in Layers, BlockPart(X), NEW c, HeaderPart(X, c), trieFrom \in Nat
  PROVE  LET L == CacheLayer(X.curBlock)
             Y == Over(X, L)
         IN  /\ L \in Layers
             /\ BlockPart(Y) /\ HeaderPart(Y, c)
             /\ Y.curHeader = X.curHeader /\ Y.curBlock = X.curBlock /\ Y.state = X.curBlock
  <1> DEFINE i == X.curBlock
             L == CacheLayer(i)
             Y == Over(X, L)
  <1>1. i \in Nat /\ i \in Heights
    BY DEF BlockPart, Heights
  <1>2. /\ L.curHeader = None /\ L.curBlock = None /\ L.state = i /\ L.hashes = {}
        /\ L.block = [j \in Heights |-> NoBlock]
        /\ L.root = [j \in Heights |-> IF j = i THEN trieFrom ELSE None]
    BY <1>1 DEF CacheLayer, AddLocalStateRoot, Empty
  <1>3. L \in Layers
    BY <1>1 DEF CacheLayer, AddLocalStateRoot, Empty, Layers, Opt, None
  <1>4. /\ Y.curHeader = X.curHeader /\ Y.curBlock = i /\ Y.state = i
        /\ Y.hashes = X.hashes /\ Y.block = X.block
        /\ Y.root = [j \in Heights |-> IF j = i THEN trieFrom ELSE X.root[j]]
    <2> HIDE DEF L
    <2>1. /\ Y.curHeader = X.curHeader /\ Y.curBlock = i /\ Y.state = i
          /\ Y.hashes = X.hashes
      BY <1>1, <1>2 DEF Over, Newest, None
    <2>2. Y.block = X.block
      BY <1>2 DEF Over, Layers
    <2>3. Y.root = [j \in Heights |-> IF j = i THEN trieFrom ELSE X.root[j]]
      BY <1>1, <1>2 DEF Over, Newest, None
    <2>4. QED
      BY <2>1, <2>2, <2>3
  <1> HIDE DEF Y, L
  <1>5. BlockPart(Y)
    BY <1>1, <1>4 DEF BlockPart, Heights, None
  <1>6. HeaderPart(Y, c)
    BY <1>4 DEF HeaderPart
  <1>7. QED
    BY <1>3, <1>4, <1>5, <1>6 DEF Y, L

(* What init makes of a consistent disk.                                   *)
LEMMA HeadersRestored ==
  ASSUME NEW X, BlockPart(X), NEW c, HeaderPart(X, c)
  PROVE  /\ WalkPossible(X)
         /\ RestoredHeaders(X) = Chain(0, X.curHeader)
         /\ Len(StoredHashes(X)) = c
  <1>1. c \in Nat /\ X.curHeader \in Nat /\ c <= X.curHeader
    BY DEF HeaderPart, Heights
  <1>2. StoredHashes(X) = Chain(0, c - 1)
    BY <1>1, HashesRead DEF HeaderPart
  <1>3. Len(StoredHashes(X)) = c
    BY <1>1, <1>2, ChainSeq
  <1>4. CASE c = 0
    <2>1. X.hashes = {}
      BY <1>4 DEF HeaderPart, BatchStarts
    <2>2. WalkTarget(X) = 0
      BY <2>1 DEF WalkTarget
    <2>3. WalkPossible(X)
      BY <1>1, <2>2 DEF WalkPossible, HeaderPart
    <2>4. <<0>> = Chain(0, 0)
      BY GenesisChain
    <2>5. RestoredHeaders(X) = Chain(0, 0) \o Chain(0 + 1, X.curHeader)
      BY <1>1, <1>3, <2>1, <2>2, <2>4 DEF RestoredHeaders
    <2>6. RestoredHeaders(X) = Chain(0, X.curHeader)
      <3>1. 0 \in Int /\ 0 + 1 >= 0 /\ X.curHeader \in Int /\ X.curHeader >= 0
        BY <1>1
      <3>2. Chain(0, 0) \o Chain(0 + 1, X.curHeader) = Chain(0, X.curHeader)
        BY <3>1, ChainConcat
      <3>3. QED
        BY <2>5, <3>2
    <2>7. QED
      BY <1>3, <2>3, <2>6
  <1>5. CASE c # 0
    <2>1. X.hashes # {}
      <3>1. 0 \in BatchStarts(0, c)
        BY <1>1, <1>5, BatchSize DEF BatchStarts
      <3>2. QED
        BY <3>1 DEF HeaderPart
    <2>2. WalkTarget(X) = c - 1
      <3>1. c - 1 \in Int /\ (c - 1) + 1 >= 0 /\ c \in 1 .. ((c - 1) + 1 - 0)
        BY <1>1, <1>5
      <3>2. Chain(0, c - 1)[c] = 0 + c - 1
        BY <3>1, ChainSeq
      <3>3. QED
        BY <1>1, <1>2, <1>3, <2>1, <3>2 DEF WalkTarget
    <2>3. WalkPossible(X)
      BY <1>1, <2>2 DEF WalkPossible, HeaderPart
    <2>4. RestoredHeaders(X) = Chain(0, c - 1) \o Chain((c - 1) + 1, X.curHeader)
      BY <1>1, <1>2, <1>3, <2>1, <2>2 DEF RestoredHeaders
    <2>5. RestoredHeaders(X) = Chain(0, X.curHeader)
      <3>1. c - 1 \in Int /\ (c - 1) + 1 >= 0 /\ X.curHeader \in Int /\ X.curHeader >= c - 1
        BY <1>1
      <3>2. Chain(0, c - 1) \o Chain((c - 1) + 1, X.curHeader) = Chain(0, X.curHeader)
        BY <3>1, ChainConcat
      <3>3. QED
        BY <2>4, <3>2
    <2>6. QED
      BY <1>3, <2>3, <2>5
  <1>6. QED
    BY <1>4, <1>5

-----------------------------------------------------------------------------
(* The invariant.                                                          *)

Busy == {"headers", "execute", "cache", "publish"}

TypeInv ==
    /\ disk \in Layers /\ temp \in Layers /\ mem \in Layers
    /\ persistedHeight \in Nat /\ trieFrom \in Nat
    /\ adding \in [pc : {"idle"} \cup Busy, index : Heights]
    /\ receiving \in [Peers -> [pc : {"idle", "verified"}, from : Int, to : Heights]]
    /\ flushing \in [pc : {"idle", "flush", "flushed"}, isSync : BOOLEAN]
    /\ status \in {"running", "closing", "final", "closed", "crashed", "failed"}

(* A start finds nothing or a consistent snapshot, not older than what was *)
(* reported as persisted, and after a full stop one whose state is up to   *)
(* date.                                                                   *)
DiskInv ==
    /\ disk = Empty \/ Consistent(disk)
    /\ disk = Empty => persistedHeight = 0
    /\ disk # Empty => persistedHeight <= disk.curBlock
    /\ status = "closed" /\ disk # Empty => disk.state = disk.curBlock

(* The disk, what a flush makes of it, and what the node reads follow each *)
(* other.                                                                  *)
Below == Over(disk, temp)
FlushInv ==
    /\ flushing.pc = "idle" => temp = Empty
    /\ flushing.pc = "flush" => Consistent(Below)
    /\ flushing.pc = "flushed" => Below = disk /\ Consistent(disk)
    /\ disk # Empty => disk.curBlock <= Below.curBlock
    /\ Below # Empty => Below.curBlock <= Store.curBlock

(* What the node reads, with its list of hashes.                           *)
ViewInv ==
    /\ BlockPart(Store) /\ HeaderPart(Store, storedHeaderCount)
    /\ headerHashes = Chain(0, Store.curHeader)

(* How far the block that is being added has come.                         *)
AddInv ==
    /\ blockHeight \in Heights
    /\ adding.pc \in Busy => adding.index = blockHeight + 1
    /\ adding.pc \in {"idle", "headers", "execute"} => Store.curBlock = blockHeight
    /\ adding.pc \in {"cache", "publish"} => Store.curBlock = adding.index
    /\ adding.pc = "execute" => adding.index <= Store.curHeader
    /\ adding.pc # "cache" => Store.state = Store.curBlock
    /\ status # "running" => adding.pc = "idle"
    /\ status = "final" => mem = Empty /\ flushing.isSync /\ flushing.pc # "idle"

IInv ==
    /\ TypeInv /\ DiskInv
    /\ Live => FlushInv /\ ViewInv /\ AddInv

(* Reading through no newer layer.                                         *)
LEMMA StoreOfDisk == disk \in Layers /\ temp = Empty /\ mem = Empty => Store = disk
  BY OverEmpty DEF Store

LEMMA StoreWritten ==
  ASSUME TypeInv, NEW L \in Layers, mem' = Over(mem, L), UNCHANGED <<disk, temp>>
  PROVE  mem' \in Layers /\ Store' = Over(Store, L) /\ Below' = Below /\ Store \in Layers
  <1>1. disk \in Layers /\ temp \in Layers /\ mem \in Layers
    BY DEF TypeInv
  <1>2. Over(disk, temp) \in Layers /\ Over(mem, L) \in Layers
    BY <1>1, OverLayer
  <1>3. Over(Over(disk, temp), mem) \in Layers
    BY <1>1, <1>2, OverLayer
  <1>4. Over(Over(disk, temp), Over(mem, L)) = Over(Over(Over(disk, temp), mem), L)
    BY <1>1, <1>2, OverAssoc
  <1>5. QED
    BY <1>2, <1>3, <1>4 DEF Store, Below

LEMMA InitIInv == Init => IInv
  <1> SUFFICES ASSUME Init PROVE IInv
    OBVIOUS
  <1>1. disk = Empty /\ temp = Empty /\ mem = GenesisLayer
    BY DEF Init
  <1>2. Below = Empty
    BY <1>1, OverEmpty, EmptyLayer DEF Below
  <1>3. Over(Empty, GenesisLayer) = GenesisLayer
    BY GenesisConsistent, EmptyOver
  <1>4. Store = GenesisLayer
    BY <1>1, <1>2, <1>3 DEF Store, Below
  <1>5. TypeInv
    BY <1>1, GenesisConsistent, EmptyLayer, LedgerAssumption
    DEF Init, TypeInv, Busy, NotAdding, NotReceiving, NotFlushing, Heights
  <1>6. DiskInv
    BY DEF Init, DiskInv
  <1>7. FlushInv
    BY <1>2 DEF Init, FlushInv, NotFlushing
  <1>8. <<0>> = Chain(0, 0)
    BY GenesisChain
  <1>9. ViewInv
    BY <1>4, <1>8, GenesisConsistent DEF Init, ViewInv
  <1>10. AddInv
    BY <1>4, GenesisConsistent, LedgerAssumption DEF Init, AddInv, NotAdding, Busy, Heights
  <1>11. QED
    BY <1>5, <1>6, <1>7, <1>9, <1>10 DEF IInv

LEMMA ListLength ==
  ASSUME ViewInv
  PROVE  Len(headerHashes) = Store.curHeader + 1 /\ HeaderHeight = Store.curHeader
  <1>1. Store.curHeader \in Nat /\ Store.curHeader + 1 >= 0
    BY DEF ViewInv, HeaderPart, Heights
  <1>2. Len(headerHashes) = Store.curHeader + 1 - 0
    <2> DEFINE h == Store.curHeader
    <2>1. headerHashes = Chain(0, h) /\ h \in Int /\ h + 1 >= 0
      BY <1>1 DEF ViewInv
    <2> HIDE DEF h
    <2>2. Len(headerHashes) = h + 1 - 0
      BY <2>1, ChainSeq
    <2>3. QED
      BY <2>2 DEF h
  <1>3. QED
    BY <1>1, <1>2 DEF HeaderHeight

(* addHeaders under its lock, called for headers or for a block.           *)
LEMMA HeadersStored ==
  ASSUME TypeInv, ViewInv, NEW from \in Int, NEW to \in Heights, StoreHeaders(from, to),
         UNCHANGED <<disk, temp>>
  PROVE  /\ mem' \in Layers /\ Below' = Below /\ ViewInv'
         /\ Store'.curBlock = Store.curBlock /\ Store'.state = Store.state
         /\ Store.curHeader <= Store'.curHeader
         /\ from <= Store.curHeader + 1 => to <= Store'.curHeader
  <1>1. /\ Len(headerHashes) = Store.curHeader + 1 /\ Store.curHeader \in Nat /\ to \in Nat
        /\ BlockPart(Store) /\ HeaderPart(Store, storedHeaderCount)
        /\ headerHashes = Chain(0, Store.curHeader)
    BY ListLength DEF ViewInv, HeaderPart, Heights
  <1>2. CASE from <= Len(headerHashes) /\ to >= Len(headerHashes)
    <2> DEFINE L == HeaderLayer(to)
               Y == Over(Store, L)
    <2>1. Store \in Layers
      BY OverLayer DEF TypeInv, Store
    <2>2. /\ L \in Layers
          /\ BlockPart(Y) /\ HeaderPart(Y, StoredHeaderCount(to, storedHeaderCount))
          /\ Y.curHeader = to /\ Y.curBlock = Store.curBlock /\ Y.state = Store.state
      BY <1>1, <1>2, <2>1, HeadersWritten
    <2>3. /\ mem' = Over(mem, L)
          /\ headerHashes' = headerHashes \o Chain(Len(headerHashes), to)
          /\ storedHeaderCount' = StoredHeaderCount(to, storedHeaderCount)
      BY <1>2 DEF StoreHeaders
    <2> HIDE DEF L
    <2>4. mem' \in Layers /\ Store' = Y /\ Below' = Below
      BY <2>2, <2>3, StoreWritten
    <2> HIDE DEF Y
    <2>5. headerHashes' = Chain(0, to)
      <3>1. Store.curHeader \in Int /\ Store.curHeader + 1 >= 0 /\ to \in Int /\ to >= Store.curHeader
        BY <1>1, <1>2
      <3>2. Chain(0, Store.curHeader) \o Chain(Store.curHeader + 1, to) = Chain(0, to)
        BY <3>1, ChainConcat
      <3>3. QED
        BY <1>1, <2>3, <3>2
    <2>6. ViewInv'
      BY <2>2, <2>3, <2>4, <2>5 DEF ViewInv
    <2>7. QED
      BY <1>1, <1>2, <2>2, <2>4, <2>6
  <1>3. CASE ~(from <= Len(headerHashes) /\ to >= Len(headerHashes))
    <2>1. UNCHANGED <<headerHashes, storedHeaderCount, mem>>
      BY <1>3 DEF StoreHeaders
    <2>2. Store' = Store /\ Below' = Below /\ mem' \in Layers
      BY <2>1 DEF Store, Below, TypeInv
    <2>3. ViewInv'
      BY <2>1, <2>2 DEF ViewInv
    <2>4. from <= Store.curHeader + 1 => to <= Store.curHeader
      BY <1>1, <1>3
    <2>5. QED
      BY <1>1, <2>2, <2>3, <2>4
  <1>4. QED
    BY <1>2, <1>3

(* A flush, whether it succeeds or fails, is not seen by readers.          *)
LEMMA FlushUnseen ==
  ASSUME TypeInv, FlushInv, Flush \/ FlushFailed \/ Flushed \/ Persist(TRUE) \/ Persist(FALSE)
  PROVE  Store' = Store /\ disk' \in Layers /\ temp' \in Layers /\ mem' \in Layers
  <1>1. /\ disk \in Layers /\ temp \in Layers /\ mem \in Layers /\ Empty \in Layers
        /\ Over(disk, temp) \in Layers
    BY OverLayer, EmptyLayer DEF TypeInv
  <1>2. CASE Flush
    BY <1>1, <1>2, OverAgain DEF Flush, Store
  <1>3. CASE FlushFailed
    <2>1. Over(Over(disk, temp), mem) = Over(disk, Over(temp, mem)) /\ Over(temp, mem) \in Layers
      BY <1>1, OverAssoc, OverLayer
    <2>2. QED
      BY <1>1, <1>3, <2>1, OverEmpty DEF FlushFailed, KeepUnflushed, Store
  <1>4. CASE Flushed
    BY <1>1, <1>4, OverEmpty DEF Flushed, Store, FlushInv, Below
  <1>5. CASE Persist(TRUE) \/ Persist(FALSE)
    <2>1. temp = Empty /\ temp' = mem /\ mem' = Empty /\ disk' = disk
      BY <1>5 DEF Persist, FlushInv
    <2>2. Over(disk, mem) \in Layers
      BY <1>1, OverLayer
    <2>3. QED
      BY <1>1, <2>1, <2>2, OverEmpty DEF Store
  <1>6. QED
    BY <1>2, <1>3, <1>4, <1>5

LEMMA NextIInv == IInv /\ [Next]_vars => IInv'
  <1> SUFFICES ASSUME IInv, [Next]_vars
               PROVE  IInv'
    OBVIOUS
  <1>0. /\ TypeInv /\ DiskInv
        /\ Live => FlushInv /\ ViewInv /\ AddInv
    BY DEF IInv
  <1> USE DEF storeVars, headerVars, stateVars, procVars, boundVars
  <1>s. ASSUME UNCHANGED <<disk, temp, mem, storedHeaderCount, headerHashes>>
        PROVE  Store' = Store /\ Below' = Below /\ (ViewInv => ViewInv')
    <2>1. Store' = Store /\ Below' = Below
      BY <1>s DEF Store, Below
    <2>2. QED
      BY <1>s, <2>1 DEF ViewInv
  <1>1. ASSUME NEW p \in Peers, NEW from \in 1 .. MaxHeight, NEW to \in 1 .. MaxHeight,
               AddHeaders(p, from, to)
        PROVE  IInv'
    <2>1. status = "running" /\ Live /\ Live'
      BY <1>1 DEF AddHeaders, Live
    <2>2. HeaderHeight \in Int
      BY <1>0, <2>1, ListLength DEF ViewInv, HeaderPart, Heights
    <2> DEFINE first == IF to <= HeaderHeight THEN to
                        ELSE IF from <= HeaderHeight THEN HeaderHeight + 1 ELSE from
    <2>3. /\ receiving' = [receiving EXCEPT ![p] = [pc |-> "verified", from |-> first, to |-> to]]
          /\ first \in Int
      BY <1>1, <2>2 DEF AddHeaders
    <2> HIDE DEF first
    <2>4. TypeInv'
      BY <1>0, <1>1, <2>3, LedgerAssumption DEF AddHeaders, TypeInv, Heights
    <2>5. DiskInv' /\ FlushInv' /\ ViewInv' /\ AddInv'
      BY <1>0, <1>1, <1>s, <2>1 DEF AddHeaders, DiskInv, FlushInv, AddInv
    <2>6. QED
      BY <2>4, <2>5 DEF IInv
  <1>2. ASSUME NEW p \in Peers, Live, AddHeadersLocked(p)
        PROVE  IInv'
    <2>1. FlushInv /\ ViewInv /\ AddInv /\ status # "final"
      BY <1>0, <1>2 DEF AddHeadersLocked, StoreFree, AddInv
    <2>2. receiving[p].from \in Int /\ receiving[p].to \in Heights
      BY <1>0 DEF TypeInv
    <2>3. /\ mem' \in Layers /\ Below' = Below /\ ViewInv'
          /\ Store'.curBlock = Store.curBlock /\ Store'.state = Store.state
          /\ Store.curHeader <= Store'.curHeader
      BY <1>0, <1>2, <2>1, <2>2, HeadersStored DEF AddHeadersLocked
    <2>4. Store.curHeader \in Int /\ Store'.curHeader \in Int
      BY <2>1, <2>3 DEF ViewInv, HeaderPart, Heights
    <2>5. TypeInv'
      BY <1>0, <1>2, <2>3, LedgerAssumption DEF AddHeadersLocked, TypeInv, NotReceiving, Heights
    <2>6. DiskInv' /\ FlushInv'
      BY <1>0, <1>2, <2>1, <2>3 DEF AddHeadersLocked, DiskInv, FlushInv
    <2>7. AddInv'
      BY <1>0, <1>2, <2>1, <2>3, <2>4 DEF AddHeadersLocked, AddInv, TypeInv, Busy, Heights
    <2>8. QED
      BY <2>3, <2>5, <2>6, <2>7 DEF IInv
  <1>3. CASE AddBlock
    <2>1. status = "running" /\ Live /\ Live'
      BY <1>3 DEF AddBlock, Live
    <2>2. HeaderHeight = Store.curHeader /\ FlushInv /\ ViewInv /\ AddInv
      BY <1>0, <2>1, ListLength
    <2>3. /\ adding' \in [pc : {"idle"} \cup Busy, index : Heights]
          /\ adding'.pc \in {"headers", "execute"} /\ adding'.index = blockHeight + 1
          /\ adding'.pc = "execute" => blockHeight # HeaderHeight
      BY <1>0, <1>3, <2>2, LedgerAssumption DEF AddBlock, AddInv, Busy, Heights
    <2>4. TypeInv'
      BY <1>0, <1>3, <2>3 DEF AddBlock, TypeInv
    <2>5. DiskInv' /\ FlushInv' /\ ViewInv'
      BY <1>0, <1>3, <1>s, <2>2 DEF AddBlock, DiskInv, FlushInv
    <2>6. AddInv'
      <3>1. Store' = Store /\ UNCHANGED <<blockHeight, status, mem, flushing>> /\ adding.pc = "idle"
        BY <1>3, <1>s DEF AddBlock
      <3>2. /\ Store.curBlock = blockHeight /\ blockHeight \in Int /\ Store.curHeader \in Int
            /\ Store.curBlock <= Store.curHeader /\ Store.state = Store.curBlock
        BY <2>2, <3>1 DEF AddInv, ViewInv, HeaderPart, Heights
      <3>3. adding'.pc = "execute" => adding'.index <= Store.curHeader
        BY <2>2, <2>3, <3>2
      <3>4. QED
        BY <2>1, <2>2, <2>3, <3>1, <3>2, <3>3 DEF AddInv
    <2>7. QED
      BY <2>4, <2>5, <2>6 DEF IInv
  <1>4. CASE Live /\ AddBlockHeader
    <2>1. FlushInv /\ ViewInv /\ AddInv /\ status = "running" /\ adding.pc = "headers"
      BY <1>0, <1>4 DEF AddBlockHeader, AddInv
    <2>2. /\ adding.index \in Heights /\ adding.index \in Int /\ adding.index = blockHeight + 1
          /\ adding.index <= Store.curHeader + 1
      BY <1>0, <2>1, LedgerAssumption DEF TypeInv, AddInv, ViewInv, HeaderPart, Heights, Busy
    <2>3. /\ mem' \in Layers /\ Below' = Below /\ ViewInv'
          /\ Store'.curBlock = Store.curBlock /\ Store'.state = Store.state
          /\ adding.index <= Store'.curHeader
      BY <1>0, <1>4, <2>1, <2>2, HeadersStored DEF AddBlockHeader
    <2>4. adding' = [adding EXCEPT !.pc = "execute"] /\ UNCHANGED <<disk, blockHeight, status, flushing>>
      BY <1>4 DEF AddBlockHeader
    <2>5. TypeInv'
      BY <1>0, <1>4, <2>3 DEF AddBlockHeader, TypeInv, Busy
    <2>6. DiskInv' /\ FlushInv'
      BY <1>0, <1>4, <2>1, <2>3 DEF AddBlockHeader, DiskInv, FlushInv
    <2>7. AddInv'
      BY <1>0, <2>1, <2>2, <2>3, <2>4 DEF AddInv, TypeInv, Busy
    <2>8. QED
      BY <2>3, <2>5, <2>6, <2>7 DEF IInv
  <1>5. CASE Live /\ AddBlockError
    <2>1. FlushInv /\ ViewInv /\ AddInv
      BY <1>0, <1>5
    <2>2. TypeInv'
      BY <1>0, <1>5, LedgerAssumption DEF AddBlockError, TypeInv, NotAdding, Heights
    <2>3. DiskInv' /\ FlushInv' /\ ViewInv'
      BY <1>0, <1>5, <1>s, <2>1 DEF AddBlockError, DiskInv, FlushInv
    <2>4. AddInv'
      BY <1>5, <1>s, <2>1 DEF AddBlockError, AddInv, NotAdding, Busy
    <2>5. QED
      BY <2>2, <2>3, <2>4 DEF IInv
  <1>6. CASE Live /\ StoreBlockAer
    <2> DEFINE i == adding.index
               L == AerLayer(i)
               Y == Over(Store, L)
    <2>1. FlushInv /\ ViewInv /\ AddInv /\ status = "running" /\ adding.pc = "execute"
      BY <1>0, <1>6 DEF StoreBlockAer, AddInv
    <2>2. /\ i \in Heights /\ i = Store.curBlock + 1 /\ i <= Store.curHeader
          /\ Store.state = Store.curBlock /\ Store \in Layers
      BY <1>0, <2>1, OverLayer DEF AddInv, TypeInv, Store, Busy
    <2>3. /\ L \in Layers
          /\ BlockPart(Y) /\ HeaderPart(Y, storedHeaderCount)
          /\ Y.curHeader = Store.curHeader /\ Y.curBlock = i /\ Y.state = Store.state
      BY <2>1, <2>2, BlockWritten DEF ViewInv
    <2>4. mem' = Over(mem, L) /\ UNCHANGED <<disk, temp, storedHeaderCount, headerHashes>>
      BY <1>6 DEF StoreBlockAer
    <2> HIDE DEF L
    <2>5. mem' \in Layers /\ Store' = Y /\ Below' = Below
      BY <1>0, <2>3, <2>4, StoreWritten
    <2> HIDE DEF Y
    <2>6. TypeInv'
      BY <1>0, <1>6, <2>5 DEF StoreBlockAer, TypeInv, Busy
    <2>7. ViewInv'
      BY <2>1, <2>3, <2>4, <2>5 DEF ViewInv
    <2>8. FlushInv' /\ DiskInv'
      <3>1. UNCHANGED <<disk, temp, persistedHeight, status, flushing>>
        BY <1>6 DEF StoreBlockAer
      <3>2. Store'.curBlock = Store.curBlock + 1 /\ Store.curBlock \in Int
        BY <2>1, <2>2, <2>3, <2>5 DEF ViewInv, BlockPart, Heights
      <3>3. Below.curBlock \in Int
        BY <1>0, OverLayer DEF TypeInv, Below, Layers, Opt, None
      <3>4. DiskInv'
        BY <1>0, <3>1 DEF DiskInv
      <3>5. QED
        BY <2>1, <2>5, <3>1, <3>2, <3>3, <3>4 DEF FlushInv
    <2>9. AddInv'
      BY <1>0, <1>6, <2>1, <2>2, <2>3, <2>5 DEF StoreBlockAer, AddInv, TypeInv, Busy
    <2>10. QED
      BY <2>6, <2>7, <2>8, <2>9 DEF IInv
  <1>7. CASE Live /\ StoreBlockCache
    <2> DEFINE i == Store.curBlock
               L == CacheLayer(i)
               Y == Over(Store, L)
    <2>1. /\ FlushInv /\ ViewInv /\ AddInv /\ status = "running" /\ adding.pc = "cache"
          /\ adding.index = i
      BY <1>0, <1>7 DEF StoreBlockCache, AddInv
    <2>2. Store \in Layers /\ trieFrom \in Nat
      BY <1>0, OverLayer DEF TypeInv, Store
    <2>3. /\ L \in Layers
          /\ BlockPart(Y) /\ HeaderPart(Y, storedHeaderCount)
          /\ Y.curHeader = Store.curHeader /\ Y.curBlock = i /\ Y.state = i
      BY <2>1, <2>2, StateWritten DEF ViewInv
    <2>4. mem' = Over(mem, L) /\ UNCHANGED <<disk, temp, storedHeaderCount, headerHashes>>
      BY <1>7, <2>1 DEF StoreBlockCache
    <2> HIDE DEF L
    <2>5. mem' \in Layers /\ Store' = Y /\ Below' = Below
      BY <1>0, <2>3, <2>4, StoreWritten
    <2> HIDE DEF Y
    <2>6. TypeInv'
      BY <1>0, <1>7, <2>5 DEF StoreBlockCache, TypeInv, Busy
    <2>7. ViewInv'
      BY <2>1, <2>3, <2>4, <2>5 DEF ViewInv
    <2>8. FlushInv' /\ DiskInv'
      BY <1>0, <1>7, <2>1, <2>3, <2>5 DEF StoreBlockCache, DiskInv, FlushInv
    <2>9. AddInv'
      BY <1>0, <1>7, <2>1, <2>3, <2>5 DEF StoreBlockCache, AddInv, TypeInv, Busy
    <2>10. QED
      BY <2>6, <2>7, <2>8, <2>9 DEF IInv
  <1>8. CASE Live /\ StoreBlockPublish
    <2>1. FlushInv /\ ViewInv /\ AddInv
      BY <1>0, <1>8
    <2>2. TypeInv'
      BY <1>0, <1>8, LedgerAssumption DEF StoreBlockPublish, TypeInv, NotAdding, Heights
    <2>3. DiskInv' /\ FlushInv' /\ ViewInv'
      BY <1>0, <1>8, <1>s, <2>1 DEF StoreBlockPublish, DiskInv, FlushInv
    <2>4. AddInv'
      BY <1>0, <1>8, <1>s, <2>1 DEF StoreBlockPublish, AddInv, TypeInv, NotAdding, Busy
    <2>5. QED
      BY <2>2, <2>3, <2>4 DEF IInv
  <1>9. ASSUME NEW isSync \in BOOLEAN, Persist(isSync)
        PROVE  IInv'
    <2>1. /\ status = "running" /\ flushing.pc = "idle" /\ Live
          /\ FlushInv /\ ViewInv /\ AddInv /\ temp = Empty
      BY <1>0, <1>9 DEF Persist, Live, FlushInv
    <2>2. Store' = Store /\ disk' \in Layers /\ temp' \in Layers /\ mem' \in Layers
      BY <1>0, <1>9, <2>1, FlushUnseen
    <2>3. /\ temp' = mem /\ mem' = Empty /\ flushing' = [pc |-> "flush", isSync |-> isSync]
          /\ UNCHANGED <<disk, headerVars, stateVars, persistedHeight, adding, receiving, status>>
      BY <1>9 DEF Persist
    <2>4. Below' = Store /\ Below = disk
      BY <1>0, <2>1, <2>3, OverEmpty DEF Below, Store, TypeInv
    <2>5. TypeInv'
      BY <1>0, <2>2, <2>3 DEF TypeInv
    <2>6. DiskInv'
      BY <1>0, <2>3 DEF DiskInv
    <2>7. ViewInv' /\ AddInv'
      BY <2>1, <2>2, <2>3 DEF ViewInv, AddInv
    <2>8. FlushInv'
      <3>1. Consistent(Store)
        BY <2>1 DEF ViewInv, Consistent, HeaderPart
      <3>2. Store.curBlock \in Int
        BY <2>1 DEF ViewInv, BlockPart, Heights
      <3>3. QED
        BY <2>1, <2>2, <2>3, <2>4, <3>1, <3>2 DEF FlushInv
    <2>9. QED
      BY <2>5, <2>6, <2>7, <2>8 DEF IInv
  <1>10. CASE Live /\ Flush
    <2>1. FlushInv /\ ViewInv /\ AddInv /\ flushing.pc = "flush"
      BY <1>0, <1>10 DEF Flush
    <2>2. Store' = Store /\ disk' \in Layers /\ temp' \in Layers /\ mem' \in Layers
      BY <1>0, <1>10, <2>1, FlushUnseen
    <2>3. /\ disk' = Below /\ flushing' = [flushing EXCEPT !.pc = "flushed"]
          /\ UNCHANGED <<temp, mem, headerVars, stateVars, persistedHeight, adding, receiving, status>>
      BY <1>10 DEF Flush, Below
    <2>4. Below' = Below
      BY <1>0, <2>3, OverAgain DEF Below, TypeInv
    <2>5. TypeInv'
      BY <1>0, <2>2, <2>3 DEF TypeInv
    <2>6. Consistent(Below) /\ Below # Empty
      BY <2>1, NotEmpty DEF FlushInv
    <2>7. Below.curBlock \in Nat /\ Store.curBlock \in Nat
      BY <2>1, <2>6 DEF ViewInv, Consistent, BlockPart, Heights
    <2>8. DiskInv'
      <3>1. persistedHeight <= Below.curBlock
        <4>1. CASE disk = Empty
          BY <1>0, <2>7, <4>1 DEF DiskInv
        <4>2. CASE disk # Empty
          <5>1. persistedHeight <= disk.curBlock /\ disk.curBlock <= Below.curBlock
            BY <1>0, <2>1, <4>2 DEF DiskInv, FlushInv
          <5>2. disk.curBlock \in Int /\ persistedHeight \in Int
            BY <1>0, <4>2 DEF DiskInv, Consistent, BlockPart, Heights, TypeInv
          <5>3. QED
            BY <2>7, <5>1, <5>2
        <4>3. QED
          BY <4>1, <4>2
      <3>2. status' # "closed"
        BY <1>10, <2>3 DEF Live
      <3>3. QED
        BY <2>3, <2>6, <3>1, <3>2 DEF DiskInv
    <2>9. ViewInv' /\ AddInv'
      BY <1>0, <2>1, <2>2, <2>3 DEF ViewInv, AddInv, TypeInv
    <2>10. FlushInv'
      BY <1>0, <2>1, <2>2, <2>3, <2>4, <2>6, <2>7 DEF FlushInv, TypeInv
    <2>11. QED
      BY <2>5, <2>8, <2>9, <2>10 DEF IInv
  <1>11. CASE Live /\ FlushFailed
    <2>1. FlushInv /\ ViewInv /\ AddInv /\ flushing.pc = "flush"
      BY <1>0, <1>11 DEF FlushFailed
    <2>2. Store' = Store /\ disk' \in Layers /\ temp' \in Layers /\ mem' \in Layers
      BY <1>0, <1>11, <2>1, FlushUnseen
    <2>3. /\ temp' = Empty /\ flushing' = NotFlushing
          /\ status' = IF status = "final" THEN "crashed" ELSE status
          /\ UNCHANGED <<disk, headerVars, stateVars, persistedHeight, adding, receiving>>
      BY <1>11 DEF FlushFailed
    <2>4. Below' = disk
      BY <1>0, <2>3, OverEmpty DEF Below, TypeInv
    <2>5. TypeInv'
      BY <1>0, <2>2, <2>3 DEF TypeInv, NotFlushing
    <2>6. DiskInv'
      BY <1>0, <1>11, <2>3 DEF DiskInv, Live
    <2>7. ASSUME Live'
          PROVE  FlushInv' /\ ViewInv' /\ AddInv'
      <3>1. status # "final" /\ status' = status
        BY <2>3, <2>7 DEF Live
      <3>2. ViewInv' /\ AddInv'
        BY <2>1, <2>2, <2>3, <3>1 DEF ViewInv, AddInv
      <3>3. disk # Empty => disk.curBlock \in Int /\ disk.curBlock <= Store.curBlock
        <4>1. Consistent(Below) /\ Below # Empty
          BY <2>1, NotEmpty DEF FlushInv
        <4>2. Below.curBlock \in Int /\ Store.curBlock \in Int
          BY <2>1, <4>1 DEF ViewInv, Consistent, BlockPart, Heights
        <4>3. disk # Empty => disk.curBlock \in Int
          BY <1>0 DEF DiskInv, Consistent, BlockPart, Heights
        <4>4. QED
          BY <2>1, <4>1, <4>2, <4>3 DEF FlushInv
      <3>4. FlushInv'
        BY <2>2, <2>3, <2>4, <3>3 DEF FlushInv, NotFlushing
      <3>5. QED
        BY <3>2, <3>4
    <2>8. QED
      BY <2>5, <2>6, <2>7 DEF IInv
  <1>12. CASE Live /\ Flushed
    <2>1. /\ FlushInv /\ ViewInv /\ AddInv /\ flushing.pc = "flushed"
          /\ Below = disk /\ Consistent(disk)
      BY <1>0, <1>12 DEF Flushed, FlushInv
    <2>2. Store' = Store /\ disk' \in Layers /\ temp' \in Layers /\ mem' \in Layers
      BY <1>0, <1>12, <2>1, FlushUnseen
    <2>3. /\ temp' = Empty /\ flushing' = NotFlushing /\ persistedHeight' = disk.curBlock
          /\ status' = IF status = "final" THEN "closed" ELSE status
          /\ UNCHANGED <<disk, mem, headerVars, stateVars, adding, receiving>>
      BY <1>12 DEF Flushed
    <2>4. Below' = disk
      BY <1>0, <2>3, OverEmpty DEF Below, TypeInv
    <2>5. disk.curBlock \in Nat /\ disk # Empty
      BY <2>1, NotEmpty DEF Consistent, BlockPart, Heights
    <2>6. TypeInv'
      BY <1>0, <2>2, <2>3, <2>5 DEF TypeInv, NotFlushing
    <2>7. DiskInv'
      <3>1. ASSUME status' = "closed" PROVE disk.state = disk.curBlock
        <4>1. status = "final" /\ mem = Empty /\ adding.pc = "idle"
          BY <1>12, <2>1, <2>3, <3>1 DEF Live, AddInv
        <4>2. Store = disk
          BY <1>0, <2>1, <4>1, OverEmpty DEF Store, Below, TypeInv
        <4>3. QED
          BY <2>1, <4>1, <4>2 DEF AddInv
      <3>2. QED
        BY <2>1, <2>3, <2>5, <3>1 DEF DiskInv
    <2>8. ASSUME Live'
          PROVE  FlushInv' /\ ViewInv' /\ AddInv'
      <3>1. status # "final" /\ status' = status
        BY <2>3, <2>8 DEF Live
      <3>2. ViewInv' /\ AddInv'
        BY <2>1, <2>2, <2>3, <3>1 DEF ViewInv, AddInv
      <3>3. FlushInv'
        BY <2>1, <2>2, <2>3, <2>4, <2>5 DEF FlushInv, NotFlushing
      <3>4. QED
        BY <3>2, <3>3
    <2>9. QED
      BY <2>6, <2>7, <2>8 DEF IInv
  <1>13. CASE Close
    <2>1. FlushInv /\ ViewInv /\ AddInv /\ Live
      BY <1>0, <1>13 DEF Close, Live
    <2>2. TypeInv'
      BY <1>0, <1>13 DEF Close, TypeInv
    <2>3. DiskInv' /\ FlushInv' /\ ViewInv'
      BY <1>0, <1>13, <1>s, <2>1 DEF Close, DiskInv, FlushInv
    <2>4. AddInv'
      BY <1>13, <1>s, <2>1 DEF Close, AddInv
    <2>5. QED
      BY <2>2, <2>3, <2>4 DEF IInv
  <1>14. CASE FinalPersist
    <2>1. FlushInv /\ ViewInv /\ AddInv /\ flushing.pc = "idle" /\ temp = Empty /\ adding.pc = "idle"
      BY <1>0, <1>14 DEF FinalPersist, Live, FlushInv, AddInv
    <2>2. UNCHANGED <<disk, headerVars, stateVars, persistedHeight, adding, receiving>>
      BY <1>14 DEF FinalPersist
    <2>3. CASE mem = Empty
      <3>1. status' = "closed" /\ UNCHANGED <<temp, mem, flushing>>
        BY <1>14, <2>3 DEF FinalPersist
      <3>2. Store = disk
        BY <1>0, <2>1, <2>3, StoreOfDisk DEF TypeInv
      <3>3. disk.state = disk.curBlock
        BY <2>1, <3>2 DEF AddInv
      <3>4. TypeInv' /\ DiskInv' /\ ~Live'
        BY <1>0, <2>2, <3>1, <3>3 DEF TypeInv, DiskInv, Live
      <3>5. QED
        BY <3>4 DEF IInv
    <2>4. CASE mem # Empty
      <3>1. /\ status' = "final" /\ temp' = mem /\ mem' = Empty
            /\ flushing' = [pc |-> "flush", isSync |-> TRUE]
        BY <1>14, <2>4 DEF FinalPersist
      <3>2. Below' = Store /\ Below = disk /\ Store \in Layers
        BY <1>0, <2>1, <2>2, <3>1, OverEmpty, OverLayer DEF Below, Store, TypeInv
      <3>3. Store' = Store
        BY <3>1, <3>2, OverEmpty DEF Below, Store
      <3>4. TypeInv' /\ DiskInv'
        BY <1>0, <2>2, <3>1, EmptyLayer DEF TypeInv, DiskInv
      <3>5. ViewInv' /\ AddInv'
        BY <2>1, <2>2, <3>1, <3>3 DEF ViewInv, AddInv
      <3>6. Consistent(Store) /\ Store.curBlock \in Int
        BY <2>1 DEF ViewInv, Consistent, HeaderPart, BlockPart, Heights
      <3>7. FlushInv'
        BY <2>1, <2>2, <3>1, <3>2, <3>3, <3>6 DEF FlushInv
      <3>8. QED
        BY <3>4, <3>5, <3>7 DEF IInv
    <2>5. QED
      BY <2>3, <2>4
  <1>15. CASE Crash
    <2>1. TypeInv' /\ DiskInv' /\ ~Live'
      BY <1>0, <1>15 DEF Crash, TypeInv, DiskInv, Live
    <2>2. QED
      BY <2>1 DEF IInv
  <1>16. CASE Start
    <2>1. /\ UNCHANGED disk /\ temp' = Empty /\ adding' = NotAdding /\ flushing' = NotFlushing
          /\ receiving' = [p \in Peers |-> NotReceiving] /\ disk \in Layers
      BY <1>0, <1>16 DEF Start, TypeInv
    <2>2. Below' = disk
      BY <2>1, OverEmpty DEF Below
    <2>3. CASE CreateGenesis
      <3>1. /\ disk = Empty /\ mem' = GenesisLayer /\ headerHashes' = <<0>> /\ storedHeaderCount' = 0
            /\ blockHeight' = 0 /\ trieFrom' = 0 /\ persistedHeight' = 0 /\ status' = "running"
        BY <2>3 DEF CreateGenesis
      <3>2. Store' = GenesisLayer
        BY <2>1, <2>2, <3>1, GenesisConsistent, EmptyOver DEF Store, Below
      <3>3. TypeInv'
        BY <2>1, <3>1, GenesisConsistent, EmptyLayer, LedgerAssumption
        DEF TypeInv, NotAdding, NotFlushing, NotReceiving, Heights, Busy
      <3>4. DiskInv' /\ FlushInv'
        BY <2>1, <2>2, <3>1 DEF DiskInv, FlushInv, NotFlushing
      <3>5. ViewInv'
        BY <3>1, <3>2, GenesisConsistent, GenesisChain DEF ViewInv
      <3>6. AddInv'
        BY <2>1, <3>1, <3>2, GenesisConsistent, LedgerAssumption DEF AddInv, NotAdding, Busy, Heights
      <3>7. QED
        BY <3>3, <3>4, <3>5, <3>6 DEF IInv
    <2>4. CASE Restore
      <3>1. disk # Empty /\ mem' = Empty /\ Consistent(disk)
        BY <1>0, <2>4 DEF Restore, DiskInv
      <3>2. PICK c \in Nat : HeaderPart(disk, c)
        BY <3>1 DEF Consistent
      <3>3. BlockPart(disk) /\ disk.curBlock \in Nat /\ disk.curBlock \in Heights
        BY <3>1 DEF Consistent, BlockPart, Heights
      <3>4. /\ WalkPossible(disk) /\ RestoredHeaders(disk) = Chain(0, disk.curHeader)
            /\ Len(StoredHashes(disk)) = c
        BY <3>2, <3>3, HeadersRestored
      <3>5. Store' = disk
        BY <2>1, <3>1, OverEmpty DEF Store
      <3>6. CASE ~RootFound(disk)
        <4>1. status' = "failed" /\ UNCHANGED <<headerVars, stateVars, persistedHeight>>
          BY <2>4, <3>6 DEF Restore
        <4>2. TypeInv' /\ DiskInv' /\ ~Live'
          BY <1>0, <2>1, <3>1, <4>1, EmptyLayer, LedgerAssumption
          DEF TypeInv, DiskInv, Live, NotAdding, NotFlushing, NotReceiving, Heights, Busy
        <4>3. QED
          BY <4>2 DEF IInv
      <3>7. CASE RootFound(disk)
        <4>1. /\ headerHashes' = Chain(0, disk.curHeader) /\ storedHeaderCount' = c
              /\ blockHeight' = disk.curBlock /\ persistedHeight' = disk.curBlock
              /\ trieFrom' = IF disk.curBlock = 0 THEN 1 ELSE disk.root[disk.curBlock]
              /\ status' = "running"
          BY <2>4, <3>4, <3>7 DEF Restore
        <4>2. disk.state = disk.curBlock
          BY <3>3, <3>7 DEF RootFound, BlockPart, Heights
        <4>3. trieFrom' \in Nat
          BY <2>1, <3>3, <3>7, <4>1 DEF RootFound, Layers, Opt
        <4>4. TypeInv'
          BY <2>1, <3>1, <3>3, <4>1, <4>3, EmptyLayer, LedgerAssumption
          DEF TypeInv, NotAdding, NotFlushing, NotReceiving, Heights, Busy
        <4>5. DiskInv' /\ FlushInv'
          BY <2>1, <2>2, <3>1, <3>3, <3>5, <4>1 DEF DiskInv, FlushInv, NotFlushing
        <4>6. ViewInv'
          BY <3>2, <3>3, <3>5, <4>1 DEF ViewInv
        <4>7. AddInv'
          BY <2>1, <3>3, <3>5, <4>1, <4>2 DEF AddInv, NotAdding, Busy
        <4>8. QED
          BY <4>4, <4>5, <4>6, <4>7 DEF IInv
      <3>8. QED
        BY <3>6, <3>7
    <2>5. QED
      BY <1>16, <2>3, <2>4 DEF Start
  <1>17. CASE UNCHANGED vars
    <2>1. TypeInv' /\ DiskInv' /\ Live' = Live
      BY <1>0, <1>17 DEF vars, TypeInv, DiskInv, Live
    <2>2. FlushInv /\ ViewInv /\ AddInv => FlushInv' /\ ViewInv' /\ AddInv'
      BY <1>17, <1>s DEF vars, FlushInv, AddInv
    <2>3. QED
      BY <1>0, <2>1, <2>2 DEF IInv
  <1>18. QED
    BY <1>1, <1>2, <1>3, <1>4, <1>5, <1>6, <1>7, <1>8, <1>9, <1>10, <1>11, <1>12, <1>13,
       <1>14, <1>15, <1>16, <1>17
    DEF Next

-----------------------------------------------------------------------------
(* The theorems.                                                           *)

LEMMA Invariant == Spec => []IInv
  BY InitIInv, NextIInv, PTL DEF Spec

(* For every number of peers, length of the chain and size of the batches, *)
(* the list of hashes is the chain up to the current header, reaches the   *)
(* highest block, and every header of it can be read (addHeaders, init).   *)
THEOREM HeadersAreChain == Spec => []HeaderChain
  <1>1. ASSUME IInv PROVE HeaderChain
    <2> SUFFICES ASSUME Live
                 PROVE  /\ headerHashes = Chain(0, HeaderHeight) /\ blockHeight <= HeaderHeight
                        /\ Store.curHeader = HeaderHeight
                        /\ \A i \in 0 .. HeaderHeight : Store.block[i] # NoBlock
      BY DEF HeaderChain
    <2>1. ViewInv /\ AddInv /\ TypeInv /\ HeaderHeight = Store.curHeader
      BY <1>1, ListLength DEF IInv
    <2>2. blockHeight <= Store.curBlock
      BY <2>1 DEF AddInv, TypeInv, Busy, Heights
    <2>3. QED
      BY <2>1, <2>2 DEF ViewInv, BlockPart, HeaderPart, AddInv, Heights
  <1>2. QED
    BY <1>1, Invariant, PTL

(* Whatever moment the node stopped at, init rebuilds the whole list of    *)
(* hashes from the batches and the walk back from the current header.      *)
THEOREM HeadersSurvive == Spec => []HeadersRecoverable
  <1>1. ASSUME IInv PROVE HeadersRecoverable
    <2> SUFFICES ASSUME disk # Empty
                 PROVE  WalkPossible(disk) /\ RestoredHeaders(disk) = Chain(0, disk.curHeader)
      BY DEF HeadersRecoverable
    <2>1. BlockPart(disk) /\ \E c \in Nat : HeaderPart(disk, c)
      BY <1>1 DEF IInv, DiskInv, Consistent
    <2>2. QED
      BY <2>1, HeadersRestored
  <1>2. QED
    BY <1>1, Invariant, PTL

(* A traceable block of the ledger stays readable as a block, whatever     *)
(* headers arrive late and whatever is flushed, refused or lost.           *)
THEOREM BlocksStay == Spec => []BlocksKept
  <1>1. ASSUME IInv PROVE BlocksKept
    <2> SUFFICES ASSUME Live, NEW i \in 0 .. blockHeight,
                        MaxTraceableBlocks = 0 \/ i > blockHeight - MaxTraceableBlocks
                 PROVE  \/ Store.block[i] = "block"
                        \/ adding.pc \in {"cache", "publish"} /\ i = adding.index - MaxTraceableBlocks
      BY DEF BlocksKept
    <2>1. ViewInv /\ AddInv /\ TypeInv /\ MaxTraceableBlocks \in Nat /\ blockHeight \in Nat
      BY <1>1, LedgerAssumption DEF IInv, AddInv, Heights
    <2>2. CASE adding.pc \in {"idle", "headers", "execute"}
      BY <2>1, <2>2 DEF AddInv, ViewInv, HeaderPart
    <2>3. CASE adding.pc \in {"cache", "publish"}
      <3>1. Store.curBlock = blockHeight + 1 /\ adding.index = blockHeight + 1
        BY <2>1, <2>3 DEF AddInv, Busy
      <3>2. CASE i = adding.index - MaxTraceableBlocks
        BY <2>3, <3>2
      <3>3. CASE i # adding.index - MaxTraceableBlocks
        <4>1. i \in 0 .. Store.curBlock
          BY <2>1, <3>1
        <4>2. MaxTraceableBlocks = 0 \/ i > Store.curBlock - MaxTraceableBlocks
          BY <2>1, <3>1, <3>3
        <4>3. QED
          BY <2>1, <4>1, <4>2 DEF ViewInv, HeaderPart
      <3>4. QED
        BY <3>2, <3>3
    <2>4. QED
      BY <2>1, <2>2, <2>3 DEF TypeInv, Busy
  <1>2. QED
    BY <1>1, Invariant, PTL

(* The two writes of storeBlock are flushed apart by at most one block,    *)
(* and a node that was shut down finds the state of its current block.     *)
THEOREM SplitBounded == Spec => []SplitAtMostOne
  <1>1. ASSUME IInv PROVE SplitAtMostOne
    <2> SUFFICES ASSUME disk # Empty
                 PROVE  /\ disk.state \in {disk.curBlock, disk.curBlock - 1}
                        /\ status = "closed" => RootFound(disk) /\ disk.state = disk.curBlock
      BY DEF SplitAtMostOne
    <2>1. BlockPart(disk) /\ (status = "closed" => disk.state = disk.curBlock)
      BY <1>1 DEF IInv, DiskInv, Consistent
    <2>2. QED
      BY <2>1 DEF BlockPart, RootFound
  <1>2. QED
    BY <1>1, Invariant, PTL

(* What persist has reported as persisted is there after every start.      *)
THEOREM PersistedNeverLost == Spec => PersistedStays
  <1> DEFINE Kept == (status \in {"closed", "crashed"} /\ status' = "running")
                        => (blockHeight' >= persistedHeight)
  <1>1. ASSUME IInv, [Next]_vars PROVE [Kept]_vars
    <2> SUFFICES ASSUME Next, status \in {"closed", "crashed"}, status' = "running"
                 PROVE  blockHeight' >= persistedHeight
      BY <1>1
    <2>1. Start
      <3>1. ~Live
        BY DEF Live
      <3>2. ~Crash /\ ~FinalPersist /\ ~Close /\ ~AddBlock
        BY DEF Crash, FinalPersist, Close, AddBlock
      <3>3. \A s \in BOOLEAN : ~Persist(s)
        BY DEF Persist
      <3>4. \A p \in Peers, from, to \in 1 .. MaxHeight : ~AddHeaders(p, from, to)
        BY DEF AddHeaders
      <3>5. QED
        BY <3>1, <3>2, <3>3, <3>4 DEF Next
    <2>2. CASE CreateGenesis
      BY <1>1, <2>2 DEF CreateGenesis, IInv, DiskInv
    <2>3. CASE Restore
      BY <1>1, <2>3 DEF Restore, IInv, DiskInv, TypeInv, Consistent, BlockPart, Heights
    <2>4. QED
      BY <2>1, <2>2, <2>3 DEF Start
  <1>2. QED
    BY <1>1, Invariant, PTL DEF Spec, PersistedStays

(* Readers of the store do not see a flush, be it done, refused or over.   *)
THEOREM FlushesUnseen ==
  Spec => [][Live /\ (Flush \/ FlushFailed \/ Flushed \/ Persist(TRUE) \/ Persist(FALSE))
               => Store' = Store]_vars
  <1>1. ASSUME IInv, [Next]_vars
        PROVE  [Live /\ (Flush \/ FlushFailed \/ Flushed \/ Persist(TRUE) \/ Persist(FALSE))
                  => Store' = Store]_vars
    BY <1>1, FlushUnseen DEF IInv
  <1>2. QED
    BY <1>1, Invariant, PTL DEF Spec
=============================================================================
