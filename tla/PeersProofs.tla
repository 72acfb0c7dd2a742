----------------------------- MODULE PeersProofs -----------------------------
(***************************************************************************)
(* Proofs about the connections and the book of addresses of module Peers, *)
(* for all nodes, seeds and limits: how an address comes to be in the book *)
(* without a connection.                                                   *)
(***************************************************************************)
EXTENDS Peers, FiniteSetTheorems, TLAPS

Conns ==
    [addr : Nodes, out : BOOLEAN, reg : {"new", "taken", "in", "gone"},
     drop : {"no", "identical", "already", "other"},
     handler : {"idle", "checked", "registered", "ended"}, version : BOOLEAN,
     handled : Nat]

Books ==
    [connected : SUBSET Nodes, bad : SUBSET Nodes, unconnected : [Nodes -> Nat],
     pool : Seq(Nodes)]

(* The address of a version that was accepted is another node's, and only  *)
(* a connection to the node itself is dropped as identical.                *)
ConnOK(p) ==
    /\ p.reg = "new" => p.handler = "idle"
    /\ p.handler \in {"checked", "registered"} => p.version /\ p.addr # Self
    /\ p.drop = "identical" => p.version /\ p.addr = Self

(* An address is connected or unconnected, never both.                     *)
BookOK(b) ==
    /\ b \in Books
    /\ Len(b.pool) <= PoolSize
    /\ Self \notin b.connected
    /\ \A a \in b.connected : b.unconnected[a] = 0

ConnsOK == conn \in [Slots -> Conns \cup {Free}] /\ \A c \in Live : ConnOK(conn[c])

IInv == ConnsOK /\ BookOK(Book) /\ attempted \subseteq Nodes /\ failed \in [Nodes -> Nat]

-----------------------------------------------------------------------------
(* The book.                                                               *)

(* Addresses leave neither the pool nor, unless they enter it or it is     *)
(* full, the state in which they may be back-filled.                       *)
Keeps(b, r) ==
    \/ Len(r.pool) = PoolSize
    \/ \A x \in Nodes :
          /\ x \in Range(b.pool) => x \in Range(r.pool)
          /\ b.unconnected[x] = 0 => r.unconnected[x] = 0 \/ x \in Range(r.pool)

(* The book is what SetBook makes of it.                                   *)
LEMMA BookSet ==
    ASSUME NEW b \in Books, SetBook(b)
    PROVE  Book' = b
BY DEF SetBook, Book, Books

LEMMA BookFields ==
    /\ Book.connected = connected /\ Book.bad = bad
    /\ Book.unconnected = unconnected /\ Book.pool = pool
BY DEF Book

(* What an address is appended to holds it.                                *)
LEMMA RangeAppend ==
    ASSUME NEW s \in Seq(Nodes), NEW a \in Nodes
    PROVE  Range(Append(s, a)) = Range(s) \cup {a}
<1>1. /\ DOMAIN Append(s, a) = 1 .. Len(s) + 1 /\ DOMAIN s = 1 .. Len(s)
      /\ \A i \in 1 .. Len(s) : Append(s, a)[i] = s[i]
      /\ Append(s, a)[Len(s) + 1] = a
      /\ Len(s) \in Nat
  OBVIOUS
<1>2. DOMAIN Append(s, a) = DOMAIN s \cup {Len(s) + 1} BY <1>1
<1> QED BY <1>1, <1>2 DEF Range

LEMMA Pushed ==
    ASSUME NEW b \in Books, NEW a \in Nodes, Len(b.pool) <= PoolSize
    PROVE  LET r == PushToPoolOrDrop(b, a)
           IN  /\ r \in Books /\ Len(r.pool) <= PoolSize
               /\ r.connected = b.connected /\ r.unconnected = b.unconnected
               /\ Range(b.pool) \subseteq Range(r.pool)
               /\ a \in Range(r.pool) \/ Len(r.pool) = PoolSize
<1>1. b.pool \in Seq(Nodes) /\ Len(b.pool) \in Nat /\ PoolSize \in Nat
  BY PeersAssumption DEF Books
<1>2. CASE Len(b.pool) < PoolSize
  <2> DEFINE u == Append(b.pool, a)
  <2>1. PushToPoolOrDrop(b, a) = [b EXCEPT !.pool = u] BY <1>2 DEF PushToPoolOrDrop
  <2>2. u \in Seq(Nodes) /\ Len(u) = Len(b.pool) + 1 BY <1>1
  <2>3. Range(u) = Range(b.pool) \cup {a} BY <1>1, RangeAppend
  <2> HIDE DEF u
  <2>4. /\ [b EXCEPT !.pool = u] \in Books /\ [b EXCEPT !.pool = u].pool = u
        /\ [b EXCEPT !.pool = u].connected = b.connected
        /\ [b EXCEPT !.pool = u].unconnected = b.unconnected
    BY <2>2 DEF Books
  <2>5. Len(u) <= PoolSize BY <1>1, <1>2, <2>2
  <2> QED BY <2>1, <2>3, <2>4, <2>5
<1>3. CASE Len(b.pool) = PoolSize
  BY <1>1, <1>3 DEF PushToPoolOrDrop
<1> QED BY <1>1, <1>2, <1>3

LEMMA BackFilled ==
    ASSUME NEW b, BookOK(b), NEW a \in Nodes \cup {Ephemeral}
    PROVE  LET r == BackFill(b, a)
           IN  BookOK(r) /\ r.connected = b.connected /\ Keeps(b, r)
<1> DEFINE r == BackFill(b, a)
<1>1. CASE a = Ephemeral \/ a \in b.bad \cup b.connected \/ b.unconnected[a] > 0
  <2>1. r = b BY <1>1 DEF BackFill
  <2> QED BY <2>1 DEF Keeps
<1>2. CASE ~(a = Ephemeral \/ a \in b.bad \cup b.connected \/ b.unconnected[a] > 0)
  <2> DEFINE c == [b EXCEPT !.unconnected[a] = ConnRetries]
  <2>0. a \in Nodes /\ a \notin b.connected BY <1>2
  <2>1. b \in Books /\ b.unconnected \in [Nodes -> Nat] BY DEF BookOK, Books
  <2>2. ConnRetries \in Nat BY PeersAssumption
  <2>3. c \in Books BY <2>0, <2>1, <2>2 DEF Books
  <2>4. /\ c.connected = b.connected /\ c.pool = b.pool
        /\ \A x \in Nodes : c.unconnected[x] = IF x = a THEN ConnRetries ELSE b.unconnected[x]
    BY <2>0, <2>1 DEF Books
  <2>5. r = PushToPoolOrDrop(c, a) BY <1>2 DEF BackFill
  <2> HIDE DEF c, r
  <2>6. /\ r \in Books /\ Len(r.pool) <= PoolSize
        /\ r.connected = c.connected /\ r.unconnected = c.unconnected
        /\ Range(c.pool) \subseteq Range(r.pool)
        /\ a \in Range(r.pool) \/ Len(r.pool) = PoolSize
    BY <2>0, <2>3, <2>4, <2>5, Pushed DEF BookOK
  <2>7. BookOK(r) BY <2>0, <2>1, <2>4, <2>6 DEF BookOK, Books
  <2>8. Keeps(b, r) BY <2>4, <2>6 DEF Keeps
  <2> QED BY <2>4, <2>6, <2>7, <2>8 DEF r
<1> QED BY <1>1, <1>2

LEMMA RegisteredBad ==
    ASSUME NEW b, BookOK(b), NEW a \in Nodes
    PROVE  LET r == RegisterBadAddr(b, a)
           IN  /\ BookOK(r) /\ r.connected = b.connected /\ Keeps(b, r)
               /\ r.unconnected[a] = 0 \/ a \in Range(r.pool) \/ Len(r.pool) = PoolSize
<1> DEFINE r == RegisterBadAddr(b, a)
<1>0. b \in Books /\ b.unconnected \in [Nodes -> Nat] /\ b.unconnected[a] \in Nat
  BY DEF BookOK, Books
<1>1. CASE b.unconnected[a] > 1
  <2> DEFINE c == [b EXCEPT !.unconnected[a] = b.unconnected[a] - 1]
  <2>2. b.unconnected[a] - 1 \in Nat /\ a \notin b.connected BY <1>0, <1>1 DEF BookOK
  <2>3. c \in Books BY <1>0, <2>2 DEF Books
  <2>4. /\ c.connected = b.connected /\ c.pool = b.pool
        /\ \A x \in Nodes :
              c.unconnected[x] = IF x = a THEN b.unconnected[a] - 1 ELSE b.unconnected[x]
    BY <1>0 DEF Books
  <2>5. r = PushToPoolOrDrop(c, a) BY <1>1 DEF RegisterBadAddr
  <2> HIDE DEF c, r
  <2>6. /\ r \in Books /\ Len(r.pool) <= PoolSize
        /\ r.connected = c.connected /\ r.unconnected = c.unconnected
        /\ Range(c.pool) \subseteq Range(r.pool)
        /\ a \in Range(r.pool) \/ Len(r.pool) = PoolSize
    BY <2>3, <2>4, <2>5, Pushed DEF BookOK
  <2>7. BookOK(r) BY <1>0, <2>2, <2>4, <2>6 DEF BookOK, Books
  <2>8. Keeps(b, r) BY <1>1, <2>4, <2>6 DEF Keeps
  <2> QED BY <2>4, <2>6, <2>7, <2>8 DEF r
<1>2. CASE ~(b.unconnected[a] > 1)
  <2>1. r = [b EXCEPT !.bad = b.bad \cup {a}, !.unconnected[a] = 0]
    BY <1>2 DEF RegisterBadAddr
  <2> DEFINE un == [b.unconnected EXCEPT ![a] = 0]
  <2> HIDE DEF r
  <2>u. /\ un \in [Nodes -> Nat]
        /\ \A x \in Nodes : un[x] = IF x = a THEN 0 ELSE b.unconnected[x]
    BY <1>0
  <2>r. r = [b EXCEPT !.bad = b.bad \cup {a}, !.unconnected = un] BY <1>0, <2>1 DEF Books
  <2> HIDE DEF un
  <2>2. /\ r \in Books /\ r.connected = b.connected /\ r.pool = b.pool
        /\ \A x \in Nodes : r.unconnected[x] = IF x = a THEN 0 ELSE b.unconnected[x]
    BY <1>0, <2>u, <2>r DEF Books
  <2>3. BookOK(r) BY <1>0, <2>2 DEF BookOK, Books
  <2>4. Keeps(b, r) BY <2>2 DEF Keeps
  <2> QED BY <2>2, <2>3, <2>4 DEF r
<1> QED BY <1>1, <1>2

LEMMA PushedAll ==
    ASSUME NEW b \in Books, NEW s \in Seq(Nodes), Len(b.pool) <= PoolSize
    PROVE  LET r == PushAll(b, s)
           IN  /\ r \in Books /\ Len(r.pool) <= PoolSize
               /\ r.connected = b.connected /\ r.unconnected = b.unconnected
               /\ Range(b.pool) \subseteq Range(r.pool)
               /\ Range(s) \subseteq Range(r.pool) \/ Len(r.pool) = PoolSize
<1> DEFINE q == b.pool
           room == PoolSize - Len(q)
           n == IF Len(s) < room THEN Len(s) ELSE room
           t == SubSeq(s, 1, n)
           u == q \o t
<1>1. q \in Seq(Nodes) /\ Len(q) \in Nat /\ PoolSize \in Nat /\ Len(s) \in Nat
  BY PeersAssumption DEF Books
<1>2. n \in 0 .. Len(s) /\ (n = Len(s) \/ Len(q) + n = PoolSize) /\ Len(q) + n <= PoolSize
  <2>1. Len(q) <= PoolSize OBVIOUS
  <2>2. room \in Nat /\ Len(q) + room = PoolSize BY <1>1, <2>1
  <2> HIDE DEF q, room
  <2>3. CASE Len(s) < room BY <1>1, <2>2, <2>3
  <2>4. CASE ~(Len(s) < room) BY <1>1, <2>2, <2>4
  <2> QED BY <2>3, <2>4
<1> HIDE DEF n
<1>3. t \in Seq(Nodes) /\ Len(t) = n /\ \A i \in 1 .. n : t[i] = s[i]
  <2>1. \A i \in 1 .. n : s[i] \in Nodes BY <1>1, <1>2
  <2>2. t = [i \in 1 .. n |-> s[i]] BY <1>1, <1>2 
  <2>3. n \in Nat BY <1>1, <1>2
  <2> HIDE DEF t
  <2> QED BY <2>1, <2>2, <2>3
<1> HIDE DEF t
<1>4. /\ u \in Seq(Nodes) /\ Len(u) = Len(q) + n /\ DOMAIN u = 1 .. Len(q) + n
      /\ \A i \in 1 .. Len(q) : u[i] = q[i]
      /\ \A i \in 1 .. n : u[Len(q) + i] = t[i]
  BY <1>1, <1>2, <1>3
<1> HIDE DEF u
<1>5. Range(q) \subseteq Range(u)
  <2> SUFFICES ASSUME NEW i \in DOMAIN q PROVE \E j \in DOMAIN u : u[j] = q[i]
    BY DEF Range
  <2>1. i \in 1 .. Len(q) BY <1>1
  <2>2. i \in DOMAIN u BY <1>1, <1>2, <1>4, <2>1
  <2> QED BY <1>4, <2>1, <2>2
<1>6. n = Len(s) => Range(s) \subseteq Range(u)
  <2> SUFFICES ASSUME n = Len(s), NEW i \in DOMAIN s PROVE \E j \in DOMAIN u : u[j] = s[i]
    BY DEF Range
  <2>1. i \in 1 .. n OBVIOUS
  <2>2. Len(q) + i \in DOMAIN u BY <1>1, <1>2, <1>4, <2>1
  <2>3. u[Len(q) + i] = s[i] BY <1>3, <1>4, <2>1
  <2> QED BY <2>2, <2>3
<1>7. PushAll(b, s) = [b EXCEPT !.pool = u] BY DEF PushAll, u, t, n
<1> HIDE DEF q
<1>8. /\ [b EXCEPT !.pool = u] \in Books /\ [b EXCEPT !.pool = u].pool = u
      /\ [b EXCEPT !.pool = u].connected = b.connected
      /\ [b EXCEPT !.pool = u].unconnected = b.unconnected
  BY <1>4 DEF Books
<1>9. Len(u) <= PoolSize /\ (n = Len(s) \/ Len(u) = PoolSize) BY <1>2, <1>4
<1> QED BY <1>5, <1>6, <1>7, <1>8, <1>9 DEF q

(* The seeds that are not connected are pushed to an empty pool.           *)
LEMMA SeedsAdded ==
    ASSUME NEW b, BookOK(b), NEW more \in Orders(Seeds \ b.connected)
    PROVE  LET r == AddSeeds(b, more)
           IN  BookOK(r) /\ r.connected = b.connected /\ Keeps(b, r)
<1> DEFINE S == Seeds \ b.connected
           un == [a \in Nodes |-> IF a \in Range(more) THEN ConnRetries ELSE b.unconnected[a]]
           c == [b EXCEPT !.bad = b.bad \ Range(more), !.unconnected = un]
           r == AddSeeds(b, more)
<1>1. b \in Books /\ Len(b.pool) <= PoolSize BY DEF BookOK
<1>2. Cardinality(S) \in Nat /\ S \subseteq Nodes
  <2>1. IsFiniteSet(S) BY PeersAssumption, FS_Subset
  <2> QED BY <2>1, FS_CardinalityType, PeersAssumption
<1>3. more \in [1 .. Cardinality(S) -> S] /\ Range(more) = S BY DEF Orders
<1>4. more \in Seq(Nodes)
  <2>1. PICK m \in Nat : m = Cardinality(S) BY <1>2
  <2> HIDE DEF S
  <2>2. more \in [1 .. m -> Nodes] BY <1>2, <1>3, <2>1
  <2> QED BY <2>2
<1>5. Range(more) \subseteq Nodes /\ \A a \in Range(more) : a \notin b.connected
  BY <1>2, <1>3
<1>6. /\ un \in [Nodes -> Nat]
      /\ \A x \in Nodes : un[x] = IF x \in Range(more) THEN ConnRetries ELSE b.unconnected[x]
  <2>1. ConnRetries \in Nat BY PeersAssumption
  <2> QED BY <1>1, <2>1 DEF Books
<1>7. r = PushAll(c, more)
  <2> DEFINE d == [b EXCEPT !.bad = b.bad \ Range(more)]
  <2>1. d.unconnected = b.unconnected BY <1>1 DEF Books
  <2>2. Unconnected(d, more) = [d EXCEPT !.unconnected = un] BY <2>1 DEF Unconnected
  <2>3. [d EXCEPT !.unconnected = un] = c BY <1>1 DEF Books
  <2> QED BY <2>2, <2>3 DEF AddSeeds
<1> HIDE DEF S, un, r
<1>8. c \in Books /\ c.connected = b.connected /\ c.pool = b.pool /\ c.unconnected = un
  BY <1>1, <1>6 DEF Books
<1> HIDE DEF c
<1>9. /\ r \in Books /\ Len(r.pool) <= PoolSize
      /\ r.connected = c.connected /\ r.unconnected = c.unconnected
      /\ Range(c.pool) \subseteq Range(r.pool)
      /\ Range(more) \subseteq Range(r.pool) \/ Len(r.pool) = PoolSize
  BY <1>1, <1>4, <1>7, <1>8, PushedAll
<1>10. BookOK(r) BY <1>1, <1>5, <1>6, <1>8, <1>9 DEF BookOK, Books
<1>11. Keeps(b, r) BY <1>6, <1>8, <1>9 DEF Keeps
<1> QED BY <1>8, <1>9, <1>10, <1>11 DEF r

LEMMA RegisteredConnected ==
    ASSUME NEW b, BookOK(b), NEW a \in Nodes, a # Self
    PROVE  LET r == RegisterConnectedAddr(b, a)
           IN  BookOK(r) /\ r.connected = b.connected \cup {a} /\ Keeps(b, r)
<1> DEFINE un == [b.unconnected EXCEPT ![a] = 0]
           r == RegisterConnectedAddr(b, a)
<1>0. b \in Books /\ b.unconnected \in [Nodes -> Nat] BY DEF BookOK, Books
<1>1. /\ un \in [Nodes -> Nat]
      /\ \A x \in Nodes : un[x] = IF x = a THEN 0 ELSE b.unconnected[x]
  BY <1>0
<1>2. r = [b EXCEPT !.unconnected = un, !.connected = b.connected \cup {a}]
  BY <1>0 DEF RegisterConnectedAddr, Books
<1> HIDE DEF un, r
<1>3. /\ r \in Books /\ r.pool = b.pool /\ r.unconnected = un
      /\ r.connected = b.connected \cup {a}
  BY <1>0, <1>1, <1>2 DEF Books
<1>4. BookOK(r) BY <1>0, <1>1, <1>3 DEF BookOK, Books
<1>5. Keeps(b, r) BY <1>1, <1>3 DEF Keeps
<1> QED BY <1>3, <1>4, <1>5 DEF r

LEMMA Unregistered ==
    ASSUME NEW b, BookOK(b), NEW a
    PROVE  LET r == UnregisterConnectedAddr(b, a)
           IN  /\ BookOK(r) /\ r.connected = b.connected \ {a}
               /\ r.pool = b.pool /\ r.unconnected = b.unconnected
<1> DEFINE r == UnregisterConnectedAddr(b, a)
<1>1. b \in Books BY DEF BookOK
<1>2. /\ r \in Books /\ r.pool = b.pool /\ r.unconnected = b.unconnected
      /\ r.connected = b.connected \ {a}
  BY <1>1 DEF UnregisterConnectedAddr, Books
<1> HIDE DEF r
<1>3. BookOK(r) BY <1>2 DEF BookOK
<1> QED BY <1>2, <1>3 DEF r

LEMMA RegisteredGood ==
    ASSUME NEW b, BookOK(b), NEW a
    PROVE  LET r == RegisterGoodAddr(b, a)
           IN  BookOK(r) /\ r.connected = b.connected /\ Keeps(b, r)
<1> DEFINE r == RegisterGoodAddr(b, a)
<1>1. b \in Books BY DEF BookOK
<1>2. /\ r \in Books /\ r.pool = b.pool /\ r.unconnected = b.unconnected
      /\ r.connected = b.connected
  BY <1>1 DEF RegisterGoodAddr, Books
<1> HIDE DEF r
<1>3. BookOK(r) BY <1>2 DEF BookOK
<1>4. Keeps(b, r) BY <1>2 DEF Keeps
<1> QED BY <1>2, <1>3, <1>4 DEF r

-----------------------------------------------------------------------------
(* Connections.                                                            *)

(* A connection that Server.run has not dropped stays what it was.         *)
Continues(p, q) ==
    p # Free /\ p.reg # "gone" =>
        /\ q # Free /\ q.reg # "gone" /\ q.addr = p.addr /\ q.out = p.out
        /\ p.version => q.version
        /\ p.reg # "new" => q.reg # "new"

LEMMA FreeIsNone == Free \notin Conns
BY DEF Free, Conns

LEMMA LiveConn ==
    ASSUME ConnsOK, NEW c \in Slots
    PROVE  /\ c \in Live <=> conn[c] \in Conns
           /\ c \in Live => ConnOK(conn[c])
           /\ c \in Live \/ conn[c] = Free
BY FreeIsNone DEF ConnsOK, Live

(* A step of one slot.                                                     *)
LEMMA SlotSet ==
    ASSUME ConnsOK, NEW c \in Slots, NEW q \in Conns \cup {Free},
           q # Free => ConnOK(q), conn' = [conn EXCEPT ![c] = q]
    PROVE  /\ ConnsOK'
           /\ conn'[c] = q
           /\ \A d \in Slots \ {c} : conn'[d] = conn[d]
           /\ Continues(conn[c], q) => \A d \in Slots : Continues(conn[d], conn'[d])
<1>1. conn \in [Slots -> Conns \cup {Free}] BY DEF ConnsOK
<1>2. /\ conn' \in [Slots -> Conns \cup {Free}] /\ conn'[c] = q
      /\ \A d \in Slots \ {c} : conn'[d] = conn[d]
  BY <1>1
<1>3. \A d \in Live' : ConnOK(conn'[d])
  <2> SUFFICES ASSUME NEW d \in Slots, conn'[d] # Free PROVE ConnOK(conn'[d])
    BY DEF Live
  <2>1. CASE d = c BY <1>2, <2>1
  <2>2. CASE d # c BY <1>2, <2>2 DEF ConnsOK, Live
  <2> QED BY <2>1, <2>2
<1>4. ConnsOK' BY <1>2, <1>3 DEF ConnsOK, Live
<1>5. ASSUME Continues(conn[c], q), NEW d \in Slots PROVE Continues(conn[d], conn'[d])
  <2>1. CASE d = c BY <1>2, <1>5, <2>1
  <2>2. CASE d # c BY <1>2, <2>2 DEF Continues
  <2> QED BY <2>1, <2>2
<1> QED BY <1>2, <1>4, <1>5

LEMMA Disconnected ==
    ASSUME NEW p \in Conns, ConnOK(p), NEW reason \in {"identical", "already", "other"},
           reason = "identical" => p.version /\ p.addr = Self
    PROVE  LET q == Disconnect(p, reason)
           IN  /\ q \in Conns /\ ConnOK(q) /\ q # Free
               /\ q.addr = p.addr /\ q.out = p.out /\ q.reg = p.reg
               /\ q.version = p.version /\ q.handler = p.handler
<1> DEFINE q == Disconnect(p, reason)
<1>1. /\ q \in Conns /\ q.addr = p.addr /\ q.out = p.out /\ q.reg = p.reg
      /\ q.version = p.version /\ q.handler = p.handler
      /\ q.drop = p.drop \/ q.drop = reason
  BY DEF Disconnect, Conns
<1> HIDE DEF q
<1>2. ConnOK(q) BY <1>1 DEF ConnOK
<1> QED BY <1>1, <1>2, FreeIsNone DEF q

LEMMA Ended ==
    ASSUME NEW p \in Conns, ConnOK(p), p.reg # "new",
           NEW reason \in {"identical", "already", "other"},
           reason = "identical" => p.version /\ p.addr = Self
    PROVE  LET q == HandlerEnd(p, reason)
           IN  q \in Conns \cup {Free} /\ (q # Free => ConnOK(q)) /\ Continues(p, q)
<1> DEFINE d == Disconnect(p, reason)
           e == [d EXCEPT !.handler = "ended", !.handled = 0]
           q == HandlerEnd(p, reason)
<1>1. /\ d \in Conns /\ ConnOK(d) /\ d.addr = p.addr /\ d.out = p.out /\ d.reg = p.reg
      /\ d.version = p.version
  BY Disconnected
<1>2. q = Settle(e) BY DEF HandlerEnd
<1> HIDE DEF d, q
<1>3. /\ e \in Conns /\ e.addr = p.addr /\ e.out = p.out /\ e.reg = p.reg
      /\ e.version = p.version /\ e.handler = "ended" /\ e.drop = d.drop
  BY <1>1 DEF Conns
<1> HIDE DEF e
<1>4. ConnOK(e) BY <1>1, <1>3 DEF ConnOK
<1>5. CASE p.reg = "gone"
  <2>1. q = Free BY <1>2, <1>3, <1>5 DEF Settle
  <2> QED BY <1>5, <2>1 DEF Continues, q
<1>6. CASE p.reg # "gone"
  <2>1. q = e BY <1>2, <1>3, <1>6 DEF Settle
  <2>2. Continues(p, q) BY <1>3, <1>6, <2>1, FreeIsNone DEF Continues
  <2> QED BY <1>3, <1>4, <2>1, <2>2 DEF q
<1> QED BY <1>5, <1>6

-----------------------------------------------------------------------------
(* Steps.                                                                  *)

Orphaned(a) == HasPeer(a) /\ ~HasPeer(a)' => RegistersLate(a)
Forgotten(a) ==
    Underway(a) /\ ~Underway(a)' => DropsUnregistered(a) \/ Len(pool') = PoolSize
Step == \A a \in Nodes : Orphaned(a) /\ Forgotten(a)

(* The peers of a connected address stay, and what is underway stays so.   *)
LEMMA PeersStay ==
    ASSUME ConnsOK, \A d \in Slots : Continues(conn[d], conn'[d]), NEW a,
           \E c \in Received : conn[c].version /\ conn[c].addr = a
    PROVE  ConnsOK' => \E c \in Received' : conn'[c].version /\ conn'[c].addr = a
<1> SUFFICES ASSUME ConnsOK' PROVE \E c \in Received' : conn'[c].version /\ conn'[c].addr = a
  OBVIOUS
<1>1. PICK c \in Received : conn[c].version /\ conn[c].addr = a OBVIOUS
<1>2. c \in Slots /\ conn[c] # Free /\ conn[c].reg # "gone" /\ conn[c].reg # "new"
  BY DEF Received, Live
<1>3. /\ conn'[c] # Free /\ conn'[c].reg # "gone" /\ conn'[c].reg # "new"
      /\ conn'[c].version /\ conn'[c].addr = a
  BY <1>1, <1>2 DEF Continues
<1>4. conn'[c] \in Conns BY <1>2, <1>3 DEF ConnsOK
<1>5. c \in Received' BY <1>2, <1>3, <1>4 DEF Received, Live, Conns
<1> QED BY <1>3, <1>5

LEMMA StaysUnderway ==
    ASSUME \A d \in Slots : Continues(conn[d], conn'[d]), NEW a \in Nodes,
           Keeps(Book, Book'), Underway(a), a \in attempted => a \in attempted', failed[a] > 0 => failed'[a] > 0
    PROVE  Underway(a)' \/ Len(pool') = PoolSize
<1>1. CASE unconnected[a] = 0 BY <1>1 DEF Keeps, Book, Underway
<1>2. CASE a \in Range(pool) BY <1>2 DEF Keeps, Book, Underway
<1>3. CASE a \in attempted \/ failed[a] > 0 BY <1>3 DEF Underway
<1>4. ASSUME NEW c \in Live, conn[c].out /\ conn[c].addr = a /\ conn[c].reg # "gone"
      PROVE  Underway(a)'
  <2>1. c \in Slots /\ conn[c] # Free BY DEF Live
  <2>2. conn'[c] # Free /\ conn'[c].out /\ conn'[c].addr = a /\ conn'[c].reg # "gone"
    BY <1>4, <2>1 DEF Continues
  <2>3. c \in Live' BY <2>1, <2>2 DEF Live
  <2> QED BY <2>2, <2>3 DEF Underway
<1> QED BY <1>1, <1>2, <1>3, <1>4 DEF Underway

LEMMA SteadyStep ==
    ASSUME ConnsOK, \A d \in Slots : Continues(conn[d], conn'[d]),
           ConnsOK', connected' = connected, Keeps(Book, Book'), attempted \subseteq attempted',
           failed' = failed
    PROVE  Step
<1> SUFFICES ASSUME NEW a \in Nodes PROVE Orphaned(a) /\ Forgotten(a) BY DEF Step
<1>1. HasPeer(a) => HasPeer(a)' BY PeersStay DEF HasPeer
<1>2. Underway(a) => Underway(a)' \/ Len(pool') = PoolSize BY StaysUnderway
<1> QED BY <1>1, <1>2 DEF Orphaned, Forgotten

LEMMA SameConns ==
    ASSUME conn' = conn, ConnsOK
    PROVE  ConnsOK' /\ \A d \in Slots : Continues(conn[d], conn'[d])
BY DEF ConnsOK, ConnOK, Live, Continues

LEMMA SameBook ==
    ASSUME UNCHANGED book
    PROVE  Book' = Book /\ connected' = connected /\ Keeps(Book, Book')
<1>1. Book' = Book /\ connected' = connected BY DEF book, Book
<1> QED BY <1>1 DEF Keeps

(* The book changes, the connections do not.                               *)
LEMMA BookStep ==
    ASSUME IInv, NEW r, SetBook(r), BookOK(r), r.connected = connected, Keeps(Book, r),
           conn' = conn, UNCHANGED <<attempted, failed>>
    PROVE  IInv' /\ Step
<1>1. Book' = r BY BookSet DEF BookOK
<1>2. connected' = connected BY DEF SetBook
<1>3. ConnsOK' /\ \A d \in Slots : Continues(conn[d], conn'[d]) BY SameConns DEF IInv
<1>4. BookOK(Book)' BY <1>1
<1>5. IInv' BY <1>3, <1>4 DEF IInv
<1>6. Step BY <1>1, <1>2, <1>3, SteadyStep DEF IInv
<1> QED BY <1>5, <1>6

(* A connection goes on, the book stays.                                   *)
LEMMA ConnStep ==
    ASSUME IInv, NEW c \in Slots, NEW q \in Conns \cup {Free}, q # Free => ConnOK(q),
           conn' = [conn EXCEPT ![c] = q], Continues(conn[c], q),
           UNCHANGED <<book, attempted, failed>>
    PROVE  IInv' /\ Step
<1>1. ConnsOK' /\ \A d \in Slots : Continues(conn[d], conn'[d]) BY SlotSet DEF IInv
<1>2. Book' = Book /\ connected' = connected /\ Keeps(Book, Book') BY SameBook
<1>3. BookOK(Book)' BY <1>2 DEF IInv
<1>4. IInv' BY <1>1, <1>3 DEF IInv
<1>5. Step BY <1>1, <1>2, SteadyStep DEF IInv
<1> QED BY <1>4, <1>5

LEMMA Idle ==
    ASSUME IInv, UNCHANGED <<conn, book, attempted, failed>>
    PROVE  IInv' /\ Step
<1>1. ConnsOK' /\ \A d \in Slots : Continues(conn[d], conn'[d]) BY SameConns DEF IInv
<1>2. Book' = Book /\ connected' = connected /\ Keeps(Book, Book') BY SameBook
<1>3. BookOK(Book)' BY <1>2 DEF IInv
<1>4. IInv' BY <1>1, <1>3 DEF IInv
<1>5. Step BY <1>1, <1>2, SteadyStep DEF IInv
<1> QED BY <1>4, <1>5

(* Discovery takes an address from the pool: it is dialled, or connected.  *)
LEMMA TakesAddress ==
    ASSUME IInv, TakeAddress
    PROVE  IInv' /\ Step
<1> DEFINE h == Head(pool)
<1>g. /\ pool # << >> /\ pool' = Tail(pool)
      /\ attempted' = IF h \notin connected \cup attempted THEN attempted \cup {h} ELSE attempted
      /\ UNCHANGED <<conn, connected, bad, unconnected, failed>>
  BY DEF TakeAddress
<1>b. /\ pool \in Seq(Nodes) /\ unconnected \in [Nodes -> Nat] /\ Len(pool) <= PoolSize
      /\ \A a \in connected : unconnected[a] = 0
      /\ PoolSize \in Nat
  BY PeersAssumption DEF IInv, BookOK, Book, Books
<1>1. /\ Tail(pool) \in Seq(Nodes) /\ h \in Nodes /\ Len(Tail(pool)) = Len(pool) - 1
      /\ Len(pool) \in Nat
      /\ \A i \in 1 .. Len(pool) : i # 1 => Tail(pool)[i - 1] = pool[i]
      /\ h = pool[1]
  BY <1>g, <1>b
<1>2. Range(pool) \subseteq Range(pool') \cup {h}
  <2> SUFFICES ASSUME NEW i \in DOMAIN pool, pool[i] # h
               PROVE  \E j \in DOMAIN pool' : pool'[j] = pool[i]
    BY DEF Range
  <2>1. i \in 1 .. Len(pool) /\ i # 1 BY <1>b, <1>1
  <2>2. i - 1 \in DOMAIN Tail(pool) BY <1>b, <1>1, <2>1
  <2> QED BY <1>g, <1>1, <2>1, <2>2
<1> HIDE DEF h
<1>3. ConnsOK' /\ \A d \in Slots : Continues(conn[d], conn'[d]) BY <1>g, SameConns DEF IInv
<1>4. BookOK(Book)'
  <2>1. Book' \in Books BY <1>g, <1>1 DEF IInv, BookOK, Book, Books
  <2>2. Len(pool') <= PoolSize BY <1>g, <1>b, <1>1
  <2> QED BY <1>g, <2>1, <2>2 DEF IInv, BookOK, Book
<1>5. IInv' BY <1>g, <1>1, <1>3, <1>4 DEF IInv
<1>6. ASSUME NEW a \in Nodes PROVE Orphaned(a) /\ Forgotten(a)
  <2>1. HasPeer(a) => HasPeer(a)' BY <1>g DEF HasPeer, Received, Live
  <2>2. Underway(a) => Underway(a)'
    <3>1. CASE a = h
      <4>1. a \in connected => unconnected'[a] = 0 BY <1>g, <1>b
      <4>2. a \in connected \/ a \in attempted' BY <1>g, <3>1
      <4> QED BY <4>1, <4>2 DEF Underway
    <3>2. CASE a # h BY <1>g, <1>2, <3>2 DEF Underway, Live
    <3> QED BY <3>1, <3>2
  <2> QED BY <2>1, <2>2 DEF Orphaned, Forgotten
<1> QED BY <1>5, <1>6 DEF Step

(* A free slot gets a new connection.                                      *)
LEMMA Opened ==
    ASSUME IInv, NEW a \in Nodes, NEW out \in BOOLEAN, Open(a, out)
    PROVE  /\ ConnsOK' /\ \A d \in Slots : Continues(conn[d], conn'[d])
           /\ out => \E c \in Live' : conn'[c].out /\ conn'[c].addr = a /\ conn'[c].reg # "gone"
<1> DEFINE q == NewTCPPeer(a, out)
<1>0. ConnsOK BY DEF IInv
<1>1. \E c \in Slots : conn[c] = Free BY DEF Open, Live
<1>2. PICK c \in Slots : c = FreeSlot /\ conn[c] = Free BY <1>1 DEF FreeSlot
<1>3. /\ q \in Conns /\ ConnOK(q) /\ q # Free /\ q.addr = a /\ q.out = out /\ q.reg = "new"
  BY DEF NewTCPPeer, Conns, ConnOK, Free
<1>4. conn' = [conn EXCEPT ![c] = q] BY <1>2 DEF Open
<1> HIDE DEF q
<1>5. Continues(conn[c], q) BY <1>2 DEF Continues
<1>6. ConnsOK' /\ conn'[c] = q /\ \A d \in Slots : Continues(conn[d], conn'[d])
  BY <1>0, <1>3, <1>4, <1>5, SlotSet
<1>7. c \in Live' BY <1>3, <1>6 DEF Live
<1> QED BY <1>3, <1>6, <1>7

LEMMA Dialled ==
    ASSUME IInv, NEW a \in Nodes, DialSucceeds(a)
    PROVE  IInv' /\ Step
<1>0. Open(a, TRUE) /\ attempted' = attempted \ {a} /\ UNCHANGED <<book, failed>> BY DEF DialSucceeds
<1>1. /\ ConnsOK' /\ \A d \in Slots : Continues(conn[d], conn'[d])
      /\ \E c \in Live' : conn'[c].out /\ conn'[c].addr = a /\ conn'[c].reg # "gone"
  BY <1>0, Opened
<1>2. Book' = Book /\ connected' = connected /\ Keeps(Book, Book') BY <1>0, SameBook
<1>3. BookOK(Book)' BY <1>2 DEF IInv
<1>4. IInv' BY <1>0, <1>1, <1>3 DEF IInv
<1>5. ASSUME NEW x \in Nodes PROVE Orphaned(x) /\ Forgotten(x)
  <2>1. HasPeer(x) => HasPeer(x)' BY <1>1, <1>2, PeersStay DEF HasPeer, IInv
  <2>2. CASE x = a
    <3>1. Underway(x)' BY <1>1, <2>2 DEF Underway
    <3> QED BY <2>1, <3>1 DEF Orphaned, Forgotten
  <2>3. CASE x # a
    <3>1. Underway(x) => Underway(x)' \/ Len(pool') = PoolSize
      BY <1>0, <1>1, <1>2, <2>3, StaysUnderway
    <3> QED BY <2>1, <3>1 DEF Orphaned, Forgotten
  <2> QED BY <2>2, <2>3
<1> QED BY <1>4, <1>5 DEF Step

LEMMA DialFailed ==
    ASSUME IInv, NEW a \in Nodes, DialFails(a)
    PROVE  IInv' /\ Step
<1>0. /\ UNCHANGED <<conn, book>> /\ attempted' = attempted \ {a}
      /\ failed' = [failed EXCEPT ![a] = failed[a] + 1]
  BY DEF DialFails
<1>1. failed \in [Nodes -> Nat] BY DEF IInv
<1>2. /\ failed' \in [Nodes -> Nat] /\ failed'[a] > 0
      /\ \A x \in Nodes \ {a} : failed'[x] = failed[x]
  BY <1>0, <1>1
<1>3. Book' = Book /\ connected' = connected /\ Keeps(Book, Book') BY <1>0, SameBook
<1>4. ConnsOK' /\ \A d \in Slots : Continues(conn[d], conn'[d]) BY <1>0, SameConns DEF IInv
<1>5. BookOK(Book)' BY <1>3 DEF IInv
<1>6. IInv' BY <1>0, <1>2, <1>4, <1>5 DEF IInv
<1>7. ASSUME NEW x \in Nodes PROVE Orphaned(x) /\ Forgotten(x)
  <2>1. HasPeer(x) => HasPeer(x)' BY <1>3, <1>4, PeersStay DEF HasPeer, IInv
  <2>2. CASE x = a
    <3>1. Underway(x)' BY <1>2, <2>2 DEF Underway
    <3> QED BY <2>1, <3>1 DEF Orphaned, Forgotten
  <2>3. CASE x # a
    <3>1. Underway(x) => Underway(x)' \/ Len(pool') = PoolSize
      BY <1>0, <1>2, <1>3, <1>4, <2>3, StaysUnderway
    <3> QED BY <2>1, <3>1 DEF Orphaned, Forgotten
  <2> QED BY <2>2, <2>3
<1> QED BY <1>6, <1>7 DEF Step

LEMMA FailureRegistered ==
    ASSUME IInv, NEW a \in Nodes, RegisterFailure(a)
    PROVE  IInv' /\ Step
<1> DEFINE r == RegisterBadAddr(Book, a)
<1>0. /\ SetBook(r) /\ UNCHANGED <<attempted, conn>> /\ failed[a] > 0
      /\ failed' = [failed EXCEPT ![a] = failed[a] - 1]
  BY DEF RegisterFailure
<1>f. failed \in [Nodes -> Nat] BY DEF IInv
<1>g. failed' \in [Nodes -> Nat] /\ \A x \in Nodes \ {a} : failed'[x] = failed[x]
  BY <1>0, <1>f
<1>1. /\ BookOK(r) /\ r.connected = connected /\ Keeps(Book, r)
      /\ r.unconnected[a] = 0 \/ a \in Range(r.pool) \/ Len(r.pool) = PoolSize
  BY RegisteredBad, BookFields DEF IInv
<1> HIDE DEF r
<1>2. Book' = r BY <1>0, <1>1, BookSet DEF BookOK
<1>3. connected' = connected /\ unconnected' = r.unconnected /\ pool' = r.pool
  BY <1>0, <1>1 DEF SetBook
<1>4. ConnsOK' /\ \A d \in Slots : Continues(conn[d], conn'[d]) BY <1>0, SameConns DEF IInv
<1>5. IInv' BY <1>0, <1>g, <1>1, <1>2, <1>4 DEF IInv
<1>6. ASSUME NEW x \in Nodes PROVE Orphaned(x) /\ Forgotten(x)
  <2>1. HasPeer(x) => HasPeer(x)' BY <1>3, <1>4, PeersStay DEF HasPeer, IInv
  <2>2. CASE x = a
    <3>1. Underway(x)' \/ Len(pool') = PoolSize BY <1>1, <1>3, <2>2 DEF Underway
    <3> QED BY <2>1, <3>1 DEF Orphaned, Forgotten
  <2>3. CASE x # a
    <3>1. Underway(x) => Underway(x)' \/ Len(pool') = PoolSize
      BY <1>0, <1>g, <1>1, <1>2, <1>4, <2>3, StaysUnderway
    <3> QED BY <2>1, <3>1 DEF Orphaned, Forgotten
  <2> QED BY <2>2, <2>3
<1> QED BY <1>5, <1>6 DEF Step

LEMMA Accepted ==
    ASSUME IInv, NEW a \in Nodes, Accept(a)
    PROVE  IInv' /\ Step
<1>0. Open(a, FALSE) /\ attempted' = attempted /\ UNCHANGED <<book, failed>> BY DEF Accept, dialling
<1>1. ConnsOK' /\ \A d \in Slots : Continues(conn[d], conn'[d]) BY <1>0, Opened
<1>2. Book' = Book /\ connected' = connected /\ Keeps(Book, Book') BY <1>0, SameBook
<1>3. BookOK(Book)' BY <1>2 DEF IInv
<1>4. IInv' BY <1>0, <1>1, <1>3 DEF IInv
<1>5. Step BY <1>0, <1>1, <1>2, SteadyStep DEF IInv
<1> QED BY <1>4, <1>5

(* Disconnect of a peer.                                                   *)
LEMMA Failed ==
    ASSUME IInv, NEW c \in Slots, Fails(c)
    PROVE  IInv' /\ Step
<1> DEFINE p == conn[c]
           q == Disconnect(p, "other")
<1>0. c \in Live /\ conn' = [conn EXCEPT ![c] = q] /\ UNCHANGED <<book, attempted, failed>>
  BY DEF Fails, Received, dialling
<1>1. p \in Conns /\ ConnOK(p) BY <1>0, LiveConn DEF IInv
<1> HIDE DEF p
<1>2. /\ q \in Conns /\ ConnOK(q) /\ q # Free
      /\ q.addr = p.addr /\ q.out = p.out /\ q.reg = p.reg /\ q.version = p.version
  BY <1>1, Disconnected
<1> HIDE DEF q
<1>3. Continues(p, q) BY <1>2 DEF Continues
<1> QED BY <1>0, <1>2, <1>3, ConnStep DEF p

(* The handler of a connection ends.                                       *)
LEMMA HandlerIsDone ==
    ASSUME IInv, NEW c \in Slots, HandlerDone(c)
    PROVE  IInv' /\ Step
<1> DEFINE p == conn[c]
           q == HandlerEnd(p, "other")
<1>0. /\ c \in Live /\ p.reg # "new" /\ conn' = [conn EXCEPT ![c] = q]
      /\ UNCHANGED <<book, attempted, failed>>
  BY DEF HandlerDone, Waiting, dialling
<1>1. p \in Conns /\ ConnOK(p) BY <1>0, LiveConn DEF IInv
<1> HIDE DEF p
<1>2. q \in Conns \cup {Free} /\ (q # Free => ConnOK(q)) /\ Continues(p, q)
  BY <1>0, <1>1, Ended
<1> HIDE DEF q
<1> QED BY <1>0, <1>2, ConnStep DEF p

(* The checks of a version.                                                *)
LEMMA VersionHandled ==
    ASSUME IInv, NEW c \in Slots, HandleVersion(c)
    PROVE  IInv' /\ Step
<1> DEFINE o == conn[c]
           p == [o EXCEPT !.version = TRUE]
           checked == [p EXCEPT !.handler = "checked"]
<1>0. c \in Live /\ o.reg # "new" /\ o.handler = "idle" /\ UNCHANGED <<book, attempted, failed>>
  BY DEF HandleVersion, HandleMessage, Waiting, dialling
<1>a. PICK known \in BOOLEAN :
        conn' = [conn EXCEPT ![c] = CASE p.addr = Self -> HandlerEnd(p, "identical")
                                      [] p.addr # Self /\ ~known -> HandlerEnd(p, "other")
                                      [] OTHER -> checked]
  BY DEF HandleVersion
<1>b. \/ p.addr = Self /\ conn' = [conn EXCEPT ![c] = HandlerEnd(p, "identical")]
      \/ conn' = [conn EXCEPT ![c] = HandlerEnd(p, "other")]
      \/ p.addr # Self /\ conn' = [conn EXCEPT ![c] = checked]
  BY <1>a
<1>1. o \in Conns /\ ConnOK(o) BY <1>0, LiveConn DEF IInv
<1> HIDE DEF o
<1>2. /\ p \in Conns /\ p.addr = o.addr /\ p.out = o.out /\ p.reg = o.reg
      /\ p.handler = o.handler /\ p.drop = o.drop /\ p.version
  BY <1>1 DEF Conns
<1> HIDE DEF p
<1>3. ConnOK(p) /\ p # Free BY <1>1, <1>2, FreeIsNone DEF ConnOK
<1>4. ASSUME NEW q, Continues(p, q) PROVE Continues(o, q)
  BY <1>2, <1>3, <1>4 DEF Continues
<1>5. ASSUME NEW reason \in {"identical", "other"},
             reason = "identical" => p.addr = Self,
             conn' = [conn EXCEPT ![c] = HandlerEnd(p, reason)]
      PROVE  IInv' /\ Step
  <2> DEFINE q == HandlerEnd(p, reason)
  <2>1. q \in Conns \cup {Free} /\ (q # Free => ConnOK(q)) /\ Continues(p, q)
    BY <1>0, <1>2, <1>3, <1>5, Ended
  <2>2. conn' = [conn EXCEPT ![c] = q] BY <1>5
  <2> HIDE DEF q
  <2>3. Continues(conn[c], q) BY <1>4, <2>1 DEF o
  <2> QED BY <1>0, <2>1, <2>2, <2>3, ConnStep
<1>6. ASSUME p.addr # Self, conn' = [conn EXCEPT ![c] = checked] PROVE IInv' /\ Step
  <2>1. /\ checked \in Conns /\ checked.addr = p.addr /\ checked.out = p.out
        /\ checked.reg = p.reg /\ checked.version /\ checked.drop = p.drop
        /\ checked.handler = "checked"
    BY <1>2 DEF Conns
  <2> HIDE DEF checked
  <2>2. ConnOK(checked) BY <1>0, <1>2, <1>3, <1>6, <2>1 DEF ConnOK
  <2>3. Continues(p, checked) BY <2>1, FreeIsNone DEF Continues
  <2>4. Continues(conn[c], checked) BY <1>4, <2>3 DEF o
  <2> QED BY <1>0, <1>6, <2>1, <2>2, <2>4, ConnStep
<1> QED BY <1>b, <1>5, <1>6

(* The search for another connection of the same node, and the answer.     *)
LEMMA VersionAnswered ==
    ASSUME IInv, NEW c \in Slots, AnswerVersion(c)
    PROVE  IInv' /\ Step
<1> DEFINE p == conn[c]
           ack == [p EXCEPT !.handler = "idle", !.handled = 1]
<1>0. c \in Live /\ p.handler = "registered" /\ UNCHANGED <<book, attempted, failed>>
  BY DEF AnswerVersion, dialling
<1>1. p \in Conns /\ ConnOK(p) /\ p.reg # "new" BY <1>0, LiveConn DEF IInv, ConnOK
<1>2. \/ conn' = [conn EXCEPT ![c] = HandlerEnd(p, "already")]
      \/ conn' = [conn EXCEPT ![c] = HandlerEnd(p, "other")]
      \/ conn' = [conn EXCEPT ![c] = ack]
  BY DEF AnswerVersion, SendVersionAck
<1> HIDE DEF p
<1>3. ASSUME NEW reason \in {"already", "other"},
             conn' = [conn EXCEPT ![c] = HandlerEnd(p, reason)]
      PROVE  IInv' /\ Step
  <2> DEFINE q == HandlerEnd(p, reason)
  <2>1. q \in Conns \cup {Free} /\ (q # Free => ConnOK(q)) /\ Continues(p, q)
    BY <1>1, Ended
  <2>2. conn' = [conn EXCEPT ![c] = q] BY <1>3
  <2> HIDE DEF q
  <2> QED BY <1>0, <2>1, <2>2, ConnStep DEF p
<1>4. ASSUME conn' = [conn EXCEPT ![c] = ack] PROVE IInv' /\ Step
  <2>1. /\ ack \in Conns /\ ack.addr = p.addr /\ ack.out = p.out /\ ack.reg = p.reg
        /\ ack.version = p.version /\ ack.drop = p.drop /\ ack.handler = "idle"
    BY <1>1 DEF Conns
  <2> HIDE DEF ack
  <2>2. ConnOK(ack) BY <1>1, <2>1 DEF ConnOK
  <2>3. Continues(p, ack) BY <2>1, FreeIsNone DEF Continues
  <2> QED BY <1>0, <1>4, <2>1, <2>2, <2>3, ConnStep DEF p
<1> QED BY <1>2, <1>3, <1>4

(* The address of an accepted version is registered: late, if the          *)
(* connection is no peer any more.                                         *)
LEMMA AddrRegistered ==
    ASSUME IInv, NEW c \in Slots, RegisterAddr(c)
    PROVE  IInv' /\ Step
<1> DEFINE p == conn[c]
           q == [p EXCEPT !.handler = "registered"]
           r == RegisterConnectedAddr(Book, p.addr)
<1>0. c \in Live /\ p.handler = "checked" /\ UNCHANGED <<attempted, failed>>
  BY DEF RegisterAddr, dialling
<1>1. p \in Conns /\ ConnOK(p) BY <1>0, LiveConn DEF IInv
<1>2. p.version /\ p.addr # Self /\ p.reg # "new" /\ p.addr \in Nodes
  BY <1>0, <1>1 DEF ConnOK, Conns
<1>3. SetBook(r) /\ conn' = [conn EXCEPT ![c] = q]
  BY <1>2 DEF RegisterAddr, PeerAddr
<1>4. BookOK(r) /\ r.connected = connected \cup {p.addr} /\ Keeps(Book, r)
  BY <1>2, RegisteredConnected, BookFields DEF IInv
<1> HIDE DEF r
<1>5. Book' = r BY <1>3, <1>4, BookSet DEF BookOK
<1>6. connected' = connected \cup {p.addr} BY <1>3, <1>4 DEF SetBook
<1> HIDE DEF p
<1>7. /\ q \in Conns /\ q.addr = p.addr /\ q.out = p.out /\ q.reg = p.reg
      /\ q.version = p.version /\ q.drop = p.drop /\ q.handler = "registered"
  BY <1>1 DEF Conns
<1> HIDE DEF q
<1>8. ConnOK(q) BY <1>1, <1>2, <1>7 DEF ConnOK
<1>9. Continues(p, q) BY <1>7, FreeIsNone DEF Continues
<1>10. ConnsOK' /\ conn'[c] = q /\ \A d \in Slots : Continues(conn[d], conn'[d])
  BY <1>3, <1>7, <1>8, <1>9, SlotSet DEF p, IInv
<1>11. IInv' BY <1>0, <1>4, <1>5, <1>10 DEF IInv
<1>12. ASSUME NEW a \in Nodes PROVE Orphaned(a) /\ Forgotten(a)
  <2>1. Underway(a) => Underway(a)' \/ Len(pool') = PoolSize
    BY <1>0, <1>4, <1>5, <1>10, StaysUnderway
  <2>2. CASE a \in connected \/ a # p.addr
    <3>1. HasPeer(a) => HasPeer(a)' BY <1>6, <1>10, <2>2, PeersStay DEF HasPeer, IInv
    <3> QED BY <2>1, <3>1 DEF Orphaned, Forgotten
  <2>3. CASE a \notin connected /\ a = p.addr /\ p.reg \in {"taken", "in"}
    <3>1. c \in Received' /\ conn'[c].version /\ conn'[c].addr = a
      BY <1>2, <1>7, <1>10, <2>3, FreeIsNone DEF Received, Live
    <3>2. HasPeer(a)' BY <3>1 DEF HasPeer
    <3> QED BY <2>1, <3>2 DEF Orphaned, Forgotten
  <2>4. CASE a \notin connected /\ a = p.addr /\ p.reg = "gone"
    <3>1. RegistersLate(a) BY <1>0, <2>4 DEF RegistersLate, p
    <3> QED BY <2>1, <3>1 DEF Orphaned, Forgotten
  <2>5. p.reg \in {"taken", "in", "gone"} BY <1>1, <1>2 DEF Conns
  <2> QED BY <2>2, <2>3, <2>4, <2>5
<1> QED BY <1>11, <1>12 DEF Step

(* The acknowledgement calls the address good.                             *)
LEMMA VerackHandled ==
    ASSUME IInv, NEW c \in Slots, HandleVerack(c)
    PROVE  IInv' /\ Step
<1> DEFINE p == conn[c]
           q == [p EXCEPT !.handled = 2]
           r == RegisterGoodAddr(Book, PeerAddr(p))
<1>0. /\ c \in Live /\ conn' = [conn EXCEPT ![c] = q] /\ SetBook(r)
      /\ UNCHANGED <<attempted, failed>>
  BY DEF HandleVerack, HandleMessage, Waiting, StartProtocol, dialling
<1>1. p \in Conns /\ ConnOK(p) BY <1>0, LiveConn DEF IInv
<1>2. BookOK(r) /\ r.connected = connected /\ Keeps(Book, r)
  BY RegisteredGood, BookFields DEF IInv
<1> HIDE DEF p, r
<1>3. /\ q \in Conns /\ q.addr = p.addr /\ q.out = p.out /\ q.reg = p.reg
      /\ q.version = p.version /\ q.drop = p.drop /\ q.handler = p.handler
  BY <1>1 DEF Conns
<1> HIDE DEF q
<1>4. ConnOK(q) BY <1>1, <1>3 DEF ConnOK
<1>5. Continues(p, q) BY <1>3, FreeIsNone DEF Continues
<1>6. ConnsOK' /\ \A d \in Slots : Continues(conn[d], conn'[d])
  BY <1>0, <1>3, <1>4, <1>5, SlotSet DEF p, IInv
<1>7. Book' = r BY <1>0, <1>2, BookSet DEF BookOK
<1>8. connected' = connected BY <1>0, <1>2 DEF SetBook
<1>9. IInv' BY <1>0, <1>2, <1>6, <1>7 DEF IInv
<1>10. Step BY <1>0, <1>2, <1>6, <1>7, <1>8, SteadyStep DEF IInv
<1> QED BY <1>9, <1>10

LEMMA AddrHandled ==
    ASSUME IInv, NEW c \in Slots, NEW a \in Nodes, HandleAddr(c, a)
    PROVE  IInv' /\ Step
<1> DEFINE r == BackFill(Book, a)
<1>0. SetBook(r) /\ conn' = conn /\ UNCHANGED <<attempted, failed>> BY DEF HandleAddr, dialling
<1>1. BookOK(r) /\ r.connected = connected /\ Keeps(Book, r)
  BY BackFilled, BookFields DEF IInv
<1> HIDE DEF r
<1> QED BY <1>0, <1>1, BookStep

LEMMA PoolEmptied ==
    ASSUME IInv, EmptyPool
    PROVE  IInv' /\ Step
<1>1. PICK more \in Orders(Seeds \ connected) : SetBook(AddSeeds(Book, more))
  BY DEF EmptyPool
<1> DEFINE r == AddSeeds(Book, more)
<1>0. SetBook(r) /\ conn' = conn /\ UNCHANGED <<attempted, failed>>
  BY <1>1 DEF EmptyPool, dialling
<1>2. more \in Orders(Seeds \ Book.connected) BY BookFields
<1>3. BookOK(r) /\ r.connected = connected /\ Keeps(Book, r)
  BY <1>2, SeedsAdded, BookFields DEF IInv
<1> HIDE DEF r
<1> QED BY <1>0, <1>3, BookStep

(* Server.run receives a connection.                                       *)
LEMMA Registered ==
    ASSUME IInv, NEW c \in Slots, Register(c)
    PROVE  IInv' /\ Step
<1> DEFINE p == conn[c]
           q == [p EXCEPT !.reg = "taken"]
<1>0. /\ c \in Live /\ p.reg = "new" /\ conn' = [conn EXCEPT ![c] = q]
      /\ UNCHANGED <<book, attempted, failed>>
  BY DEF Register, dialling
<1>1. p \in Conns /\ ConnOK(p) BY <1>0, LiveConn DEF IInv
<1> HIDE DEF p
<1>2. /\ q \in Conns /\ q.addr = p.addr /\ q.out = p.out /\ q.reg = "taken"
      /\ q.version = p.version /\ q.drop = p.drop /\ q.handler = p.handler
  BY <1>1 DEF Conns
<1> HIDE DEF q
<1>3. ConnOK(q) BY <1>1, <1>2 DEF ConnOK
<1>4. Continues(p, q) BY <1>2, FreeIsNone DEF Continues
<1> QED BY <1>0, <1>2, <1>3, <1>4, ConnStep DEF p

(* Server.run makes a connection a peer, and may drop one of them.         *)
LEMMA PeerAdded ==
    ASSUME IInv, NEW c \in Slots, AddPeer(c)
    PROVE  IInv' /\ Step
<1> DEFINE p == conn[c]
           q == [p EXCEPT !.reg = "in"]
           joined == [conn EXCEPT ![c] = q]
<1>0. /\ c \in Live /\ p.reg = "taken" /\ UNCHANGED <<book, attempted, failed>>
      /\ \/ conn' = joined
         \/ \E v \in Peers \cup {c} :
               conn' = [joined EXCEPT ![v] = Disconnect(joined[v], "other")]
  BY DEF AddPeer, dialling
<1>k. conn \in [Slots -> Conns \cup {Free}] BY DEF IInv, ConnsOK
<1>1. p \in Conns /\ ConnOK(p) BY <1>0, LiveConn DEF IInv
<1> HIDE DEF p
<1>2. /\ q \in Conns /\ q.addr = p.addr /\ q.out = p.out /\ q.reg = "in"
      /\ q.version = p.version /\ q.drop = p.drop /\ q.handler = p.handler
  BY <1>1 DEF Conns
<1> HIDE DEF q
<1>3. ConnOK(q) BY <1>0, <1>1, <1>2 DEF ConnOK
<1>4. Continues(p, q) BY <1>2, FreeIsNone DEF Continues
<1>5. CASE conn' = joined
  BY <1>0, <1>2, <1>3, <1>4, <1>5, ConnStep DEF p
<1>6. ASSUME NEW v \in Peers \cup {c},
             conn' = [joined EXCEPT ![v] = Disconnect(joined[v], "other")]
      PROVE  IInv' /\ Step
  <2> DEFINE j == joined[v]
             e == Disconnect(j, "other")
  <2>v. v \in Slots BY DEF Peers, Live
  <2>1. j \in Conns /\ ConnOK(j) /\ Continues(conn[v], j)
    <3>1. CASE v = c
      <4>1. j = q BY <1>k, <3>1
      <4> QED BY <1>2, <1>3, <1>4, <3>1, <4>1 DEF p
    <3>2. CASE v # c
      <4>1. j = conn[v] /\ v \in Live BY <1>k, <3>2 DEF Peers
      <4>2. conn[v] \in Conns /\ ConnOK(conn[v]) BY <2>v, <4>1, LiveConn DEF IInv
      <4> QED BY <4>1, <4>2 DEF Continues
    <3> QED BY <3>1, <3>2
  <2>2. joined \in [Slots -> Conns \cup {Free}] BY <1>k, <1>2
  <2>3. \A d \in Slots : joined[d] = IF d = c THEN q ELSE conn[d] BY <1>k
  <2> HIDE DEF j, joined
  <2>4. /\ e \in Conns /\ ConnOK(e) /\ e # Free
        /\ e.addr = j.addr /\ e.out = j.out /\ e.reg = j.reg /\ e.version = j.version
    BY <2>1, Disconnected
  <2>5. conn' = [joined EXCEPT ![v] = e] BY <1>6 DEF j
  <2> HIDE DEF e
  <2>6. /\ conn' \in [Slots -> Conns \cup {Free}]
        /\ \A d \in Slots : conn'[d] = IF d = v THEN e ELSE joined[d]
    BY <2>2, <2>4, <2>5
  <2>7. j # Free /\ Continues(conn[v], e) BY <2>1, <2>4, FreeIsNone DEF Continues
  <2>8. \A d \in Slots : Continues(conn[d], conn'[d])
    <3> SUFFICES ASSUME NEW d \in Slots PROVE Continues(conn[d], conn'[d]) OBVIOUS
    <3>1. CASE d = v BY <2>6, <2>7, <3>1
    <3>2. CASE d # v /\ d = c BY <1>4, <2>3, <2>6, <3>2 DEF p
    <3>3. CASE d # v /\ d # c
      <4>1. conn'[d] = conn[d] BY <2>3, <2>6, <3>3
      <4> QED BY <4>1 DEF Continues
    <3> QED BY <3>1, <3>2, <3>3
  <2>9. \A d \in Live' : ConnOK(conn'[d])
    <3> SUFFICES ASSUME NEW d \in Slots, conn'[d] # Free PROVE ConnOK(conn'[d]) BY DEF Live
    <3>1. CASE d = v BY <2>4, <2>6, <3>1
    <3>2. CASE d # v /\ d = c BY <1>3, <2>3, <2>6, <3>2
    <3>3. CASE d # v /\ d # c
      <4>1. conn'[d] = conn[d] BY <2>3, <2>6, <3>3
      <4> QED BY <4>1, LiveConn DEF IInv, Live
    <3> QED BY <3>1, <3>2, <3>3
  <2>10. ConnsOK' BY <2>6, <2>9 DEF ConnsOK, Live
  <2>11. Book' = Book /\ connected' = connected /\ Keeps(Book, Book') BY <1>0, SameBook
  <2>12. BookOK(Book)' BY <2>11 DEF IInv
  <2>13. IInv' BY <1>0, <2>10, <2>12 DEF IInv
  <2>14. Step BY <1>0, <2>8, <2>10, <2>11, SteadyStep DEF IInv
  <2> QED BY <2>13, <2>14
<1> QED BY <1>0, <1>5, <1>6

(* What happens to the book when Server.run drops a peer: its address is   *)
(* taken out unless another connection has it.                             *)
LEMMA Dropped ==
    ASSUME IInv, NEW c \in Peers
    PROVE  LET r == AfterDrop(Book, c)
           IN  /\ BookOK(r) /\ Keeps(Book, r) /\ r.connected \subseteq connected
               /\ conn[c].version /\ conn[c].addr \in r.connected => Twins(c) # {}
<1> DEFINE p == conn[c]
           a == PeerAddr(p)
           r == AfterDrop(Book, c)
<1>0. BookOK(Book) /\ Self \notin connected BY DEF IInv, BookOK, Book
<1>1. p \in Conns /\ ConnOK(p) BY LiveConn DEF IInv, Peers, Live
<1>2. a \in Nodes \cup {Ephemeral} /\ (p.version => a = p.addr)
  BY <1>1 DEF PeerAddr, Conns
<1>3. CASE p.drop = "identical"
  <2>1. r = RegisterBadAddr(Book, a) BY <1>3 DEF AfterDrop
  <2>2. a \in Nodes /\ p.addr = Self BY <1>1, <1>2, <1>3 DEF ConnOK, Conns
  <2> HIDE DEF a, r
  <2>3. BookOK(r) /\ r.connected = connected /\ Keeps(Book, r)
    BY <1>0, <2>1, <2>2, RegisteredBad, BookFields
  <2> QED BY <1>0, <2>2, <2>3 DEF r
<1>4. CASE p.drop = "already" /\ Twins(c) # {}
  <2>1. r = Book BY <1>4 DEF AfterDrop
  <2>2. Keeps(Book, r) BY <2>1 DEF Keeps
  <2> QED BY <1>0, <1>4, <2>1, <2>2, BookFields
<1>5. CASE p.drop # "identical" /\ ~(p.drop = "already" /\ Twins(c) # {})
  <2> DEFINE u == UnregisterConnectedAddr(Book, a)
  <2>1. r = BackFill(u, a) BY <1>5 DEF AfterDrop
  <2> HIDE DEF a, r
  <2>2. /\ BookOK(u) /\ u.connected = connected \ {a}
        /\ u.pool = Book.pool /\ u.unconnected = Book.unconnected
    BY <1>0, Unregistered, BookFields
  <2> HIDE DEF u
  <2>3. BookOK(r) /\ r.connected = u.connected /\ Keeps(u, r) BY <1>2, <2>1, <2>2, BackFilled
  <2>4. Keeps(Book, r) BY <2>2, <2>3 DEF Keeps
  <2> QED BY <1>2, <2>2, <2>3, <2>4 DEF r
<1> QED BY <1>3, <1>4, <1>5

LEMMA UnregisterStep ==
    ASSUME IInv, NEW c \in Slots, Unregister(c)
    PROVE  IInv' /\ Step
<1> DEFINE p == conn[c]
           g == [p EXCEPT !.reg = "gone"]
           q == Settle(g)
           r == AfterDrop(Book, c)
<1>0. /\ c \in Peers /\ p.drop # "no" /\ conn' = [conn EXCEPT ![c] = q] /\ SetBook(r)
      /\ UNCHANGED <<attempted, failed>>
  BY DEF Unregister, dialling
<1>1. p \in Conns /\ ConnOK(p) BY <1>0, LiveConn DEF IInv, Peers, Live
<1>2. /\ BookOK(r) /\ Keeps(Book, r) /\ r.connected \subseteq connected
      /\ p.version /\ p.addr \in r.connected => Twins(c) # {}
  BY <1>0, Dropped
<1> HIDE DEF r
<1>3. /\ Book' = r /\ connected' = r.connected /\ pool' = r.pool
      /\ unconnected' = r.unconnected
  <2>1. Book' = r BY <1>0, <1>2, BookSet DEF BookOK
  <2> QED BY <1>0, <2>1 DEF SetBook
<1> HIDE DEF p
<1>4. /\ g \in Conns /\ g.addr = p.addr /\ g.out = p.out /\ g.reg = "gone"
      /\ g.version = p.version /\ g.drop = p.drop /\ g.handler = p.handler
  BY <1>1 DEF Conns
<1> HIDE DEF g
<1>5. q \in Conns \cup {Free} /\ (q # Free => ConnOK(q) /\ q.reg = "gone")
  <2>1. CASE g.handler = "ended" BY <1>4, <2>1 DEF Settle
  <2>2. CASE g.handler # "ended"
    <3> DEFINE s == [g EXCEPT !.drop = "other", !.out = TRUE]
    <3>1. q = s BY <1>4, <2>2 DEF Settle
    <3>2. /\ s \in Conns /\ s.addr = p.addr /\ s.reg = "gone" /\ s.version = p.version
          /\ s.drop = "other" /\ s.handler = p.handler
      BY <1>4 DEF Conns
    <3> HIDE DEF s, q
    <3>3. ConnOK(s) BY <1>1, <3>2 DEF ConnOK
    <3> QED BY <3>1, <3>2, <3>3
  <2> QED BY <2>1, <2>2
<1> HIDE DEF q
<1>6. ConnsOK' /\ conn'[c] = q /\ \A d \in Slots \ {c} : conn'[d] = conn[d]
  BY <1>0, <1>5, SlotSet DEF IInv
<1>7. IInv' BY <1>0, <1>2, <1>3, <1>6 DEF IInv
<1>8. c \notin Peers' BY <1>5, <1>6 DEF Peers, Live
<1>9. \A d \in Received \ {c} : d \in Received' /\ conn'[d] = conn[d] BY <1>6 DEF Received, Live
<1>10. ASSUME NEW a \in Nodes PROVE Orphaned(a) /\ Forgotten(a)
  <2>1. ASSUME HasPeer(a), a \in connected' PROVE HasPeer(a)'
    <3>1. PICK w \in Received : conn[w].version /\ conn[w].addr = a
      BY <1>2, <1>3, <2>1 DEF HasPeer
    <3>2. CASE w # c BY <1>9, <3>1, <3>2 DEF HasPeer
    <3>3. CASE w = c
      <4>1. p.version /\ p.addr = a BY <3>1, <3>3 DEF p
      <4>2. PICK d \in Twins(c) : TRUE BY <1>2, <1>3, <2>1, <4>1
      <4>3. d \in Received \ {c} /\ conn[d].version /\ conn[d].addr = a
        BY <4>1 DEF Twins, Peers, Received, p
      <4> QED BY <1>9, <4>3 DEF HasPeer
    <3> QED BY <3>2, <3>3
  <2>2. HasPeer(a) => HasPeer(a)' BY <2>1 DEF HasPeer
  <2>3. Underway(a) => Underway(a)' \/ DropsUnregistered(a) \/ Len(pool') = PoolSize
    <3>1. CASE unconnected[a] = 0 BY <1>2, <1>3, <3>1, BookFields DEF Keeps, Underway
    <3>2. CASE a \in Range(pool) BY <1>2, <1>3, <3>2, BookFields DEF Keeps, Underway
    <3>3. CASE a \in attempted \/ failed[a] > 0 BY <1>0, <3>3 DEF Underway
    <3>4. ASSUME NEW d \in Live, conn[d].out /\ conn[d].addr = a /\ conn[d].reg # "gone"
          PROVE  Underway(a)' \/ DropsUnregistered(a)
      <4>1. CASE d = c
        <5>1. DropsUnregistered(a) BY <1>0, <1>8, <3>4, <4>1 DEF DropsUnregistered, p
        <5> QED BY <5>1
      <4>2. CASE d # c
        <5>1. d \in Live' /\ conn'[d] = conn[d] BY <1>6, <4>2 DEF Live
        <5> QED BY <3>4, <5>1 DEF Underway
      <4> QED BY <4>1, <4>2
    <3> QED BY <3>1, <3>2, <3>3, <3>4 DEF Underway
  <2> QED BY <2>2, <2>3 DEF Orphaned, Forgotten
<1> QED BY <1>7, <1>10 DEF Step

-----------------------------------------------------------------------------

LEMMA InitIInv == Init => IInv
<1> SUFFICES ASSUME Init PROVE IInv OBVIOUS
<1>1. ConnsOK BY DEF Init, ConnsOK, Live
<1>2. BookOK(Book)
  <2>1. << >> \in Seq(Nodes) /\ Len(<< >>) = 0 OBVIOUS
  <2>2. 0 <= PoolSize BY PeersAssumption
  <2> QED BY <2>1, <2>2 DEF Init, BookOK, Book, Books
<1>3. attempted \subseteq Nodes /\ failed \in [Nodes -> Nat] BY DEF Init
<1> QED BY <1>1, <1>2, <1>3 DEF IInv

LEMMA NextStep == IInv /\ [Next]_vars => IInv' /\ Step
<1> SUFFICES ASSUME IInv, [Next]_vars PROVE IInv' /\ Step OBVIOUS
<1>1. CASE TakeRequest BY <1>1, Idle DEF TakeRequest, dialling
<1>2. CASE TakeAsk BY <1>2, Idle DEF TakeAsk
<1>3. CASE TakeAddress BY <1>3, TakesAddress
<1>4. CASE EmptyPool BY <1>4, PoolEmptied
<1>5. CASE Retry BY <1>5, Idle DEF Retry, dialling
<1>6. ASSUME NEW c \in Slots, Register(c) \/ AddPeer(c) \/ Unregister(c)
      PROVE  IInv' /\ Step
  BY <1>6, Registered, PeerAdded, UnregisterStep
<1>7. ASSUME NEW a \in Nodes, DialSucceeds(a) \/ DialFails(a) \/ RegisterFailure(a) \/ Accept(a)
      PROVE  IInv' /\ Step
  BY <1>7, Dialled, DialFailed, FailureRegistered, Accepted
<1>8. ASSUME NEW c \in Slots, Handler(c) PROVE IInv' /\ Step
  BY <1>8, HandlerIsDone, VersionHandled, AddrRegistered, VersionAnswered, VerackHandled
     DEF Handler
<1>9. ASSUME NEW c \in Slots, Fails(c) PROVE IInv' /\ Step BY <1>9, Failed
<1>10. ASSUME NEW c \in Slots, NEW a \in Nodes, HandleAddr(c, a) PROVE IInv' /\ Step
  BY <1>10, AddrHandled
<1>11. CASE UNCHANGED vars BY <1>11, Idle DEF vars, dialling
<1> QED BY <1>1, <1>2, <1>3, <1>4, <1>5, <1>6, <1>7, <1>8, <1>9, <1>10, <1>11
        DEF Next, Discovery, ServerRun

(* An address in connectedAddrs loses its last peer only by the race of a  *)
(* handshake with Server.run: the version of a connection is handled after *)
(* the connection was taken from the peers.  Duplicates that are dropped   *)
(* for each other, calls of the node itself and dropped peers never do it  *)
(* (handleVersionCmd, and the case of unregister in Server.run).           *)
THEOREM ConnectedKeepPeers == Spec => ConnectedHasPeer
<1>1. IInv /\ [Next]_vars => [\A a \in Nodes : HasPeer(a) /\ ~HasPeer(a)' => RegistersLate(a)]_vars
  BY NextStep DEF Step, Orphaned
<1>2. IInv /\ [Next]_vars => IInv' BY NextStep
<1> QED BY <1>1, <1>2, InitIInv, PTL DEF Spec, ConnectedHasPeer

(* An address in unconnectedAddrs stays in the pool, being dialled or      *)
(* connected, until its connection is dropped before it was registered or  *)
(* the pool is full (RegisterBadAddr, BackFill and run of                  *)
(* DefaultDiscovery).                                                      *)
THEOREM UnconnectedKept == Spec => NotForgotten
<1>1. IInv /\ [Next]_vars =>
        [\A a \in Nodes : Underway(a) /\ ~Underway(a)' =>
                             DropsUnregistered(a) \/ Len(pool') = PoolSize]_vars
  BY NextStep DEF Step, Forgotten
<1>2. IInv /\ [Next]_vars => IInv' BY NextStep
<1> QED BY <1>1, <1>2, InitIInv, PTL DEF Spec, NotForgotten
=============================================================================
