--------------------------- MODULE RPCEventsProofs ---------------------------
(***************************************************************************)
(* Proofs about the subscriptions of websocket clients of module           *)
(* RPCEvents, for every set of clients and all bounds: the counters of     *)
(* feeds, and the messages about missed events.                            *)
(***************************************************************************)
EXTENDS RPCEvents, WellFoundedInduction, FiniteSetTheorems, TLAPS

Labels == {"off", "read", "subscribe", "unsubscribe", "subCh", "unsubCh", "respond",
           "leave", "leaving", "gone"}

(* The labels at which a reader holds subsLock.                            *)
Critical == {"subCh", "unsubCh", "leaving"}

Messages == {Event, Jump, Missed}

TableType ==
    /\ subs \in [Kinds -> Nat]
    /\ feeds \in [Clients -> [Slots -> Kinds \cup {None}]]
    /\ reader \in [Clients -> Labels]
    /\ req \in [Clients -> Nat]

(* One holder of subsLock at a time, and everybody knows who.              *)
Lock ==
    /\ \A c \in Clients : (reader[c] \in Critical) <=> (subsLock = c)
    /\ (hpc = "unsubscribe") <=> (subsLock = "handler")

(* The slot a reader waits at the dispatcher for, and its kind.            *)
Waiting ==
    \A c \in Clients : reader[c] \in {"subCh", "unsubCh"} =>
        /\ req[c] \in Slots /\ feeds[c][req[c]] \in Kinds
        /\ subs[feeds[c][req[c]]] = IF reader[c] = "subCh" THEN 0 ELSE 1

(* A feed that waits to be subscribed is in its slot and not yet counted.  *)
Pending(k) == \E c \in Clients : reader[c] = "subCh" /\ feeds[c][req[c]] = k
Counted ==
    \A k \in Kinds :
        Cardinality(Holders(k)) = IF Pending(k) THEN subs[k] + 1 ELSE subs[k]

(* Until handleSubEvents takes the channels out.                           *)
Synced ==
    hpc \notin {"unsubscribe", "closed"} =>
        \A k \in Kinds : (k \in chainFeed) <=> (subs[k] > 0)

TableInv == TableType /\ Lock /\ Waiting /\ Counted /\ Synced

-----------------------------------------------------------------------------

(* The lowest slot of a set of slots is one of them.                       *)
LEMMA LowestSlot ==
    ASSUME NEW S \in SUBSET Slots, S # {}
    PROVE  Lowest(S) \in S
<1> DEFINE R == OpToRel(<, Nat)
<1>0. MaxFeeds \in Nat BY Parameters
<1>1. S \subseteq Nat BY <1>0 DEF Slots
<1>2. \E j \in S : \A k \in S : ~(<<k, j>> \in R)
  <2>1. IsWellFoundedOn(R, Nat) BY NatLessThanWellFounded
  <2> HIDE DEF R
  <2> QED BY <1>1, <2>1, WFMin
<1>j. PICK j \in S : \A k \in S : ~(<<k, j>> \in R) BY <1>2
<1>3. ASSUME NEW k \in S PROVE ~(k < j)
  <2>1. <<k, j>> \in Nat \X Nat BY <1>1
  <2>2. k < j => <<k, j>> \in R BY <2>1, Zenon DEF OpToRel
  <2> QED BY <1>j, <2>2
<1>4. \A k \in S : k \in Nat /\ j \in Nat BY <1>1
<1>5. \A k \in S : j <= k BY <1>3, <1>4
<1> QED BY <1>5 DEF Lowest

(* The slots that hold a kind are finitely many.                           *)
LEMMA HoldersFinite ==
    ASSUME NEW k
    PROVE  IsFiniteSet(Holders(k)) /\ Cardinality(Holders(k)) \in Nat
<1>1. MaxFeeds \in Nat BY Parameters
<1>2. IsFiniteSet(Slots) BY <1>1, FS_Interval DEF Slots
<1>3. IsFiniteSet(Clients \X Slots) BY <1>2, ClientsAssumption, FS_Product
<1>4. Holders(k) \subseteq Clients \X Slots BY DEF Holders
<1> QED BY <1>3, <1>4, FS_Subset, FS_CardinalityType

(* A feed in a free slot is one more.                                      *)
LEMMA FeedAdded ==
    ASSUME TableType, NEW c \in Clients, NEW i \in Slots, NEW k \in Kinds,
           feeds[c][i] = None, SetFeed(c, i, k)
    PROVE  /\ Cardinality(Holders(k)') = Cardinality(Holders(k)) + 1
           /\ \A l \in Kinds \ {k} : Cardinality(Holders(l)') = Cardinality(Holders(l))
<1>1. k # None /\ \A l \in Kinds : l # None BY Parameters DEF None
<1>2. \A d \in Clients, j \in Slots :
        feeds'[d][j] = IF d = c /\ j = i THEN k ELSE feeds[d][j]
  BY DEF SetFeed, TableType
<1>3. Holders(k)' = Holders(k) \cup {<<c, i>>} BY <1>2 DEF Holders
<1>4. <<c, i>> \notin Holders(k) BY <1>1 DEF Holders
<1>5. \A l \in Kinds \ {k} : Holders(l)' = Holders(l) BY <1>1, <1>2 DEF Holders
<1>6. IsFiniteSet(Holders(k)) BY HoldersFinite
<1>7. Cardinality(Holders(k) \cup {<<c, i>>}) = Cardinality(Holders(k)) + 1
  BY <1>4, <1>6, FS_AddElement
<1> QED BY <1>3, <1>5, <1>7

(* A feed taken out of its slot is one less.                               *)
LEMMA FeedRemoved ==
    ASSUME TableType, NEW c \in Clients, NEW i \in Slots, NEW k \in Kinds,
           feeds[c][i] = k, SetFeed(c, i, None)
    PROVE  /\ Cardinality(Holders(k)') = Cardinality(Holders(k)) - 1
           /\ \A l \in Kinds \ {k} : Cardinality(Holders(l)') = Cardinality(Holders(l))
<1>1. \A l \in Kinds : l # None BY Parameters DEF None
<1>2. \A d \in Clients, j \in Slots :
        feeds'[d][j] = IF d = c /\ j = i THEN None ELSE feeds[d][j]
  BY DEF SetFeed, TableType
<1>3. Holders(k)' = Holders(k) \ {<<c, i>>} BY <1>1, <1>2 DEF Holders
<1>4. <<c, i>> \in Holders(k) BY DEF Holders
<1>5. \A l \in Kinds \ {k} : Holders(l)' = Holders(l) BY <1>1, <1>2 DEF Holders
<1>6. IsFiniteSet(Holders(k)) BY HoldersFinite
<1>7. Cardinality(Holders(k) \ {<<c, i>>}) = Cardinality(Holders(k)) - 1
  BY <1>4, <1>6, FS_RemoveElement
<1> QED BY <1>3, <1>5, <1>7

(* Without a change of the feeds their number stays.                       *)
LEMMA SameFeeds ==
    ASSUME feeds' = feeds
    PROVE  \A k : Holders(k)' = Holders(k)
<1> QED BY DEF Holders

(* Whoever holds subsLock, nobody else is at a critical label.             *)
LEMMA Alone ==
    ASSUME TableInv, NEW c \in Clients, subsLock \in {c, "free"}
    PROVE  /\ \A d \in Clients \ {c} : reader[d] \notin Critical
           /\ hpc # "unsubscribe"
<1>1. c # "free" /\ c # "handler" /\ \A d \in Clients : d # "free" BY ClientsAssumption
<1> QED BY <1>1 DEF TableInv, Lock

(* Steps that concern neither the readers nor the tables of feeds.         *)
LEMMA TableFrame ==
    ASSUME TableInv, UNCHANGED <<subsLock, subs, feeds, reader, req, chainFeed>>,
           (hpc = "unsubscribe") <=> (hpc' = "unsubscribe"),
           hpc = "closed" => hpc' = "closed"
    PROVE  TableInv'
<1>1. TableType' BY DEF TableInv, TableType
<1>2. Lock' BY DEF TableInv, Lock
<1>3. Waiting' BY DEF TableInv, Waiting
<1>4. Counted'
  <2>1. \A k : Holders(k)' = Holders(k) BY SameFeeds
  <2>2. \A k : Pending(k)' <=> Pending(k) BY DEF Pending
  <2> QED BY <2>1, <2>2 DEF TableInv, Counted
<1>5. Synced' BY DEF TableInv, Synced
<1> QED BY <1>1, <1>2, <1>3, <1>4, <1>5 DEF TableInv

(* A reader goes on without subsLock and without a change of the tables.   *)
LEMMA ReaderMoves ==
    ASSUME TableInv, NEW c \in Clients, NEW from \in Labels \ Critical,
           NEW to \in Labels \ Critical, Go(c, from, to),
           UNCHANGED <<subsLock, subs, feeds, req, chainFeed, hpc>>
    PROVE  TableInv'
<1>0. \A d \in Clients :
        /\ reader[d] \in Labels
        /\ reader'[d] = IF d = c THEN to ELSE reader[d]
  BY DEF TableInv, TableType, Go
<1>a. reader[c] = from BY DEF Go
<1>1. TableType' BY DEF TableInv, TableType, Go
<1>2. Lock' BY <1>0, <1>a DEF TableInv, Lock
<1>3. Waiting' BY <1>0 DEF TableInv, Waiting, Critical
<1>4. Counted'
  <2>1. \A k : Holders(k)' = Holders(k) BY SameFeeds
  <2>2. \A k : Pending(k)' <=> Pending(k) BY <1>0, <1>a DEF Pending, Critical
  <2> QED BY <2>1, <2>2 DEF TableInv, Counted
<1>5. Synced' BY DEF TableInv, Synced
<1> QED BY <1>1, <1>2, <1>3, <1>4, <1>5 DEF TableInv

(* handleSubEvents takes subsLock and releases it at its end.              *)
LEMMA TableHandler ==
    ASSUME TableInv, LockForUnsubscribe \/ UnsubscribeNext \/ CloseChannels
    PROVE  TableInv'
<1>0. UNCHANGED <<subs, feeds, reader, req>>
  BY DEF LockForUnsubscribe, UnsubscribeNext, CloseChannels, table, ws
<1>c. \A d \in Clients : d # "free" /\ d # "handler" BY ClientsAssumption
<1>1. TableType' BY <1>0 DEF TableInv, TableType
<1>2. Lock'
  BY <1>0, <1>c DEF TableInv, Lock, LockForUnsubscribe, UnsubscribeNext, CloseChannels, table
<1>3. Waiting' BY <1>0 DEF TableInv, Waiting
<1>4. Counted'
  <2>1. \A k : Holders(k)' = Holders(k) BY <1>0, SameFeeds
  <2>2. \A k : Pending(k)' <=> Pending(k) BY <1>0 DEF Pending
  <2> QED BY <1>0, <2>1, <2>2 DEF TableInv, Counted
<1>5. Synced'
  BY DEF TableInv, Synced, LockForUnsubscribe, UnsubscribeNext, CloseChannels
<1> QED BY <1>1, <1>2, <1>3, <1>4, <1>5 DEF TableInv

(* A further feed of a kind.                                               *)
LEMMA TableSubscribeMore ==
    ASSUME TableInv, NEW c \in Clients, NEW k \in Kinds, SubscribeMore(c, k)
    PROVE  TableInv'
<1> DEFINE i == Lowest(FreeSlots(c))
<1>i. i \in Slots /\ feeds[c][i] = None
  <2>1. FreeSlots(c) # {} /\ FreeSlots(c) \in SUBSET Slots BY DEF SubscribeMore, FreeSlots
  <2>2. i \in FreeSlots(c) BY <2>1, LowestSlot
  <2> QED BY <2>2 DEF FreeSlots
<1>f. SetFeed(c, i, k) BY DEF SubscribeMore
<1> HIDE DEF i
<1>g. /\ reader[c] = "subscribe" /\ subsLock = "free" /\ subs[k] > 0
      /\ reader' = [reader EXCEPT ![c] = "respond"]
      /\ subs' = [subs EXCEPT ![k] = subs[k] + 1]
      /\ UNCHANGED <<subsLock, req, chainFeed, hpc>>
  BY DEF SubscribeMore, Go, Count, dispatch, handler
<1>n. \A l \in Kinds : subs[l] \in Nat BY DEF TableInv, TableType
<1>o. \A d \in Clients :
        /\ reader[d] \notin Critical
        /\ reader'[d] = IF d = c THEN "respond" ELSE reader[d]
  BY <1>g, Alone DEF TableInv, TableType, Critical
<1>1. TableType'
  BY <1>i, <1>f, <1>g DEF TableInv, TableType, SetFeed, Labels
<1>2. Lock' BY <1>g, <1>o DEF TableInv, Lock, Critical
<1>3. Waiting' BY <1>o DEF Waiting, Critical
<1>4. Counted'
  <2>1. /\ Cardinality(Holders(k)') = Cardinality(Holders(k)) + 1
        /\ \A l \in Kinds \ {k} : Cardinality(Holders(l)') = Cardinality(Holders(l))
    BY <1>i, <1>f, FeedAdded DEF TableInv
  <2>2. \A l : ~Pending(l) /\ ~Pending(l)' BY <1>o DEF Pending, Critical
  <2>3. \A l \in Kinds : Cardinality(Holders(l)) = subs[l]
    BY <2>2 DEF TableInv, Counted
  <2>4. \A l \in Kinds : subs'[l] = IF l = k THEN subs[k] + 1 ELSE subs[l]
    BY <1>g DEF TableInv, TableType
  <2>5. \A l \in Kinds : Cardinality(Holders(l)') = subs'[l] BY <2>1, <2>3, <2>4
  <2> QED BY <2>2, <2>5 DEF Counted
<1>5. Synced' BY <1>g, <1>n DEF TableInv, TableType, Synced
<1> QED BY <1>1, <1>2, <1>3, <1>4, <1>5 DEF TableInv

(* The first feed of a kind waits at the dispatcher, not yet counted.      *)
LEMMA TableSubscribeFirst ==
    ASSUME TableInv, NEW c \in Clients, NEW k \in Kinds, SubscribeFirst(c, k)
    PROVE  TableInv'
<1> DEFINE i == Lowest(FreeSlots(c))
<1>i. i \in Slots /\ feeds[c][i] = None
  <2>1. FreeSlots(c) # {} /\ FreeSlots(c) \in SUBSET Slots BY DEF SubscribeFirst, FreeSlots
  <2>2. i \in FreeSlots(c) BY <2>1, LowestSlot
  <2> QED BY <2>2 DEF FreeSlots
<1>f. SetFeed(c, i, k) /\ req' = [req EXCEPT ![c] = i] BY DEF SubscribeFirst
<1> HIDE DEF i
<1>g. /\ reader[c] = "subscribe" /\ subsLock = "free" /\ subs[k] = 0
      /\ reader' = [reader EXCEPT ![c] = "subCh"]
      /\ subsLock' = c
      /\ UNCHANGED <<subs, chainFeed, hpc>>
  BY DEF SubscribeFirst, Go, dispatch, handler
<1>o. \A d \in Clients :
        /\ reader[d] \notin Critical
        /\ reader'[d] = IF d = c THEN "subCh" ELSE reader[d]
  BY <1>g, Alone DEF TableInv, TableType, Critical
<1>c. \A d \in Clients : d # "free" /\ d # "handler" BY ClientsAssumption
<1>p. req'[c] = i /\ feeds'[c][i] = k /\ i \in Nat
  <2>1. MaxFeeds \in Nat BY Parameters
  <2>2. i \in Nat BY <1>i, <2>1 DEF Slots
  <2> QED BY <1>i, <1>f, <2>2 DEF TableInv, TableType, SetFeed
<1>1. TableType'
  <2>1. feeds' \in [Clients -> [Slots -> Kinds \cup {None}]]
    BY <1>i, <1>f DEF TableInv, TableType, SetFeed
  <2>2. reader' \in [Clients -> Labels] BY <1>g DEF TableInv, TableType, Labels
  <2>3. req' \in [Clients -> Nat] BY <1>f, <1>p DEF TableInv, TableType
  <2> QED BY <1>g, <2>1, <2>2, <2>3 DEF TableInv, TableType
<1>2. Lock' BY <1>g, <1>o, <1>c DEF TableInv, Lock, Critical
<1>3. Waiting'
  <2> SUFFICES ASSUME NEW d \in Clients, reader'[d] \in {"subCh", "unsubCh"}
               PROVE  /\ req'[d] \in Slots /\ feeds'[d][req'[d]] \in Kinds
                      /\ subs'[feeds'[d][req'[d]]] = IF reader'[d] = "subCh" THEN 0 ELSE 1
    BY DEF Waiting
  <2>1. d = c BY <1>o DEF Critical
  <2> QED BY <2>1, <1>i, <1>g, <1>o, <1>p
<1>4. Counted'
  <2>1. /\ Cardinality(Holders(k)') = Cardinality(Holders(k)) + 1
        /\ \A l \in Kinds \ {k} : Cardinality(Holders(l)') = Cardinality(Holders(l))
    BY <1>i, <1>f, FeedAdded DEF TableInv
  <2>2. \A l : ~Pending(l) /\ (Pending(l)' <=> l = k) BY <1>o, <1>p DEF Pending, Critical
  <2>3. \A l \in Kinds : Cardinality(Holders(l)) = subs[l]
    BY <2>2 DEF TableInv, Counted
  <2>5. \A l \in Kinds : Cardinality(Holders(l)') = IF l = k THEN subs'[l] + 1 ELSE subs'[l]
    BY <1>g, <2>1, <2>3
  <2> QED BY <2>2, <2>5 DEF Counted
<1>5. Synced' BY <1>g DEF TableInv, Synced
<1> QED BY <1>1, <1>2, <1>3, <1>4, <1>5 DEF TableInv

(* The dispatcher takes it, and it is counted.                             *)
LEMMA TableSubscribeChannel ==
    ASSUME TableInv, NEW c \in Clients, SubscribeChannel(c)
    PROVE  TableInv'
<1> DEFINE k == feeds[c][req[c]]
<1>g. /\ reader[c] = "subCh"
      /\ reader' = [reader EXCEPT ![c] = "respond"]
      /\ chainFeed' = chainFeed \cup {k}
      /\ subs' = [subs EXCEPT ![k] = subs[k] + 1]
      /\ req' = [req EXCEPT ![c] = 0]
      /\ subsLock' = "free"
      /\ UNCHANGED <<feeds, hpc>>
  BY DEF SubscribeChannel, Go, Count, handler
<1>k. k \in Kinds /\ subs[k] = 0 BY <1>g DEF TableInv, Waiting
<1>p. \A l : (reader[c] = "subCh" /\ feeds[c][req[c]] = l) <=> l = k BY <1>g
<1> HIDE DEF k
<1>l. subsLock = c BY <1>g DEF TableInv, Lock, Critical
<1>o. \A d \in Clients :
        /\ d # c => reader[d] \notin Critical
        /\ reader'[d] = IF d = c THEN "respond" ELSE reader[d]
  BY <1>g, <1>l, Alone DEF TableInv, TableType
<1>c. \A d \in Clients : d # "free" /\ d # "handler" BY ClientsAssumption
<1>s. \A l \in Kinds : /\ subs[l] \in Nat
                       /\ subs'[l] = IF l = k THEN subs[k] + 1 ELSE subs[l]
  BY <1>g DEF TableInv, TableType
<1>1. TableType' BY <1>g, <1>k DEF TableInv, TableType, Labels
<1>2. Lock'
  <2>1. hpc # "unsubscribe" BY <1>l, Alone
  <2> QED BY <1>g, <1>o, <1>c, <2>1 DEF Lock, Critical
<1>3. Waiting' BY <1>o DEF Waiting, Critical
<1>4. Counted'
  <2>1. \A l : Holders(l)' = Holders(l) BY <1>g, SameFeeds
  <2>2. \A l : (Pending(l) <=> l = k) /\ ~Pending(l)'
    BY <1>o, <1>p DEF Pending, Critical
  <2>3. \A l \in Kinds : Cardinality(Holders(l)) = IF l = k THEN subs[l] + 1 ELSE subs[l]
    BY <2>2 DEF TableInv, Counted
  <2>5. \A l \in Kinds : Cardinality(Holders(l)') = subs'[l] BY <1>s, <2>1, <2>3
  <2> QED BY <2>2, <2>5 DEF Counted
<1>5. Synced' BY <1>g, <1>k, <1>s DEF TableInv, Synced
<1> QED BY <1>1, <1>2, <1>3, <1>4, <1>5 DEF TableInv

(* A feed that is not the last of its kind is removed.                     *)
LEMMA TableUnsubscribeMore ==
    ASSUME TableInv, NEW c \in Clients, NEW i \in Slots, UnsubscribeMore(c, i)
    PROVE  TableInv'
<1>k. PICK k \in Kinds : k = feeds[c][i] BY DEF UnsubscribeMore, TableInv, TableType
<1>g. /\ reader[c] = "unsubscribe" /\ subsLock = "free" /\ subs[k] > 1
      /\ feeds[c][i] = k /\ SetFeed(c, i, None)
      /\ reader' = [reader EXCEPT ![c] = "respond"]
      /\ subs' = [subs EXCEPT ![k] = subs[k] - 1]
      /\ UNCHANGED <<subsLock, req, chainFeed, hpc>>
  BY <1>k DEF UnsubscribeMore, Go, Count, dispatch, handler
<1>o. \A d \in Clients :
        /\ reader[d] \notin Critical
        /\ reader'[d] = IF d = c THEN "respond" ELSE reader[d]
  BY <1>g, Alone DEF TableInv, TableType, Critical
<1>s. \A l \in Kinds : /\ subs[l] \in Nat
                       /\ subs'[l] = IF l = k THEN subs[k] - 1 ELSE subs[l]
  BY <1>g DEF TableInv, TableType
<1>1. TableType'
  <2>1. feeds' \in [Clients -> [Slots -> Kinds \cup {None}]]
    BY <1>g DEF TableInv, TableType, SetFeed
  <2>2. subs[k] - 1 \in Nat BY <1>g, <1>k, <1>s
  <2>3. subs' \in [Kinds -> Nat] BY <1>g, <1>k, <2>2 DEF TableInv, TableType
  <2> QED BY <1>g, <2>1, <2>3 DEF TableInv, TableType, Labels
<1>2. Lock' BY <1>g, <1>o DEF TableInv, Lock, Critical
<1>3. Waiting' BY <1>o DEF Waiting, Critical
<1>4. Counted'
  <2>1. /\ Cardinality(Holders(k)') = Cardinality(Holders(k)) - 1
        /\ \A l \in Kinds \ {k} : Cardinality(Holders(l)') = Cardinality(Holders(l))
    BY <1>g, <1>k, FeedRemoved DEF TableInv
  <2>2. \A l : ~Pending(l) /\ ~Pending(l)' BY <1>o DEF Pending, Critical
  <2>3. \A l \in Kinds : Cardinality(Holders(l)) = subs[l]
    BY <2>2 DEF TableInv, Counted
  <2>5. \A l \in Kinds : Cardinality(Holders(l)') = subs'[l] BY <1>s, <2>1, <2>3
  <2> QED BY <2>2, <2>5 DEF Counted
<1>5. Synced' BY <1>g, <1>k, <1>s DEF TableInv, Synced
<1> QED BY <1>1, <1>2, <1>3, <1>4, <1>5 DEF TableInv

(* The last feed of its kind waits at the dispatcher, still counted.       *)
LEMMA TableUnsubscribeLast ==
    ASSUME TableInv, NEW c \in Clients, NEW i \in Slots, UnsubscribeLast(c, i)
    PROVE  TableInv'
<1>g. /\ reader[c] = "unsubscribe" /\ subsLock = "free"
      /\ feeds[c][i] \in Kinds /\ subs[feeds[c][i]] = 1
      /\ reader' = [reader EXCEPT ![c] = "unsubCh"]
      /\ req' = [req EXCEPT ![c] = i]
      /\ subsLock' = c
      /\ UNCHANGED <<subs, feeds, chainFeed, hpc>>
  BY DEF UnsubscribeLast, Go, dispatch, handler, TableInv, TableType
<1>o. \A d \in Clients :
        /\ reader[d] \notin Critical
        /\ reader'[d] = IF d = c THEN "unsubCh" ELSE reader[d]
  BY <1>g, Alone DEF TableInv, TableType, Critical
<1>c. \A d \in Clients : d # "free" /\ d # "handler" BY ClientsAssumption
<1>p. req'[c] = i /\ i \in Nat
  <2>1. MaxFeeds \in Nat BY Parameters
  <2> QED BY <1>g, <2>1 DEF TableInv, TableType, Slots
<1>1. TableType' BY <1>g, <1>p DEF TableInv, TableType, Labels
<1>2. Lock' BY <1>g, <1>o, <1>c DEF TableInv, Lock, Critical
<1>3. Waiting'
  <2> SUFFICES ASSUME NEW d \in Clients, reader'[d] \in {"subCh", "unsubCh"}
               PROVE  /\ req'[d] \in Slots /\ feeds'[d][req'[d]] \in Kinds
                      /\ subs'[feeds'[d][req'[d]]] = IF reader'[d] = "subCh" THEN 0 ELSE 1
    BY DEF Waiting
  <2>1. d = c BY <1>o DEF Critical
  <2> QED BY <2>1, <1>g, <1>o, <1>p
<1>4. Counted'
  <2>1. \A l : Holders(l)' = Holders(l) BY <1>g, SameFeeds
  <2>2. \A l : ~Pending(l) /\ ~Pending(l)' BY <1>o DEF Pending, Critical
  <2> QED BY <1>g, <2>1, <2>2 DEF TableInv, Counted
<1>5. Synced' BY <1>g DEF TableInv, Synced
<1> QED BY <1>1, <1>2, <1>3, <1>4, <1>5 DEF TableInv

(* With subsLock held the last feed of its kind goes, and the channel with *)
(* it.                                                                     *)
LEMMA Dropped ==
    ASSUME TableInv, NEW c \in Clients, NEW i \in Slots, feeds[c][i] \in Kinds,
           subs[feeds[c][i]] = 1, \A l \in Kinds : ~Pending(l), DropChannel(c, i),
           hpc' = hpc
    PROVE  /\ \A l \in Kinds : Cardinality(Holders(l)') = subs'[l]
           /\ subs' \in [Kinds -> Nat]
           /\ feeds' \in [Clients -> [Slots -> Kinds \cup {None}]]
           /\ Synced'
<1>k. PICK k \in Kinds : k = feeds[c][i] OBVIOUS
<1>g. /\ feeds[c][i] = k /\ SetFeed(c, i, None) /\ subs[k] = 1
      /\ subs' = [subs EXCEPT ![k] = 0]
      /\ chainFeed' = chainFeed \ {k}
  BY <1>k DEF DropChannel, Count
<1>s. \A l \in Kinds : /\ subs[l] \in Nat
                       /\ subs'[l] = IF l = k THEN 0 ELSE subs[l]
  BY <1>g DEF TableInv, TableType
<1>1. /\ Cardinality(Holders(k)') = Cardinality(Holders(k)) - 1
      /\ \A l \in Kinds \ {k} : Cardinality(Holders(l)') = Cardinality(Holders(l))
  BY <1>g, FeedRemoved DEF TableInv
<1>2. \A l \in Kinds : Cardinality(Holders(l)) = subs[l] BY DEF TableInv, Counted
<1>3. \A l \in Kinds : Cardinality(Holders(l)') = subs'[l] BY <1>g, <1>s, <1>1, <1>2
<1>4. subs' \in [Kinds -> Nat] BY <1>g DEF TableInv, TableType
<1>5. feeds' \in [Clients -> [Slots -> Kinds \cup {None}]]
  BY <1>g DEF TableInv, TableType, SetFeed
<1>6. Synced' BY <1>g, <1>s DEF TableInv, Synced
<1> QED BY <1>3, <1>4, <1>5, <1>6

LEMMA TableUnsubscribeChannel ==
    ASSUME TableInv, NEW c \in Clients, UnsubscribeChannel(c)
    PROVE  TableInv'
<1>g. /\ reader[c] = "unsubCh" /\ DropChannel(c, req[c])
      /\ reader' = [reader EXCEPT ![c] = "respond"]
      /\ req' = [req EXCEPT ![c] = 0]
      /\ subsLock' = "free" /\ hpc' = hpc
  BY DEF UnsubscribeChannel, Go, handler
<1>l. subsLock = c BY <1>g DEF TableInv, Lock, Critical
<1>o. \A d \in Clients :
        /\ d # c => reader[d] \notin Critical
        /\ reader'[d] = IF d = c THEN "respond" ELSE reader[d]
  BY <1>g, <1>l, Alone DEF TableInv, TableType
<1>c. \A d \in Clients : d # "free" /\ d # "handler" BY ClientsAssumption
<1>2. Lock'
  <2>1. hpc # "unsubscribe" BY <1>l, Alone
  <2> QED BY <1>g, <1>o, <1>c, <2>1 DEF Lock, Critical
<1>3. Waiting' BY <1>o DEF Waiting, Critical
<1>4. \A l : ~Pending(l) /\ ~Pending(l)' BY <1>g, <1>o DEF Pending, Critical
<1>5. /\ \A l \in Kinds : Cardinality(Holders(l)') = subs'[l]
      /\ subs' \in [Kinds -> Nat]
      /\ feeds' \in [Clients -> [Slots -> Kinds \cup {None}]]
      /\ Synced'
  <2>1. req[c] \in Slots /\ feeds[c][req[c]] \in Kinds /\ subs[feeds[c][req[c]]] = 1
    BY <1>g DEF TableInv, Waiting
  <2> QED BY <1>g, <1>4, <2>1, Dropped
<1>6. TableType' BY <1>g, <1>5 DEF TableInv, TableType, Labels
<1>7. Counted' BY <1>4, <1>5 DEF Counted
<1> QED BY <1>2, <1>3, <1>5, <1>6, <1>7 DEF TableInv

(* A client that leaves takes subsLock.                                    *)
LEMMA TableLeaveLock ==
    ASSUME TableInv, NEW c \in Clients, LeaveLock(c)
    PROVE  TableInv'
<1>g. /\ reader[c] = "leave" /\ subsLock = "free"
      /\ reader' = [reader EXCEPT ![c] = "leaving"]
      /\ subsLock' = c
      /\ UNCHANGED <<subs, feeds, req, chainFeed, hpc>>
  BY DEF LeaveLock, Go, dispatch, handler
<1>o. \A d \in Clients :
        /\ reader[d] \notin Critical
        /\ reader'[d] = IF d = c THEN "leaving" ELSE reader[d]
  BY <1>g, Alone DEF TableInv, TableType, Critical
<1>c. \A d \in Clients : d # "free" /\ d # "handler" BY ClientsAssumption
<1>1. TableType' BY <1>g DEF TableInv, TableType, Labels
<1>2. Lock' BY <1>g, <1>o, <1>c DEF TableInv, Lock, Critical
<1>3. Waiting' BY <1>o DEF Waiting, Critical
<1>4. Counted'
  <2>1. \A l : Holders(l)' = Holders(l) BY <1>g, SameFeeds
  <2>2. \A l : ~Pending(l) /\ ~Pending(l)' BY <1>o DEF Pending, Critical
  <2> QED BY <1>g, <2>1, <2>2 DEF TableInv, Counted
<1>5. Synced' BY <1>g DEF TableInv, Synced
<1> QED BY <1>1, <1>2, <1>3, <1>4, <1>5 DEF TableInv

(* Its feeds go one after the other.                                       *)
LEMMA TableLeaveFeed ==
    ASSUME TableInv, NEW c \in Clients, LeaveFeed(c)
    PROVE  TableInv'
<1>i. PICK i \in Slots : /\ i = Lowest(Slots \ FreeSlots(c)) /\ feeds[c][i] \in Kinds
  <2>1. Slots \ FreeSlots(c) # {} /\ Slots \ FreeSlots(c) \in SUBSET Slots
    BY DEF LeaveFeed, FreeSlots
  <2>2. Lowest(Slots \ FreeSlots(c)) \in Slots \ FreeSlots(c) BY <2>1, LowestSlot
  <2>3. \A j \in Slots \ FreeSlots(c) : j \in Slots /\ feeds[c][j] \in Kinds
    BY DEF FreeSlots, TableInv, TableType
  <2> QED BY <2>2, <2>3
<1>g. /\ reader[c] = "leaving"
      /\ UNCHANGED <<reader, req, subsLock, hpc>>
      /\ \/ subs[feeds[c][i]] = 1 /\ DropChannel(c, i)
         \/ /\ subs[feeds[c][i]] > 1
            /\ Count(feeds[c][i], subs[feeds[c][i]] - 1) /\ SetFeed(c, i, None)
            /\ UNCHANGED chainFeed
  BY <1>i DEF LeaveFeed, ws, handler
<1>l. subsLock = c BY <1>g DEF TableInv, Lock, Critical
<1>o. \A d \in Clients : d # c => reader[d] \notin Critical BY <1>l, Alone
<1>2. Lock' BY <1>g DEF TableInv, Lock
<1>3. Waiting' BY <1>g, <1>o DEF Waiting, Critical
<1>4. \A l : ~Pending(l) /\ ~Pending(l)' BY <1>g, <1>o DEF Pending, Critical
<1>5. /\ \A l \in Kinds : Cardinality(Holders(l)') = subs'[l]
      /\ subs' \in [Kinds -> Nat]
      /\ feeds' \in [Clients -> [Slots -> Kinds \cup {None}]]
      /\ Synced'
  <2>1. CASE subs[feeds[c][i]] = 1 /\ DropChannel(c, i)
    BY <1>i, <1>g, <1>4, <2>1, Dropped
  <2>2. CASE /\ subs[feeds[c][i]] > 1
             /\ Count(feeds[c][i], subs[feeds[c][i]] - 1) /\ SetFeed(c, i, None)
             /\ UNCHANGED chainFeed
    <3>k. PICK k \in Kinds : k = feeds[c][i] BY <1>i
    <3>g. /\ feeds[c][i] = k /\ SetFeed(c, i, None) /\ subs[k] > 1
          /\ subs' = [subs EXCEPT ![k] = subs[k] - 1]
          /\ chainFeed' = chainFeed
      BY <2>2, <3>k DEF Count
    <3>s. \A l \in Kinds : /\ subs[l] \in Nat
                           /\ subs'[l] = IF l = k THEN subs[k] - 1 ELSE subs[l]
      BY <3>g DEF TableInv, TableType
    <3>1. /\ Cardinality(Holders(k)') = Cardinality(Holders(k)) - 1
          /\ \A l \in Kinds \ {k} : Cardinality(Holders(l)') = Cardinality(Holders(l))
      BY <3>g, FeedRemoved DEF TableInv
    <3>2. \A l \in Kinds : Cardinality(Holders(l)) = subs[l]
      BY <1>4 DEF TableInv, Counted
    <3>3. \A l \in Kinds : Cardinality(Holders(l)') = subs'[l] BY <3>s, <3>1, <3>2
    <3>4. subs' \in [Kinds -> Nat]
      <4>1. subs[k] - 1 \in Nat BY <3>g, <3>s
      <4> QED BY <3>g, <4>1 DEF TableInv, TableType
    <3>5. feeds' \in [Clients -> [Slots -> Kinds \cup {None}]]
      BY <3>g DEF TableInv, TableType, SetFeed
    <3>6. Synced' BY <1>g, <3>g, <3>s DEF TableInv, Synced
    <3> QED BY <3>3, <3>4, <3>5, <3>6
  <2> QED BY <1>g, <2>1, <2>2
<1>6. TableType' BY <1>g, <1>5 DEF TableInv, TableType
<1>7. Counted' BY <1>4, <1>5 DEF Counted
<1> QED BY <1>2, <1>3, <1>5, <1>6, <1>7 DEF TableInv

(* Without feeds it releases subsLock.                                     *)
LEMMA TableLeaveUnlock ==
    ASSUME TableInv, NEW c \in Clients, LeaveUnlock(c)
    PROVE  TableInv'
<1>g. /\ reader[c] = "leaving"
      /\ reader' = [reader EXCEPT ![c] = "gone"]
      /\ subsLock' = "free"
      /\ UNCHANGED <<subs, feeds, req, chainFeed, hpc>>
  BY DEF LeaveUnlock, Go, dispatch, handler
<1>l. subsLock = c BY <1>g DEF TableInv, Lock, Critical
<1>o. \A d \in Clients :
        /\ d # c => reader[d] \notin Critical
        /\ reader'[d] = IF d = c THEN "gone" ELSE reader[d]
  BY <1>g, <1>l, Alone DEF TableInv, TableType
<1>c. \A d \in Clients : d # "free" /\ d # "handler" BY ClientsAssumption
<1>1. TableType' BY <1>g DEF TableInv, TableType, Labels
<1>2. Lock'
  <2>1. hpc # "unsubscribe" BY <1>l, Alone
  <2> QED BY <1>g, <1>o, <1>c, <2>1 DEF Lock, Critical
<1>3. Waiting' BY <1>o DEF Waiting, Critical
<1>4. Counted'
  <2>1. \A l : Holders(l)' = Holders(l) BY <1>g, SameFeeds
  <2>2. \A l : ~Pending(l) /\ ~Pending(l)' BY <1>g, <1>o DEF Pending, Critical
  <2> QED BY <1>g, <2>1, <2>2 DEF TableInv, Counted
<1>5. Synced' BY <1>g DEF TableInv, Synced
<1> QED BY <1>1, <1>2, <1>3, <1>4, <1>5 DEF TableInv

(* In the initial states, and in every step.                               *)
LEMMA TableInit == Init => TableInv
<1> SUFFICES ASSUME Init PROVE TableInv OBVIOUS
<1>c. \A d \in Clients : d # "free" /\ d # "handler" BY ClientsAssumption
<1>1. TableType BY DEF Init, TableType, Labels
<1>2. Lock BY <1>c DEF Init, Lock, Critical
<1>3. Waiting BY DEF Init, Waiting
<1>4. Counted
  <2>1. \A k \in Kinds : ~Pending(k) BY DEF Init, Pending
  <2>2. \A k \in Kinds : Holders(k) = {}
    <3>1. \A k \in Kinds : k # None BY Parameters DEF None
    <3> QED BY <3>1 DEF Init, Holders
  <2>3. Cardinality({}) = 0 BY FS_EmptySet
  <2>4. \A k \in Kinds : subs[k] = 0 BY DEF Init
  <2> QED BY <2>1, <2>2, <2>3, <2>4 DEF Counted
<1>5. Synced BY DEF Init, Synced
<1> QED BY <1>1, <1>2, <1>3, <1>4, <1>5 DEF TableInv

LEMMA TableServer ==
    ASSUME TableInv, Server
    PROVE  TableInv'
<1>1. CASE Receive
  BY <1>1, TableFrame DEF Receive, table, ws
<1>2. CASE Deliver
  BY <1>2, TableFrame DEF Deliver, dispatch, table, ws
<1>3. CASE StopReceiving
  BY <1>3, TableFrame DEF StopReceiving, dispatch, table, ws
<1>4. CASE LockForUnsubscribe \/ UnsubscribeNext \/ CloseChannels
  BY <1>4, TableHandler
<1>5. CASE ShutdownReturns
  BY <1>5, TableFrame DEF ShutdownReturns, dispatch, handler, table, ws
<1>6. CASE ShutdownReceives
  BY <1>6, TableFrame DEF ShutdownReceives, handler, table, ws
<1>7. ASSUME NEW c \in Clients, Subscribe(c) PROVE TableInv'
  <2>1. CASE SubscribeRefused(c)
    <3>1. Go(c, "subscribe", "respond") /\ UNCHANGED <<subsLock, subs, feeds, req, chainFeed, hpc>>
      BY <2>1 DEF SubscribeRefused, dispatch, handler, table
    <3> QED BY <3>1, ReaderMoves DEF Labels, Critical
  <2>2. CASE SubscribeChannel(c) BY <2>2, TableSubscribeChannel
  <2>3. ASSUME NEW k \in Kinds, SubscribeMore(c, k) PROVE TableInv'
    BY <2>3, TableSubscribeMore
  <2>4. ASSUME NEW k \in Kinds, SubscribeFirst(c, k) PROVE TableInv'
    BY <2>4, TableSubscribeFirst
  <2> QED BY <1>7, <2>1, <2>2, <2>3, <2>4 DEF Subscribe
<1>8. ASSUME NEW c \in Clients, Unsubscribe(c) PROVE TableInv'
  <2>1. CASE UnsubscribeRefused(c)
    <3>1. Go(c, "unsubscribe", "respond") /\ UNCHANGED <<subsLock, subs, feeds, req, chainFeed, hpc>>
      BY <2>1 DEF UnsubscribeRefused, dispatch, handler, table
    <3> QED BY <3>1, ReaderMoves DEF Labels, Critical
  <2>2. CASE UnsubscribeChannel(c) BY <2>2, TableUnsubscribeChannel
  <2>3. ASSUME NEW i \in Slots, UnsubscribeMore(c, i) PROVE TableInv'
    BY <2>3, TableUnsubscribeMore
  <2>4. ASSUME NEW i \in Slots, UnsubscribeLast(c, i) PROVE TableInv'
    BY <2>4, TableUnsubscribeLast
  <2> QED BY <1>8, <2>1, <2>2, <2>3, <2>4 DEF Unsubscribe
<1>9. ASSUME NEW c \in Clients, Responded(c) PROVE TableInv'
  <2>1. Go(c, "respond", "read") /\ UNCHANGED <<subsLock, subs, feeds, req, chainFeed, hpc>>
    BY <1>9 DEF Responded, dispatch, handler, table
  <2> QED BY <2>1, ReaderMoves DEF Labels, Critical
<1>10. ASSUME NEW c \in Clients, RespondStopped(c) PROVE TableInv'
  <2>1. Go(c, "respond", "leave") /\ UNCHANGED <<subsLock, subs, feeds, req, chainFeed, hpc>>
    BY <1>10 DEF RespondStopped, dispatch, handler, table
  <2> QED BY <2>1, ReaderMoves DEF Labels, Critical
<1>11. ASSUME NEW c \in Clients, Leave(c) PROVE TableInv'
  BY <1>11, TableLeaveLock, TableLeaveFeed, TableLeaveUnlock DEF Leave
<1>12. ASSUME NEW c \in Clients, Write(c) PROVE TableInv'
  BY <1>12, TableFrame DEF Write, dispatch, handler, table, ws
<1>13. ASSUME NEW c \in Clients, Overflow(c) PROVE TableInv'
  BY <1>13, TableFrame
     DEF Overflow, OverflowMessage, OverflowReset, dispatch, handler, table, ws
<1> QED BY <1>1, <1>2, <1>3, <1>4, <1>5, <1>6, <1>7, <1>8, <1>9, <1>10, <1>11, <1>12,
           <1>13 DEF Server

LEMMA TableEnvironment ==
    ASSUME TableInv, Environment
    PROVE  TableInv'
<1>1. ASSUME NEW txs, NewBlock(txs) PROVE TableInv'
  BY <1>1, TableFrame DEF NewBlock, handler, table, ws
<1>2. CASE Shutdown
  BY <1>2, TableFrame DEF Shutdown, dispatch, handler, table, ws
<1>3. ASSUME NEW c \in Clients, Connect(c) PROVE TableInv'
  <2>1. Go(c, "off", "read") /\ UNCHANGED <<subsLock, subs, feeds, req, chainFeed, hpc>>
    BY <1>3 DEF Connect, dispatch, handler, table
  <2> QED BY <2>1, ReaderMoves DEF Labels, Critical
<1>4. ASSUME NEW c \in Clients, NEW m \in {"subscribe", "unsubscribe"}, Request(c, m)
      PROVE  TableInv'
  <2>1. Go(c, "read", m) /\ UNCHANGED <<subsLock, subs, feeds, req, chainFeed, hpc>>
    BY <1>4 DEF Request, dispatch, handler, table
  <2> QED BY <2>1, ReaderMoves DEF Labels, Critical
<1>5. ASSUME NEW c \in Clients, ReadFails(c) PROVE TableInv'
  <2>1. Go(c, "read", "leave") /\ UNCHANGED <<subsLock, subs, feeds, req, chainFeed, hpc>>
    BY <1>5 DEF ReadFails, dispatch, handler, table
  <2> QED BY <2>1, ReaderMoves DEF Labels, Critical
<1>6. ASSUME NEW c \in Clients, WriterExits(c) PROVE TableInv'
  BY <1>6, TableFrame DEF WriterExits, dispatch, handler, table, ws
<1> QED BY <1>1, <1>2, <1>3, <1>4, <1>5, <1>6 DEF Environment

LEMMA TableNext == TableInv /\ [Next]_vars => TableInv'
<1> SUFFICES ASSUME TableInv, [Next]_vars PROVE TableInv' OBVIOUS
<1>1. CASE Server BY <1>1, TableServer
<1>2. CASE Environment BY <1>2, TableEnvironment
<1>3. CASE UNCHANGED vars
  BY <1>3, TableFrame DEF vars, dispatch, handler, table, ws
<1> QED BY <1>1, <1>2, <1>3 DEF Next

(* The counters of feeds count the feeds of all clients, and the server's  *)
(* channel is subscribed to a kind of events just when somebody has a feed *)
(* for it, whatever requests, departures and the end of the server         *)
(* interleave (subscribe, unsubscribe, dropSubscriber, handleSubEvents).   *)
THEOREM CountersExact == Spec => []FeedsCounted
<1>1. TableInv => FeedsCounted
  <2> SUFFICES ASSUME TableInv, subsLock = "free", NEW k \in Kinds
               PROVE  /\ subs[k] = Cardinality(Holders(k))
                      /\ hpc # "closed" => (k \in chainFeed <=> subs[k] > 0)
    BY DEF FeedsCounted
  <2>c. \A d \in Clients : d # "free" BY ClientsAssumption
  <2>1. ~Pending(k) BY <2>c DEF TableInv, Lock, Pending, Critical
  <2>2. subs[k] = Cardinality(Holders(k)) BY <2>1 DEF TableInv, Counted
  <2>3. hpc # "closed" => (k \in chainFeed <=> subs[k] > 0) BY DEF TableInv, Lock, Synced
  <2> QED BY <2>2, <2>3
<1> QED BY <1>1, TableInit, TableNext, PTL DEF Spec

-----------------------------------------------------------------------------

(* What a client is sent: l the last message it got, w those on their way. *)
End(w, l) == IF w = <<>> THEN l ELSE w[Len(w)]
Before(w, l, i) == IF i = 1 THEN l ELSE w[i - 1]
Jumps(w, l) == \A i \in 1 .. Len(w) : w[i] = Jump => Before(w, l, i) = Missed

(* The message that says so is the last one on its way when the goroutine  *)
(* that queued it has not gone on, or when an event was skipped since.     *)
Sound(w, l, o, s) ==
    Jumps(w, l) /\ (o = "sent" \/ (o = "no" /\ s) => End(w, l) = Missed)

StreamType ==
    /\ writer \in [Clients -> Seq(Messages)]
    /\ last \in [Clients -> {Event, Missed}]
    /\ skipped \in [Clients -> BOOLEAN]
    /\ overflow \in [Clients -> {"no", "sending", "sent"}]
    /\ writes \in [Clients -> {"off", "run", "done"}]

Stream(c) ==
    /\ (writes[c] = "off") <=> (reader[c] = "off")
    /\ writes[c] = "off" => writer[c] = <<>> /\ overflow[c] = "no" /\ ~skipped[c]
    /\ writes[c] = "run" => Sound(writer[c], last[c], overflow[c], skipped[c])

StreamInv == StreamType /\ \A c \in Clients : Stream(c)

(* A message is queued; an event after skipped ones only behind the one    *)
(* that says so.                                                           *)
LEMMA Queued ==
    ASSUME NEW w \in Seq(Messages), NEW l \in {Event, Missed}, Jumps(w, l),
           NEW m \in Messages, m = Jump => End(w, l) = Missed
    PROVE  /\ Append(w, m) \in Seq(Messages)
           /\ Jumps(Append(w, m), l) /\ End(Append(w, m), l) = m
<1> DEFINE u == Append(w, m)
<1>1. /\ u \in Seq(Messages) /\ Len(w) \in Nat /\ Len(u) = Len(w) + 1
      /\ \A i \in 1 .. Len(w) : u[i] = w[i]
      /\ u[Len(w) + 1] = m
  OBVIOUS
<1>2. Len(w) = 0 <=> w = <<>> OBVIOUS
<1> HIDE DEF u
<1>3. u # <<>> /\ End(u, l) = m
  <2>1. u # <<>> BY <1>1
  <2> QED BY <1>1, <2>1 DEF End
<1>4. ASSUME NEW i \in 1 .. Len(u), u[i] = Jump PROVE Before(u, l, i) = Missed
  <2>1. CASE i \in 1 .. Len(w)
    <3>1. Before(w, l, i) = Missed BY <1>1, <1>4, <2>1 DEF Jumps
    <3>2. i # 1 => i - 1 \in 1 .. Len(w) BY <1>1, <2>1
    <3> QED BY <1>1, <3>1, <3>2 DEF Before
  <2>2. CASE i = Len(w) + 1
    <3>1. End(w, l) = Missed BY <1>1, <1>4, <2>2
    <3>2. CASE w = <<>> BY <1>2, <2>2, <3>1, <3>2 DEF End, Before
    <3>3. CASE w # <<>>
      <4>1. i # 1 /\ i - 1 = Len(w) /\ Len(w) \in 1 .. Len(w) BY <1>1, <1>2, <2>2, <3>3
      <4> QED BY <1>1, <3>1, <3>3, <4>1 DEF End, Before
    <3> QED BY <3>2, <3>3
  <2> QED BY <1>1, <2>1, <2>2
<1>5. Jumps(u, l) BY <1>4 DEF Jumps
<1> QED BY <1>1, <1>3, <1>5 DEF u

(* handleWsWrites sends the first message on its way.                      *)
LEMMA Written ==
    ASSUME NEW w \in Seq(Messages), w # <<>>, NEW l \in {Event, Missed}, Jumps(w, l)
    PROVE  LET n == IF Head(w) = Missed THEN Missed ELSE Event
           IN  /\ Tail(w) \in Seq(Messages)
               /\ Jumps(Tail(w), n)
               /\ End(w, l) = Missed => End(Tail(w), n) = Missed
<1> DEFINE n == IF Head(w) = Missed THEN Missed ELSE Event
           u == Tail(w)
<1>1. /\ u \in Seq(Messages) /\ Len(w) \in Nat /\ Len(w) > 0 /\ Len(u) = Len(w) - 1
      /\ \A i \in 1 .. Len(u) : u[i] = w[i + 1]
      /\ Head(w) = w[1]
  OBVIOUS
<1>2. u = <<>> <=> Len(u) = 0 BY <1>1
<1>n. n = Missed <=> w[1] = Missed BY <1>1 DEF Missed, Event
<1> HIDE DEF u, n
<1>3. ASSUME NEW i \in 1 .. Len(u), u[i] = Jump PROVE Before(u, n, i) = Missed
  <2>1. i + 1 \in 1 .. Len(w) /\ w[i + 1] = Jump BY <1>1, <1>3
  <2>2. Before(w, l, i + 1) = Missed BY <2>1 DEF Jumps
  <2>3. w[i] = Missed BY <2>2 DEF Before
  <2>4. CASE i = 1 BY <1>n, <2>3, <2>4 DEF Before
  <2>5. CASE i # 1
    <3>1. i - 1 \in 1 .. Len(u) /\ (i - 1) + 1 = i BY <1>1, <2>5
    <3>2. u[i - 1] = w[(i - 1) + 1] BY <1>1, <3>1
    <3> QED BY <2>3, <2>5, <3>1, <3>2 DEF Before
  <2> QED BY <2>4, <2>5
<1>4. ASSUME End(w, l) = Missed PROVE End(u, n) = Missed
  <2>1. w[Len(w)] = Missed BY <1>4 DEF End
  <2>2. CASE u = <<>>
    <3>1. Len(w) = 1 BY <1>1, <1>2, <2>2
    <3> QED BY <1>n, <2>1, <2>2, <3>1 DEF End
  <2>3. CASE u # <<>>
    <3>1. Len(u) \in 1 .. Len(u) /\ Len(u) + 1 = Len(w) BY <1>1, <1>2, <2>3
    <3> QED BY <1>1, <2>1, <2>3, <3>1 DEF End
  <2> QED BY <2>2, <2>3
<1>5. Jumps(u, n) BY <1>3 DEF Jumps
<1> QED BY <1>1, <1>4, <1>5 DEF u, n

(* Steps that leave the messages alone.                                    *)
LEMMA StreamFrame ==
    ASSUME StreamInv, UNCHANGED out,
           \A c \in Clients : (reader'[c] = "off") <=> (reader[c] = "off")
    PROVE  StreamInv'
<1>1. StreamType' BY DEF StreamInv, StreamType, out
<1>2. \A c \in Clients : Stream(c)' BY DEF StreamInv, Stream, out
<1> QED BY <1>1, <1>2 DEF StreamInv

(* A reader that goes on after it was connected.                           *)
LEMMA StaysConnected ==
    ASSUME TableInv, NEW c \in Clients, NEW from, NEW to, Go(c, from, to),
           from # "off", to # "off"
    PROVE  \A d \in Clients : (reader'[d] = "off") <=> (reader[d] = "off")
BY DEF TableInv, TableType, Go

(* An event is handed out.                                                 *)
LEMMA StreamDeliver ==
    ASSUME StreamInv, Deliver
    PROVE  StreamInv'
<1> DEFINE to == {c \in Clients : Matches(c) /\ overflow[c] = "no"}
           mark(c) == IF skipped[c] THEN Jump ELSE Event
<1>g. \A c \in Clients :
        /\ writer'[c] = IF c \in to /\ Fits(c) THEN Append(writer[c], mark(c)) ELSE writer[c]
        /\ overflow'[c] = IF c \in to /\ ~Fits(c) THEN "sending" ELSE overflow[c]
        /\ skipped'[c] = IF Matches(c) /\ writes[c] = "run"
                         THEN ~(c \in to /\ Fits(c)) ELSE skipped[c]
        /\ writes'[c] = writes[c] /\ last'[c] = last[c] /\ reader'[c] = reader[c]
  BY DEF Deliver, ws
<1>d. /\ writer' = [c \in Clients |-> IF c \in to /\ Fits(c)
                                      THEN Append(writer[c], mark(c)) ELSE writer[c]]
      /\ overflow' = [c \in Clients |-> IF c \in to /\ ~Fits(c) THEN "sending" ELSE overflow[c]]
      /\ skipped' = [c \in Clients |-> IF Matches(c) /\ writes[c] = "run"
                                       THEN ~(c \in to /\ Fits(c)) ELSE skipped[c]]
      /\ writes' = writes /\ last' = last
  BY DEF Deliver
<1>t. \A c \in to : c \in Clients /\ Matches(c) /\ overflow[c] = "no" /\ reader[c] # "off"
  BY DEF Matches, Connected
<1>u. \A c \in Clients : Matches(c) /\ overflow[c] = "no" => c \in to OBVIOUS
<1>m. \A c \in Clients : mark(c) \in Messages /\ (mark(c) = Jump => skipped[c])
                         /\ mark(c) # Missed
  BY DEF Messages, Event, Jump, Missed
<1>b. \A c \in Clients : skipped[c] \in BOOLEAN /\ overflow[c] \in {"no", "sending", "sent"}
                         /\ writer[c] \in Seq(Messages) /\ last[c] \in {Event, Missed}
  BY DEF StreamInv, StreamType
<1> HIDE DEF to, mark
<1>1. StreamType'
  <2>1. \A c \in Clients : Append(writer[c], mark(c)) \in Seq(Messages)
    BY <1>m, <1>b
  <2>2. writer' \in [Clients -> Seq(Messages)] BY <1>b, <1>d, <2>1
  <2>3. overflow' \in [Clients -> {"no", "sending", "sent"}] BY <1>b, <1>d
  <2>4. skipped' \in [Clients -> BOOLEAN] BY <1>b, <1>d
  <2> QED BY <1>d, <2>2, <2>3, <2>4 DEF StreamInv, StreamType
<1>2. ASSUME NEW c \in Clients PROVE Stream(c)'
  <2>0. Stream(c) BY DEF StreamInv
  <2>1. CASE writes[c] = "run"
    <3>s. Sound(writer[c], last[c], overflow[c], skipped[c]) BY <2>0, <2>1 DEF Stream
    <3>1. CASE c \in to /\ Fits(c)
      <4>1. /\ writer'[c] = Append(writer[c], mark(c)) /\ ~skipped'[c]
            /\ overflow'[c] = "no" /\ last'[c] = last[c] /\ overflow[c] = "no"
        BY <1>g, <1>t, <2>1, <3>1
      <4>2. Jumps(writer[c], last[c]) /\ (mark(c) = Jump => End(writer[c], last[c]) = Missed)
        BY <1>m, <3>s, <4>1 DEF Sound
      <4>3. Jumps(Append(writer[c], mark(c)), last[c]) BY <1>b, <1>m, <4>2, Queued
      <4>4. Sound(writer'[c], last'[c], overflow'[c], skipped'[c])
        BY <4>1, <4>3 DEF Sound
      <4> QED BY <1>g, <2>0, <2>1, <4>4 DEF Stream
    <3>2. CASE ~(c \in to /\ Fits(c))
      <4>1. writer'[c] = writer[c] /\ last'[c] = last[c] BY <1>g, <3>2
      <4>2. \/ overflow'[c] = "sending"
            \/ overflow'[c] = overflow[c] /\ (overflow[c] = "no" => skipped'[c] = skipped[c])
        BY <1>g, <1>u, <3>2
      <4>3. Sound(writer'[c], last'[c], overflow'[c], skipped'[c])
        BY <3>s, <4>1, <4>2 DEF Sound
      <4> QED BY <1>g, <2>0, <2>1, <4>3 DEF Stream
    <3> QED BY <3>1, <3>2
  <2>2. CASE writes[c] # "run"
    <3>1. writes[c] = "off" => c \notin to BY <1>t, <2>0 DEF Stream
    <3>2. /\ writes'[c] = writes[c] /\ reader'[c] = reader[c] /\ skipped'[c] = skipped[c]
          /\ c \notin to => writer'[c] = writer[c] /\ overflow'[c] = overflow[c]
      BY <1>g, <2>2
    <3> QED BY <2>0, <2>2, <3>1, <3>2 DEF Stream
  <2> QED BY <2>1, <2>2
<1> QED BY <1>1, <1>2 DEF StreamInv

(* A client connects.                                                      *)
LEMMA StreamConnect ==
    ASSUME TableInv, StreamInv, NEW c \in Clients, Connect(c)
    PROVE  StreamInv'
<1>g. /\ reader[c] = "off"
      /\ \A d \in Clients : reader'[d] = IF d = c THEN "read" ELSE reader[d]
      /\ \A d \in Clients : writes'[d] = IF d = c THEN "run" ELSE writes[d]
      /\ UNCHANGED <<writer, overflow, skipped, last>>
  BY DEF Connect, Go, TableInv, TableType, StreamInv, StreamType
<1>1. StreamType' BY <1>g DEF StreamInv, StreamType, Connect
<1>2. Stream(c)'
  <2>1. writer[c] = <<>> /\ overflow[c] = "no" /\ ~skipped[c]
    BY <1>g DEF StreamInv, Stream
  <2>2. Jumps(<<>>, last[c]) BY DEF Jumps
  <2>3. Sound(writer'[c], last'[c], overflow'[c], skipped'[c])
    BY <1>g, <2>1, <2>2 DEF Sound
  <2> QED BY <1>g, <2>3 DEF Stream
<1>3. \A d \in Clients \ {c} : Stream(d)' BY <1>g DEF StreamInv, Stream
<1> QED BY <1>1, <1>2, <1>3 DEF StreamInv

(* handleWsWrites ends.                                                    *)
LEMMA StreamEnds ==
    ASSUME StreamInv, NEW c \in Clients, WriterEnds(c), overflow' = overflow,
           reader[c] # "off",
           \A d \in Clients : (reader'[d] = "off") <=> (reader[d] = "off")
    PROVE  StreamInv'
<1>1. StreamType'
  <2>1. <<>> \in Seq(Messages) OBVIOUS
  <2> QED BY <2>1 DEF StreamInv, StreamType, WriterEnds
<1>2. Stream(c)' BY DEF StreamInv, StreamType, Stream, WriterEnds
<1>3. ASSUME NEW d \in Clients \ {c} PROVE Stream(d)'
  <2>1. /\ writes'[d] = writes[d] /\ writer'[d] = writer[d] /\ last'[d] = last[d]
        /\ skipped'[d] = skipped[d]
    BY DEF StreamInv, StreamType, WriterEnds
  <2> QED BY <2>1 DEF StreamInv, Stream
<1> QED BY <1>1, <1>2, <1>3 DEF StreamInv

(* It sends a message.                                                     *)
LEMMA StreamWrite ==
    ASSUME StreamInv, NEW c \in Clients, Write(c)
    PROVE  StreamInv'
<1> DEFINE n == IF Head(writer[c]) = Missed THEN Missed ELSE Event
<1>g. /\ writes[c] = "run" /\ writer[c] # <<>>
      /\ writer' = [writer EXCEPT ![c] = Tail(writer[c])]
      /\ last' = [last EXCEPT ![c] = n]
      /\ UNCHANGED <<reader, writes, overflow, skipped>>
  BY DEF Write, ws
<1>b. writer[c] \in Seq(Messages) /\ last[c] \in {Event, Missed}
  BY DEF StreamInv, StreamType
<1>s. Sound(writer[c], last[c], overflow[c], skipped[c]) BY <1>g DEF StreamInv, Stream
<1>w. /\ Tail(writer[c]) \in Seq(Messages)
      /\ Jumps(Tail(writer[c]), n)
      /\ End(writer[c], last[c]) = Missed => End(Tail(writer[c]), n) = Missed
  BY <1>g, <1>b, <1>s, Written DEF Sound
<1>n. n \in {Event, Missed} OBVIOUS
<1> HIDE DEF n
<1>1. StreamType' BY <1>g, <1>w, <1>n DEF StreamInv, StreamType
<1>2. Stream(c)'
  <2>1. writer'[c] = Tail(writer[c]) /\ last'[c] = n
    BY <1>g DEF StreamInv, StreamType
  <2>2. Sound(writer'[c], last'[c], overflow'[c], skipped'[c])
    BY <1>g, <1>s, <1>w, <2>1 DEF Sound
  <2> QED BY <1>g, <2>2 DEF StreamInv, Stream
<1>3. ASSUME NEW d \in Clients \ {c} PROVE Stream(d)'
  <2>1. writer'[d] = writer[d] /\ last'[d] = last[d] BY <1>g DEF StreamInv, StreamType
  <2> QED BY <1>g, <2>1 DEF StreamInv, Stream
<1> QED BY <1>1, <1>2, <1>3 DEF StreamInv

(* The goroutine of an overflow queues its message.                        *)
LEMMA StreamOverflowMessage ==
    ASSUME StreamInv, NEW c \in Clients, OverflowMessage(c)
    PROVE  StreamInv'
<1>g. /\ overflow[c] = "sending"
      /\ writer' = [writer EXCEPT ![c] = Append(writer[c], Missed)]
      /\ overflow' = [overflow EXCEPT ![c] = "sent"]
      /\ UNCHANGED <<reader, writes, skipped, last>>
  BY DEF OverflowMessage, ws
<1>b. writer[c] \in Seq(Messages) /\ last[c] \in {Event, Missed}
  BY DEF StreamInv, StreamType
<1>m. Missed \in Messages /\ Missed # Jump BY DEF Messages, Missed, Jump
<1>1. StreamType'
  <2>1. Append(writer[c], Missed) \in Seq(Messages) BY <1>b, <1>m
  <2> QED BY <1>g, <2>1 DEF StreamInv, StreamType
<1>2. Stream(c)'
  <2>1. writer'[c] = Append(writer[c], Missed) /\ overflow'[c] = "sent"
    BY <1>g DEF StreamInv, StreamType
  <2>2. writes[c] # "off" BY <1>g DEF StreamInv, Stream
  <2>3. ASSUME writes[c] = "run"
        PROVE  Sound(writer'[c], last'[c], overflow'[c], skipped'[c])
    <3>1. Jumps(writer[c], last[c]) BY <2>3 DEF StreamInv, Stream, Sound
    <3>2. /\ Jumps(Append(writer[c], Missed), last[c])
          /\ End(Append(writer[c], Missed), last[c]) = Missed
      BY <1>b, <1>m, <3>1, Queued
    <3> QED BY <1>g, <2>1, <3>2 DEF Sound
  <2> QED BY <1>g, <2>2, <2>3 DEF StreamInv, Stream
<1>3. ASSUME NEW d \in Clients \ {c} PROVE Stream(d)'
  <2>1. writer'[d] = writer[d] /\ overflow'[d] = overflow[d]
    BY <1>g DEF StreamInv, StreamType
  <2> QED BY <1>g, <2>1 DEF StreamInv, Stream
<1> QED BY <1>1, <1>2, <1>3 DEF StreamInv

(* And lets events be queued again.                                        *)
LEMMA StreamOverflowReset ==
    ASSUME StreamInv, NEW c \in Clients, OverflowReset(c)
    PROVE  StreamInv'
<1>g. /\ overflow[c] = "sent" /\ overflow' = [overflow EXCEPT ![c] = "no"]
      /\ UNCHANGED <<reader, writer, writes, skipped, last>>
  BY DEF OverflowReset, ws
<1>1. StreamType' BY <1>g DEF StreamInv, StreamType
<1>2. Stream(c)'
  <2>1. overflow'[c] = "no" BY <1>g DEF StreamInv, StreamType
  <2>2. writes[c] # "off" BY <1>g DEF StreamInv, Stream
  <2>3. writes[c] = "run" => Sound(writer'[c], last'[c], overflow'[c], skipped'[c])
    BY <1>g, <2>1 DEF StreamInv, Stream, Sound
  <2> QED BY <1>g, <2>2, <2>3 DEF StreamInv, Stream
<1>3. ASSUME NEW d \in Clients \ {c} PROVE Stream(d)'
  <2>1. overflow'[d] = overflow[d] BY <1>g DEF StreamInv, StreamType
  <2> QED BY <1>g, <2>1 DEF StreamInv, Stream
<1> QED BY <1>1, <1>2, <1>3 DEF StreamInv

LEMMA StreamInit == Init => StreamInv
<1> SUFFICES ASSUME Init PROVE StreamInv OBVIOUS
<1>1. StreamType
  <2>1. <<>> \in Seq(Messages) OBVIOUS
  <2> QED BY <2>1 DEF Init, StreamType
<1>2. \A c \in Clients : Stream(c) BY DEF Init, Stream
<1> QED BY <1>1, <1>2 DEF StreamInv

LEMMA StreamServer ==
    ASSUME TableInv, StreamInv, Server
    PROVE  StreamInv'
<1>1. CASE Receive BY <1>1, StreamFrame DEF Receive, ws
<1>2. CASE Deliver BY <1>2, StreamDeliver
<1>3. CASE StopReceiving BY <1>3, StreamFrame DEF StopReceiving, ws
<1>4. CASE LockForUnsubscribe \/ UnsubscribeNext \/ CloseChannels
  BY <1>4, StreamFrame DEF LockForUnsubscribe, UnsubscribeNext, CloseChannels, ws
<1>5. CASE ShutdownReturns \/ ShutdownReceives
  BY <1>5, StreamFrame DEF ShutdownReturns, ShutdownReceives, ws
<1>6. ASSUME NEW c \in Clients, Subscribe(c) PROVE StreamInv'
  <2>1. UNCHANGED out
    BY <1>6 DEF Subscribe, SubscribeRefused, SubscribeChannel, SubscribeMore, SubscribeFirst
  <2>2. Go(c, "subscribe", "respond") \/ Go(c, "subCh", "respond") \/ Go(c, "subscribe", "subCh")
    BY <1>6 DEF Subscribe, SubscribeRefused, SubscribeChannel, SubscribeMore, SubscribeFirst
  <2> QED BY <2>1, <2>2, StaysConnected, StreamFrame
<1>7. ASSUME NEW c \in Clients, Unsubscribe(c) PROVE StreamInv'
  <2>1. UNCHANGED out
    BY <1>7 DEF Unsubscribe, UnsubscribeRefused, UnsubscribeChannel, UnsubscribeMore,
                UnsubscribeLast
  <2>2. \/ Go(c, "unsubscribe", "respond") \/ Go(c, "unsubCh", "respond")
        \/ Go(c, "unsubscribe", "unsubCh")
    BY <1>7 DEF Unsubscribe, UnsubscribeRefused, UnsubscribeChannel, UnsubscribeMore,
                UnsubscribeLast
  <2> QED BY <2>1, <2>2, StaysConnected, StreamFrame
<1>8. ASSUME NEW c \in Clients, Responded(c) \/ RespondStopped(c) PROVE StreamInv'
  <2>1. UNCHANGED out /\ (Go(c, "respond", "read") \/ Go(c, "respond", "leave"))
    BY <1>8 DEF Responded, RespondStopped
  <2> QED BY <2>1, StaysConnected, StreamFrame
<1>9. ASSUME NEW c \in Clients, Leave(c) PROVE StreamInv'
  <2>1. CASE LeaveLock(c)
    <3>1. UNCHANGED out /\ Go(c, "leave", "leaving") BY <2>1 DEF LeaveLock
    <3> QED BY <3>1, StaysConnected, StreamFrame
  <2>2. CASE LeaveFeed(c) BY <2>2, StreamFrame DEF LeaveFeed, ws
  <2>3. CASE LeaveUnlock(c)
    <3>1. Go(c, "leaving", "gone") /\ WriterEnds(c) /\ overflow' = overflow
      BY <2>3 DEF LeaveUnlock
    <3>2. reader[c] # "off" BY <3>1 DEF Go
    <3>3. \A d \in Clients : (reader'[d] = "off") <=> (reader[d] = "off")
      BY <3>1, StaysConnected
    <3> QED BY <3>1, <3>2, <3>3, StreamEnds
  <2> QED BY <1>9, <2>1, <2>2, <2>3 DEF Leave
<1>10. ASSUME NEW c \in Clients, Write(c) PROVE StreamInv'
  BY <1>10, StreamWrite
<1>11. ASSUME NEW c \in Clients, Overflow(c) PROVE StreamInv'
  BY <1>11, StreamOverflowMessage, StreamOverflowReset DEF Overflow
<1> QED BY <1>1, <1>2, <1>3, <1>4, <1>5, <1>6, <1>7, <1>8, <1>9, <1>10, <1>11 DEF Server

LEMMA StreamEnvironment ==
    ASSUME TableInv, StreamInv, Environment
    PROVE  StreamInv'
<1>1. ASSUME NEW txs, NewBlock(txs) PROVE StreamInv'
  BY <1>1, StreamFrame DEF NewBlock, ws
<1>2. CASE Shutdown BY <1>2, StreamFrame DEF Shutdown, ws
<1>3. ASSUME NEW c \in Clients, Connect(c) PROVE StreamInv'
  BY <1>3, StreamConnect
<1>4. ASSUME NEW c \in Clients, NEW m \in {"subscribe", "unsubscribe"}, Request(c, m)
      PROVE  StreamInv'
  <2>1. UNCHANGED out /\ Go(c, "read", m) BY <1>4 DEF Request
  <2> QED BY <2>1, StaysConnected, StreamFrame
<1>5. ASSUME NEW c \in Clients, ReadFails(c) PROVE StreamInv'
  <2>1. UNCHANGED out /\ Go(c, "read", "leave") BY <1>5 DEF ReadFails
  <2> QED BY <2>1, StaysConnected, StreamFrame
<1>6. ASSUME NEW c \in Clients, WriterExits(c) PROVE StreamInv'
  <2>1. /\ writes[c] = "run" /\ WriterEnds(c) /\ overflow' = overflow /\ reader' = reader
    BY <1>6 DEF WriterExits, ws
  <2>2. reader[c] # "off" BY <2>1 DEF StreamInv, Stream
  <2> QED BY <2>1, <2>2, StreamEnds
<1> QED BY <1>1, <1>2, <1>3, <1>4, <1>5, <1>6 DEF Environment

LEMMA StreamNext == TableInv /\ StreamInv /\ [Next]_vars => StreamInv'
<1> SUFFICES ASSUME TableInv, StreamInv, [Next]_vars PROVE StreamInv' OBVIOUS
<1>1. CASE Server BY <1>1, StreamServer
<1>2. CASE Environment BY <1>2, StreamEnvironment
<1>3. CASE UNCHANGED vars BY <1>3, StreamFrame DEF vars, ws
<1> QED BY <1>1, <1>2, <1>3 DEF Next

(* A client whose events did not fit into its channel is told so before it *)
(* gets the next event, whatever handleSubEvents, handleWsWrites and the   *)
(* goroutine of the overflow interleave.                                   *)
THEOREM MissedTold == Spec => []MissedMarked
<1>1. StreamInv => MissedMarked
  <2> SUFFICES ASSUME StreamInv, NEW c \in Clients, writes[c] = "run",
                      NEW i \in 2 .. Len(<<last[c]>> \o writer[c]),
                      (<<last[c]>> \o writer[c])[i] = Jump
               PROVE  (<<last[c]>> \o writer[c])[i - 1] = Missed
    BY DEF MissedMarked
  <2> DEFINE w == writer[c]
             stream == <<last[c]>> \o w
  <2>1. w \in Seq(Messages) /\ last[c] \in Messages
    BY DEF StreamInv, StreamType, Messages
  <2>2. /\ Len(w) \in Nat /\ Len(stream) = Len(w) + 1
        /\ stream[1] = last[c]
        /\ \A j \in 1 .. Len(w) : stream[j + 1] = w[j]
    BY <2>1
  <2>3. Jumps(w, last[c]) BY DEF StreamInv, Stream, Sound
  <2> HIDE DEF w, stream
  <2>4. i - 1 \in 1 .. Len(w) /\ (i - 1) + 1 = i BY <2>2 DEF stream, w
  <2>5. w[i - 1] = Jump BY <2>2, <2>4 DEF stream, w
  <2>6. Before(w, last[c], i - 1) = Missed BY <2>3, <2>4, <2>5 DEF Jumps
  <2>7. stream[i - 1] = Missed
    <3>1. CASE i - 1 = 1 BY <2>2, <2>6, <3>1 DEF Before
    <3>2. CASE i - 1 # 1
      <4>1. i - 2 \in 1 .. Len(w) /\ (i - 2) + 1 = i - 1 /\ (i - 1) - 1 = i - 2 BY <2>4, <3>2
      <4>2. w[i - 2] = Missed BY <2>6, <3>2, <4>1 DEF Before
      <4>3. stream[(i - 2) + 1] = w[i - 2] BY <2>2, <4>1
      <4> QED BY <4>1, <4>2, <4>3
    <3> QED BY <3>1, <3>2
  <2> QED BY <2>7 DEF stream, w
<1> QED BY <1>1, TableInit, TableNext, StreamInit, StreamNext, PTL DEF Spec
=============================================================================
