-------------------------------- MODULE Ledger --------------------------------
(***************************************************************************)
(* The ledger of pkg/core/blockchain.go over its write-cached store        *)
(* (pkg/core/dao, pkg/core/storage/memcached_store.go): AddHeaders from    *)
(* the handlers of the peers, AddBlock with storeBlock, the flush of the   *)
(* cache by Run, Close, crashes, and init on what the disk holds.  The     *)
(* blocks offered are the ones of the one chain consensus agrees on, so a  *)
(* block, its header and its hash are its index.                           *)
(***************************************************************************)
EXTENDS Integers, Sequences, FiniteSets

CONSTANTS
    Peers,               \* connections whose handlers deliver headers
    MaxHeight,           \* bound: blocks of the chain
    HeaderBatchCount,    \* headerBatchCount
    MaxTraceableBlocks,  \* MaxTraceableBlocks; 0 without RemoveUntraceableBlocks
    MaxStops,            \* bound: crashes and shutdowns
    MaxFailures          \* bound: flushes the disk refuses

ASSUME LedgerAssumption ==
    /\ MaxHeight \in Nat /\ HeaderBatchCount \in Nat \ {0}
    /\ MaxTraceableBlocks \in Nat /\ MaxStops \in Nat /\ MaxFailures \in Nat

VARIABLES
    disk,               \* the persistent store
    temp,               \* tempstore, the maps being flushed
    mem,                \* the maps of the MemCachedStore
    headerHashes,       \* hashes of the known headers, the genesis first
    storedHeaderCount,  \* storedHeaderCount
    blockHeight,        \* blockHeight
    persistedHeight,    \* persistedHeight
    trieFrom,           \* first block whose changes the state trie holds
    adding,             \* the AddBlock that holds addLock: pc and block
    receiving,          \* peer -> its AddHeaders: pc and the headers
    flushing,           \* Run's persist: pc and isSync
    status,             \* "running", "closing", "final", "closed", "crashed", "failed"
    stops,              \* crashes and shutdowns so far
    failures            \* flushes refused so far

storeVars == <<disk, temp, mem>>
headerVars == <<headerHashes, storedHeaderCount>>
stateVars == <<blockHeight, trieFrom>>
procVars == <<adding, receiving, flushing>>
boundVars == <<stops, failures>>
vars == <<disk, temp, mem, headerHashes, storedHeaderCount, blockHeight, persistedHeight,
          trieFrom, adding, receiving, flushing, status, stops, failures>>

None == -1
Heights == 0 .. MaxHeight
NoBlock == "none"

-----------------------------------------------------------------------------
(* The store.  A layer holds the keys written to it: SYSCurrentBlock,      *)
(* SYSCurrentHeader, the block or only the header under a hash, the        *)
(* batches of header hashes by their first index, the height the contract  *)
(* storage stands for, and the local state root of a height (the first     *)
(* block whose changes its trie holds).                                    *)
Empty == [curBlock |-> None, curHeader |-> None, block |-> [i \in Heights |-> NoBlock],
          hashes |-> {}, state |-> None, root |-> [i \in Heights |-> None]]

Newest(lower, upper) == IF upper = None THEN lower ELSE upper

(* PutChangeSet of `upper` on `lower`; what Get sees through the layers.   *)
Over(lower, upper) ==
    [curBlock  |-> Newest(lower.curBlock, upper.curBlock),
     curHeader |-> Newest(lower.curHeader, upper.curHeader),
     block     |-> [i \in Heights |-> IF upper.block[i] = NoBlock THEN lower.block[i]
                                                                  ELSE upper.block[i]],
     hashes    |-> lower.hashes \cup upper.hashes,
     state     |-> Newest(lower.state, upper.state),
     root      |-> [i \in Heights |-> Newest(lower.root[i], upper.root[i])]]

Store == Over(Over(disk, temp), mem)

(* PersistSync holds the lock of the store until its flush is over.        *)
StoreFree == ~(flushing.isSync /\ flushing.pc # "idle")

-----------------------------------------------------------------------------
(* Headers.                                                                *)
HeaderHeight == Len(headerHashes) - 1
Chain(from, to) == [n \in 1 .. (to + 1 - from) |-> from + n - 1]

(* The loop of addHeaders that writes whole batches of hashes.             *)
StoredHeaderCount(last, stored) ==
    IF last - HeaderBatchCount >= stored
    THEN stored + HeaderBatchCount * (((last - HeaderBatchCount - stored) \div HeaderBatchCount) + 1)
    ELSE stored

BatchStarts(from, to) == {s \in from .. (to - 1) : (s - from) % HeaderBatchCount = 0}

(* What addHeaders writes when it extends the list up to header `to`.      *)
HeaderLayer(to) ==
    [Empty EXCEPT
        !.curHeader = to,
        !.block = [i \in Heights |-> IF i \in Len(headerHashes) .. to THEN "header" ELSE NoBlock],
        !.hashes = BatchStarts(storedHeaderCount, StoredHeaderCount(to, storedHeaderCount))]

(* The part of addHeaders under headerHashesLock: headers that do not      *)
(* continue the list are skipped.                                          *)
StoreHeaders(from, to) ==
    IF from <= Len(headerHashes) /\ to >= Len(headerHashes)
    THEN /\ headerHashes' = headerHashes \o Chain(Len(headerHashes), to)
         /\ storedHeaderCount' = StoredHeaderCount(to, storedHeaderCount)
         /\ mem' = Over(mem, HeaderLayer(to))
    ELSE UNCHANGED <<headerHashes, storedHeaderCount, mem>>

(* GetHeader and verifyHeader: the headers offered follow each other, but  *)
(* the one before the first has to be in the store.                        *)
HeaderVerified(first) == Store.block[first - 1] # NoBlock

(* AddHeaders up to the lock: headers already known are dropped, all but   *)
(* the last one, and the header before the first must be in the store.     *)
AddHeaders(p, from, to) ==
    LET first == IF to <= HeaderHeight THEN to
                 ELSE IF from <= HeaderHeight THEN HeaderHeight + 1 ELSE from
    IN  /\ status = "running" /\ receiving[p].pc = "idle" /\ StoreFree
        /\ HeaderVerified(first)
        /\ receiving' = [receiving EXCEPT ![p] = [pc |-> "verified", from |-> first, to |-> to]]
        /\ UNCHANGED <<storeVars, headerVars, stateVars, persistedHeight, adding, flushing,
                       status, boundVars>>

NotReceiving == [pc |-> "idle", from |-> 0, to |-> 0]

AddHeadersLocked(p) ==
    /\ receiving[p].pc = "verified" /\ StoreFree
    /\ StoreHeaders(receiving[p].from, receiving[p].to)
    /\ receiving' = [receiving EXCEPT ![p] = NotReceiving]
    /\ UNCHANGED <<disk, temp, stateVars, persistedHeight, adding, flushing, status, boundVars>>

-----------------------------------------------------------------------------
(* Blocks.                                                                 *)
NotAdding == [pc |-> "idle", index |-> 0]

(* AddBlock takes addLock; addHeaders only for the first unknown header.   *)
AddBlock ==
    /\ status = "running" /\ adding.pc = "idle" /\ StoreFree
    /\ blockHeight < MaxHeight
    /\ adding' = [pc |-> IF blockHeight + 1 = HeaderHeight + 1 THEN "headers" ELSE "execute",
                  index |-> blockHeight + 1]
    /\ UNCHANGED <<storeVars, headerVars, stateVars, persistedHeight, receiving, flushing,
                   status, boundVars>>

AddBlockHeader ==
    /\ adding.pc = "headers" /\ StoreFree
    /\ StoreHeaders(adding.index, adding.index)
    /\ adding' = [adding EXCEPT !.pc = "execute"]
    /\ UNCHANGED <<disk, temp, stateVars, persistedHeight, receiving, flushing, status, boundVars>>

(* The block, a transaction in it or a hook of a native contract fails.    *)
AddBlockError ==
    /\ adding.pc = "execute"
    /\ adding' = NotAdding
    /\ UNCHANGED <<storeVars, headerVars, stateVars, persistedHeight, receiving, flushing,
                   status, boundVars>>

StoreAsCurrentBlock(layer, i) == [layer EXCEPT !.curBlock = i]
StoreAsBlock(layer, i) == [layer EXCEPT !.block[i] = "block"]

(* DeleteBlock cuts a block down to its header.                            *)
DeleteBlock(layer, i) == [layer EXCEPT !.block[i] = "header"]

(* Mutant: the block that is still traceable is removed.                   *)
AerLayer_Early(i) ==
    LET layer == StoreAsBlock(StoreAsCurrentBlock(Empty, i), i)
    IN  IF MaxTraceableBlocks > 0 /\ i >= MaxTraceableBlocks
        THEN DeleteBlock(layer, i - MaxTraceableBlocks + 1)
        ELSE layer

(* The private store aerCache of storeBlock: the pointer to the current    *)
(* block, the block with its transactions, and the block that can no       *)
(* longer be traced without them.                                          *)
AerLayer(i) ==
    LET layer == StoreAsBlock(StoreAsCurrentBlock(Empty, i), i)
    IN  IF MaxTraceableBlocks > 0 /\ i > MaxTraceableBlocks
        THEN DeleteBlock(layer, i - MaxTraceableBlocks)
        ELSE layer

AddLocalStateRoot(layer, i) == [layer EXCEPT !.root[i] = trieFrom]

(* The private store cache: contract storage, trie and local state root.   *)
CacheLayer(i) == AddLocalStateRoot([Empty EXCEPT !.state = i], i)

(* storeBlock, under lock: aerCache.Persist, then cache.Persist, then the  *)
(* fields.  The store has its own lock, which is free in between.          *)
StoreBlockAer ==
    /\ adding.pc = "execute" /\ StoreFree
    /\ mem' = Over(mem, AerLayer(adding.index))
    /\ adding' = [adding EXCEPT !.pc = "cache"]
    /\ UNCHANGED <<disk, temp, headerVars, stateVars, persistedHeight, receiving, flushing,
                   status, boundVars>>

StoreBlockCache ==
    /\ adding.pc = "cache" /\ StoreFree
    /\ mem' = Over(mem, CacheLayer(adding.index))
    /\ adding' = [adding EXCEPT !.pc = "publish"]
    /\ UNCHANGED <<disk, temp, headerVars, stateVars, persistedHeight, receiving, flushing,
                   status, boundVars>>

StoreBlockPublish ==
    /\ adding.pc = "publish"
    /\ blockHeight' = adding.index
    /\ adding' = NotAdding
    /\ UNCHANGED <<storeVars, headerVars, trieFrom, persistedHeight, receiving, flushing,
                   status, boundVars>>

-----------------------------------------------------------------------------
(* Flushing the cache.                                                     *)
NotFlushing == [pc |-> "idle", isSync |-> FALSE]

(* persist on the timer: the maps of the store become its lower layer.     *)
Persist(isSync) ==
    /\ status = "running" /\ flushing.pc = "idle" /\ mem # Empty
    /\ temp' = mem /\ mem' = Empty
    /\ flushing' = [pc |-> "flush", isSync |-> isSync]
    /\ UNCHANGED <<disk, headerVars, stateVars, persistedHeight, adding, receiving, status, boundVars>>

(* PutChangeSet is one transaction of the database.                        *)
Flush ==
    /\ flushing.pc = "flush"
    /\ disk' = Over(disk, temp)
    /\ flushing' = [flushing EXCEPT !.pc = "flushed"]
    /\ UNCHANGED <<temp, mem, headerVars, stateVars, persistedHeight, adding, receiving,
                   status, boundVars>>

(* Mutant: what was to be flushed is forgotten.                            *)
KeepUnflushed_Lost(old, new) == new

(* After an error the maps are joined again, the newer values on top.      *)
KeepUnflushed(old, new) == Over(old, new)

(* The deferred persist of Run closes the database whatever happened.      *)
FlushFailed ==
    /\ flushing.pc = "flush" /\ failures < MaxFailures
    /\ mem' = KeepUnflushed(temp, mem) /\ temp' = Empty
    /\ flushing' = NotFlushing
    /\ failures' = failures + 1
    /\ status' = IF status = "final" THEN "crashed" ELSE status
    /\ UNCHANGED <<disk, headerVars, stateVars, persistedHeight, adding, receiving, stops>>

(* Mutant: the height of the ledger counts as persisted.                   *)
Flushed_BlockHeight ==
    /\ flushing.pc = "flushed"
    /\ temp' = Empty
    /\ persistedHeight' = blockHeight
    /\ flushing' = NotFlushing
    /\ status' = IF status = "final" THEN "closed" ELSE status
    /\ UNCHANGED <<disk, mem, headerVars, stateVars, adding, receiving, boundVars>>

(* The lower layer is the disk again, and persist reads the height there.  *)
Flushed ==
    /\ flushing.pc = "flushed"
    /\ temp' = Empty
    /\ persistedHeight' = disk.curBlock
    /\ flushing' = NotFlushing
    /\ status' = IF status = "final" THEN "closed" ELSE status
    /\ UNCHANGED <<disk, mem, headerVars, stateVars, adding, receiving, boundVars>>

-----------------------------------------------------------------------------
(* Stopping and starting.                                                  *)

(* Mutant: Close does not wait for the block that is being added.          *)
Close_NoWait ==
    /\ status = "running" /\ stops < MaxStops
    /\ status' = "closing" /\ stops' = stops + 1
    /\ UNCHANGED <<storeVars, headerVars, stateVars, persistedHeight, procVars, failures>>

(* Close takes addLock and stops Run, which may be flushing.               *)
Close ==
    /\ status = "running" /\ adding.pc = "idle" /\ stops < MaxStops
    /\ status' = "closing" /\ stops' = stops + 1
    /\ UNCHANGED <<storeVars, headerVars, stateVars, persistedHeight, procVars, failures>>

(* The deferred persist(true) of Run.                                      *)
FinalPersist ==
    /\ status = "closing" /\ flushing.pc = "idle"
    /\ IF mem = Empty
       THEN status' = "closed" /\ UNCHANGED <<temp, mem, flushing>>
       ELSE /\ status' = "final"
            /\ temp' = mem /\ mem' = Empty
            /\ flushing' = [pc |-> "flush", isSync |-> TRUE]
    /\ UNCHANGED <<disk, headerVars, stateVars, persistedHeight, adding, receiving, boundVars>>

Crash ==
    /\ status \in {"running", "closing", "final"} /\ stops < MaxStops
    /\ status' = "crashed" /\ stops' = stops + 1
    /\ UNCHANGED <<storeVars, headerVars, stateVars, persistedHeight, procVars, failures>>

NthStart(S, n) == CHOOSE s \in S : Cardinality({t \in S : t < s}) = n

(* GetHeaderHashes.                                                        *)
StoredHashes(layer) ==
    [n \in 1 .. (HeaderBatchCount * Cardinality(layer.hashes)) |->
        NthStart(layer.hashes, (n - 1) \div HeaderBatchCount) + ((n - 1) % HeaderBatchCount)]

(* Mutant: the walk always goes back to the genesis block.                 *)
WalkTarget_Genesis(layer) == 0

(* The last stored hash, where the walk back from the current header ends. *)
WalkTarget(layer) ==
    IF layer.hashes = {} THEN 0 ELSE StoredHashes(layer)[Len(StoredHashes(layer))]

(* Every header of the walk is in the store.                               *)
WalkPossible(layer) ==
    layer.curHeader >= Len(StoredHashes(layer)) =>
        /\ layer.curHeader >= WalkTarget(layer)
        /\ \A i \in (WalkTarget(layer) + 1) .. layer.curHeader : layer.block[i] # NoBlock

(* headerHashes as init makes it from the store.                           *)
RestoredHeaders(layer) ==
    LET stored == IF layer.hashes = {} THEN <<0>> ELSE StoredHashes(layer)
    IN  IF layer.curHeader >= Len(StoredHashes(layer))
        THEN stored \o Chain(WalkTarget(layer) + 1, layer.curHeader)
        ELSE stored

(* stateRoot.Init finds the local root; at height 0 it does not look.      *)
RootFound(layer) == layer.curBlock = 0 \/ layer.root[layer.curBlock] # None

GenesisLayer ==
    [Empty EXCEPT !.curBlock = 0, !.curHeader = 0, !.state = 0,
                  !.block = [i \in Heights |-> IF i = 0 THEN "block" ELSE NoBlock],
                  !.root = [i \in Heights |-> IF i = 0 THEN 0 ELSE None]]

(* init of a node without a database: the genesis block is stored.         *)
CreateGenesis ==
    /\ disk = Empty
    /\ mem' = GenesisLayer
    /\ headerHashes' = <<0>> /\ storedHeaderCount' = 0
    /\ blockHeight' = 0 /\ trieFrom' = 0
    /\ persistedHeight' = 0
    /\ status' = "running"

(* init on what was stored; it gives up when a header or the state root of *)
(* the current block is missing.                                           *)
Restore ==
    /\ disk # Empty
    /\ mem' = Empty
    /\ IF WalkPossible(disk) /\ RootFound(disk)
       THEN /\ headerHashes' = RestoredHeaders(disk)
            /\ storedHeaderCount' = Len(StoredHashes(disk))
            /\ blockHeight' = disk.curBlock /\ persistedHeight' = disk.curBlock
            /\ trieFrom' = IF disk.curBlock = 0 THEN 1 ELSE disk.root[disk.curBlock]
            /\ status' = "running"
       ELSE status' = "failed" /\ UNCHANGED <<headerVars, stateVars, persistedHeight>>

(* NewBlockchain after a stop.                                             *)
Start ==
    /\ status \in {"closed", "crashed"}
    /\ CreateGenesis \/ Restore
    /\ temp' = Empty
    /\ adding' = NotAdding /\ flushing' = NotFlushing
    /\ receiving' = [p \in Peers |-> NotReceiving]
    /\ UNCHANGED <<disk, boundVars>>

-----------------------------------------------------------------------------
Init ==
    /\ disk = Empty /\ temp = Empty /\ mem = GenesisLayer
    /\ headerHashes = <<0>> /\ storedHeaderCount = 0
    /\ blockHeight = 0 /\ persistedHeight = 0 /\ trieFrom = 0
    /\ adding = NotAdding /\ flushing = NotFlushing
    /\ receiving = [p \in Peers |-> NotReceiving]
    /\ status = "running" /\ stops = 0 /\ failures = 0

Live == status \in {"running", "closing", "final"}

Next ==
    \/ \E p \in Peers, from, to \in 1 .. MaxHeight : from <= to /\ AddHeaders(p, from, to)
    \/ Live /\ \E p \in Peers : AddHeadersLocked(p)
    \/ AddBlock
    \/ Live /\ (AddBlockHeader \/ AddBlockError \/ StoreBlockAer \/ StoreBlockCache \/ StoreBlockPublish)
    \/ \E isSync \in BOOLEAN : Persist(isSync)
    \/ Live /\ (Flush \/ FlushFailed \/ Flushed)
    \/ Close \/ FinalPersist \/ Crash \/ Start

Spec == Init /\ [][Next]_vars

-----------------------------------------------------------------------------
(* Properties.                                                             *)

(* addHeaders and init: the list of hashes is the chain without gap or     *)
(* repetition, it never ends before the highest block, and every header in *)
(* it can be read through the store, whatever was flushed or lost.         *)
HeaderChain ==
    Live =>
        /\ headerHashes = Chain(0, HeaderHeight)
        /\ blockHeight <= HeaderHeight
        /\ Store.curHeader = HeaderHeight
        /\ \A i \in 0 .. HeaderHeight : Store.block[i] # NoBlock

(* Any state of the disk lets init rebuild the whole list of hashes up to  *)
(* SYSCurrentHeader: a stop between two batches of hashes loses none.      *)
HeadersRecoverable ==
    disk # Empty => WalkPossible(disk) /\ RestoredHeaders(disk) = Chain(0, disk.curHeader)

(* Blocks up to the height of the ledger that can still be traced are in   *)
(* the store as blocks: a header that arrives late, a failed flush or a    *)
(* restart never replaces one.                                             *)
BlocksKept ==
    Live => \A i \in 0 .. blockHeight :
        (MaxTraceableBlocks = 0 \/ i > blockHeight - MaxTraceableBlocks) =>
            \/ Store.block[i] = "block"
            \/ adding.pc \in {"cache", "publish"} /\ i = adding.index - MaxTraceableBlocks

(* What a flush can split is one block: the state on disk is that of the   *)
(* current block on disk or of the one before it, and after Close has run  *)
(* to its end the node can start again.                                    *)
SplitAtMostOne ==
    disk # Empty =>
        /\ disk.state \in {disk.curBlock, disk.curBlock - 1}
        /\ status = "closed" => RootFound(disk) /\ disk.state = disk.curBlock

(* A start never loses a block that persist reported as persisted.         *)
PersistedStays ==
    [][(status \in {"closed", "crashed"} /\ status' = "running")
           => (blockHeight' >= persistedHeight)]_vars
=============================================================================
