------------------------------ MODULE BlockSync ------------------------------
(***************************************************************************)
(* Fetching blocks from peers: requestBlocks of pkg/network/server.go asks *)
(* for ranges of blocks, the handler of every peer puts the answers into   *)
(* the ring buffer of pkg/network/blockqueue.go, and one goroutine, run,   *)
(* moves them from there into the ledger, which consensus may also extend. *)
(* Handlers, run and consensus interleave wherever the code holds no lock. *)
(***************************************************************************)
EXTENDS Integers, FiniteSetsExt

CONSTANTS
    Peers,           \* connected peers, each with its handler goroutine
    StartHeight,     \* BlockHeight of the stored ledger
    PeerHeight,      \* LastBlockIndex of every peer
    BlockCacheSize,  \* blockCacheSize, slots of the ring buffer
    MaxHashesCount,  \* blocks per request
    Consensus,       \* whether consensus adds blocks too
    MaxFailures,     \* bound: blocks of the right height the ledger refuses
    MayShutdown      \* whether the server may be shut down

ASSUME SizesAssumption ==
    /\ PeerHeight \in Nat \ {0} /\ StartHeight \in 0 .. PeerHeight /\ MaxFailures \in Nat
    /\ BlockCacheSize \in Nat \ {0} /\ MaxHashesCount \in Nat \ {0}
    /\ MaxHashesCount <= BlockCacheSize
ASSUME SwitchAssumption == Consensus \in BOOLEAN /\ MayShutdown \in BOOLEAN

VARIABLES
    height,         \* BlockHeight of the ledger
    failures,       \* how often the ledger refused the next block
    queue,          \* slot -> index of the block in it, 0 for nil
    lastQ,          \* lastQ, up to where blocks were queued without a gap
    checkBlocks,    \* the channel: "empty", "full" or "closed"
    run,            \* the goroutine: pc, h, b and its lastHeight
    put,            \* peer -> its putBlock: pc, the height read, the block
    reading,        \* peer -> the height requestBlocks read, or Idle
    lastRequested,  \* lastRequestedBlock
    wire,           \* indexes of the blocks peers have sent
    panicked        \* a send on the closed channel ended the process

vars == <<height, failures, queue, lastQ, checkBlocks, run, put, reading,
          lastRequested, wire, panicked>>
chainVars == <<height, failures>>
queueVars == <<queue, lastQ>>
requestVars == <<reading, lastRequested>>

Idle == -1
Indexes == 1 .. PeerHeight
Slots == 0 .. (BlockCacheSize - 1)
IndexToPosition(i) == i % BlockCacheSize

-----------------------------------------------------------------------------
(* Requests.                                                               *)

(* Mutant: what was requested once is not requested again.                 *)
RequestBlocksPayload_Once(h, old) ==
    IF old <= h
    THEN {[start |-> h + 1, last |-> h + 1]}
    ELSE IF PeerHeight > old + MaxHashesCount
    THEN {[start |-> old + MaxHashesCount, last |-> old + MaxHashesCount]}
    ELSE {[start |-> old, last |-> old]}

(* getRequestBlocksPayload: the heights it may ask for, with the new value *)
(* of lastRequestedBlock.  The loop around the CAS makes it atomic.        *)
RequestBlocksPayload(h, old) ==
    IF old <= h
    THEN {[start |-> h + 1, last |-> h + 1]}
    ELSE IF old < h + (BlockCacheSize - MaxHashesCount)
    THEN IF PeerHeight > old + MaxHashesCount
         THEN {[start |-> old + MaxHashesCount, last |-> old + MaxHashesCount]}
         ELSE {[start |-> h + 1, last |-> old]}
    ELSE {[start |-> h + 1 + k * MaxHashesCount, last |-> old] :
            k \in 0 .. ((BlockCacheSize \div MaxHashesCount) - 1)}

(* requestBlocks leaves out what is queued already; a count of -1 asks for *)
(* MaxHashesCount blocks.                                                  *)
RequestStart(start) == IF lastQ > start THEN lastQ + 1 ELSE start
RequestCount(h, start) ==
    LET c == h + BlockCacheSize - lastQ
    IN  IF lastQ > start /\ c < MaxHashesCount THEN c ELSE -1

(* DecodeBinary of the request at the peer.                                *)
ValidCount(count) == count = -1 \/ count > 0

(* handleGetBlockByIndexCmd at the peer.                                   *)
Answer(start, count) ==
    IF ~ValidCount(count) THEN {}
    ELSE LET n == IF count < 0 \/ count > MaxHashesCount THEN MaxHashesCount ELSE count
         IN  start .. (start + n - 1) \cap Indexes

(* requestBlocksOrHeaders, on the protocol timer, a ping or a pong.        *)
Request(p) ==
    /\ ~panicked /\ checkBlocks # "closed" /\ reading[p] = Idle
    /\ height < PeerHeight
    /\ reading' = [reading EXCEPT ![p] = height]
    /\ UNCHANGED <<chainVars, queueVars, checkBlocks, run, put, lastRequested, wire, panicked>>

(* Either the peer answers or its answer is lost.                          *)
SendRequest(p, r, answered) ==
    /\ ~panicked /\ reading[p] # Idle
    /\ r \in RequestBlocksPayload(reading[p], lastRequested)
    /\ lastRequested' = r.last
    /\ wire' = IF answered
               THEN wire \cup Answer(RequestStart(r.start), RequestCount(reading[p], r.start))
               ELSE wire
    /\ reading' = [reading EXCEPT ![p] = Idle]
    /\ UNCHANGED <<chainVars, queueVars, checkBlocks, run, put, panicked>>

(* The peers announce their top block; handleInvCmd asks for a block the   *)
(* ledger does not have, wherever it is.                                   *)
Announce ==
    /\ ~panicked /\ checkBlocks # "closed" /\ height < PeerHeight
    /\ wire' = wire \cup {PeerHeight}
    /\ UNCHANGED <<chainVars, queueVars, checkBlocks, run, put, requestVars, panicked>>

-----------------------------------------------------------------------------
(* putBlock, in the handler of a peer: the height is read, then the block  *)
(* stored under queueLock, then run is woken.                              *)

PutBlock(p, i) ==
    /\ ~panicked /\ checkBlocks # "closed" /\ put[p].pc = "idle" /\ i \in wire
    /\ wire' = wire \ {i}
    /\ put' = [put EXCEPT ![p] = [pc |-> "store", h |-> height, i |-> i]]
    /\ UNCHANGED <<chainVars, queueVars, checkBlocks, run, requestVars, panicked>>

(* The loop that advances lastQ over the blocks that follow in the buffer; *)
(* it does not wrap around.                                                *)
AdvanceLastQ(q, i) ==
    LET pos == IndexToPosition(i)
        gapless == {k \in (lastQ + 1) .. (lastQ + BlockCacheSize - pos) :
                      \A j \in (lastQ + 1) .. k : q[pos + j - lastQ - 1] = j}
    IN  Max(gapless \cup {lastQ})

(* Mutant: blocks beyond the buffer are stored too.                        *)
StoreBlock_NoLimit(p) ==
    /\ ~panicked /\ put[p].pc = "store"
    /\ LET i == put[p].i
           pos == IndexToPosition(i)
       IN  IF i <= put[p].h \/ queue[pos] >= i
           THEN /\ put' = [put EXCEPT ![p] = [pc |-> "idle", h |-> 0, i |-> 0]]
                /\ UNCHANGED queueVars
           ELSE /\ put' = [put EXCEPT ![p].pc = "signal"]
                /\ queue' = [queue EXCEPT ![pos] = i]
                /\ lastQ' = AdvanceLastQ(queue', i)
    /\ UNCHANGED <<chainVars, checkBlocks, run, requestVars, wire, panicked>>

StoreBlock(p) ==
    /\ ~panicked /\ put[p].pc = "store"
    /\ LET i == put[p].i
           pos == IndexToPosition(i)
       IN  IF i <= put[p].h \/ put[p].h + BlockCacheSize < i
           THEN /\ put' = [put EXCEPT ![p] = [pc |-> "idle", h |-> 0, i |-> 0]]
                /\ UNCHANGED queueVars
           ELSE /\ put' = [put EXCEPT ![p].pc = "signal"]
                /\ IF queue[pos] < i
                   THEN /\ queue' = [queue EXCEPT ![pos] = i]
                        /\ lastQ' = AdvanceLastQ(queue', i)
                   ELSE UNCHANGED queueVars
    /\ UNCHANGED <<chainVars, checkBlocks, run, requestVars, wire, panicked>>

(* Mutant: the signal is not buffered, a busy run misses it.               *)
Signal_Unbuffered(p) ==
    /\ ~panicked /\ put[p].pc = "signal"
    /\ checkBlocks' = IF run.pc = "wait" THEN "full" ELSE checkBlocks
    /\ put' = [put EXCEPT ![p] = [pc |-> "idle", h |-> 0, i |-> 0]]
    /\ UNCHANGED <<chainVars, queueVars, run, requestVars, wire, panicked>>

Signal(p) ==
    /\ ~panicked /\ put[p].pc = "signal"
    /\ IF checkBlocks = "closed"
       THEN panicked' = TRUE /\ UNCHANGED checkBlocks
       ELSE checkBlocks' = "full" /\ UNCHANGED panicked
    /\ put' = [put EXCEPT ![p] = [pc |-> "idle", h |-> 0, i |-> 0]]
    /\ UNCHANGED <<chainVars, queueVars, run, requestVars, wire>>

-----------------------------------------------------------------------------
(* run.                                                                    *)

RunWake ==
    /\ ~panicked /\ run.pc = "wait"
    /\ \/ /\ checkBlocks = "full"
          /\ checkBlocks' = "empty"
          /\ run' = [run EXCEPT !.pc = "height"]
       \/ /\ checkBlocks = "closed"
          /\ run' = [run EXCEPT !.pc = "stopped"]
          /\ UNCHANGED checkBlocks
    /\ UNCHANGED <<chainVars, queueVars, put, requestVars, wire, panicked>>

RunHeight ==
    /\ ~panicked /\ run.pc = "height"
    /\ run' = [run EXCEPT !.pc = "take", !.h = height]
    /\ UNCHANGED <<chainVars, queueVars, checkBlocks, put, requestVars, wire, panicked>>

(* Under queueLock: the next block, and the blocks that other sources      *)
(* overtook, looked for by an index that is one less than what the slot    *)
(* can hold.                                                               *)
RunTake ==
    /\ ~panicked /\ run.pc = "take"
    /\ LET b == queue[IndexToPosition(run.h + 1)]
           purged == {s \in Slots : \E i \in run.lastHeight .. (run.h - 1) :
                        s = IndexToPosition(i + 1) /\ queue[s] # 0 /\ queue[s] = i}
       IN  /\ queue' = [s \in Slots |-> IF s \in purged THEN 0 ELSE queue[s]]
           /\ run' = IF b = 0
                     THEN [pc |-> "break", h |-> 0, b |-> 0, lastHeight |-> run.h]
                     ELSE [run EXCEPT !.pc = "add", !.b = b, !.lastHeight = run.h]
    /\ UNCHANGED <<chainVars, lastQ, checkBlocks, put, requestVars, wire, panicked>>

(* Out of the inner loop, back to the channel.                             *)
RunBreak ==
    /\ ~panicked /\ run.pc = "break"
    /\ run' = [run EXCEPT !.pc = "wait"]
    /\ UNCHANGED <<chainVars, queueVars, checkBlocks, put, requestVars, wire, panicked>>

(* AddBlock takes only the next block; a block of that height that does    *)
(* not verify is a failure.  The error is only logged.                     *)
RunAdd ==
    /\ ~panicked /\ run.pc = "add"
    /\ IF run.b # height + 1 THEN UNCHANGED chainVars
       ELSE \/ height' = run.b /\ UNCHANGED failures
            \/ /\ failures < MaxFailures
               /\ failures' = failures + 1
               /\ UNCHANGED height
    /\ run' = [run EXCEPT !.pc = "clean"]
    /\ UNCHANGED <<queueVars, checkBlocks, put, requestVars, wire, panicked>>

RunClean ==
    /\ ~panicked /\ run.pc = "clean"
    /\ LET pos == IndexToPosition(run.h + 1) IN
          queue' = IF queue[pos] = run.b THEN [queue EXCEPT ![pos] = 0] ELSE queue
    /\ run' = [run EXCEPT !.pc = "height", !.h = 0, !.b = 0]
    /\ UNCHANGED <<chainVars, lastQ, checkBlocks, put, requestVars, wire, panicked>>

(* Consensus adds the next block without touching the queue.               *)
ConsensusAdd ==
    /\ ~panicked /\ Consensus /\ height < PeerHeight
    /\ height' = height + 1
    /\ UNCHANGED <<failures, queueVars, checkBlocks, run, put, requestVars, wire, panicked>>

(* Shutdown disconnects the peers, which ends requests and deliveries but  *)
(* not the handlers at work; discard closes the channel and empties the    *)
(* queue.                                                                  *)
Discard ==
    /\ ~panicked /\ MayShutdown /\ checkBlocks # "closed"
    /\ checkBlocks' = "closed"
    /\ queue' = [s \in Slots |-> 0]
    /\ UNCHANGED <<chainVars, lastQ, run, put, requestVars, wire, panicked>>

-----------------------------------------------------------------------------

(* lastQ starts at 0 whatever the ledger holds.                            *)
Init ==
    /\ height = StartHeight /\ failures = 0
    /\ queue = [s \in Slots |-> 0] /\ lastQ = 0
    /\ checkBlocks = "empty"
    /\ run = [pc |-> "wait", h |-> 0, b |-> 0, lastHeight |-> height]
    /\ put = [p \in Peers |-> [pc |-> "idle", h |-> 0, i |-> 0]]
    /\ reading = [p \in Peers |-> Idle] /\ lastRequested = 0
    /\ wire = {}
    /\ panicked = FALSE

Run == RunWake \/ RunHeight \/ RunTake \/ RunBreak \/ RunAdd \/ RunClean

Next ==
    \/ \E p \in Peers :
         \/ Request(p)
         \/ \E r \in RequestBlocksPayload(reading[p], lastRequested), answered \in BOOLEAN :
              SendRequest(p, r, answered)
         \/ \E i \in wire : PutBlock(p, i)
         \/ StoreBlock(p) \/ Signal(p)
    \/ Announce \/ Run \/ ConsensusAdd \/ Discard

(* Goroutines run and every peer is asked again on its protocol timer.  A  *)
(* height that may be asked for again and again is asked for and answered  *)
(* some day (the random choice, the connections), and a handler takes its  *)
(* messages in turn.                                                       *)
Fairness ==
    /\ WF_vars(Run)
    /\ \A p \in Peers :
         /\ WF_vars(Request(p)) /\ WF_vars(StoreBlock(p)) /\ WF_vars(Signal(p))
         /\ \A start \in Indexes :
              SF_vars(\E r \in RequestBlocksPayload(reading[p], lastRequested) :
                         r.start = start /\ SendRequest(p, r, TRUE))
         /\ \A i \in Indexes : SF_vars(PutBlock(p, i))

Spec == Init /\ [][Next]_vars
FairSpec == Spec /\ Fairness

-----------------------------------------------------------------------------
(* Properties.                                                             *)

(* The ring buffer holds a block only in the slot of its index and never   *)
(* two rounds ahead of the ledger, so that the slot of the next block is   *)
(* never taken by a later one and run does not starve it (putBlock).       *)
NextSlotFree ==
    \A s \in Slots : queue[s] # 0 =>
        IndexToPosition(queue[s]) = s /\ queue[s] <= height + BlockCacheSize

(* No lost wake-up: when run sleeps and nobody is about to wake it, the    *)
(* block after the height run last saw is not waiting in the queue.        *)
NoLostWakeup ==
    /\ run.pc = "wait" /\ checkBlocks = "empty"
    /\ \A p \in Peers : put[p].pc # "signal"
    => queue[IndexToPosition(run.lastHeight + 1)] # run.lastHeight + 1

(* A block that counts as queued (lastQ) is neither in the ledger nor in   *)
(* the queue: requestBlocks will not ask for it again.                     *)
Gap == \E i \in (height + 1) .. lastQ : queue[IndexToPosition(i)] # i

(* Unless there is a gap or the server is shut down, every block the peers *)
(* have is fetched, whatever answers are lost (requestBlocks).             *)
FetchedUnlessGap == <>(height = PeerHeight \/ Gap \/ checkBlocks = "closed")
=============================================================================
