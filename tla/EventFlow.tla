----------------------------- MODULE EventFlow -----------------------------
(***************************************************************************)
(* The events of new blocks inside one node: who adds blocks, how the      *)
(* dispatcher of the chain broadcasts them, who waits for whom, and how    *)
(* the node stops.                                                         *)
(*                                                                         *)
(* AddBlock is called by the block queue and by the consensus loop.  It    *)
(* holds addLock until notificationDispatcher has taken the event of the   *)
(* block, and the dispatcher sends each event to every subscriber before   *)
(* it takes the next.  Subscribers are the consensus loop (which adds      *)
(* blocks itself), the loop that announces blocks to peers and the state   *)
(* service.  All channels of the chain are unbuffered; a send and its      *)
(* receive are one step.                                                   *)
(*                                                                         *)
(* What the block queue holds is modelled in BlockSync, what consensus     *)
(* decides in DBFT, what AddBlock stores in Ledger: here a caller may come *)
(* with the block it believes to be the next one, and AddBlock may refuse  *)
(* it.  The subscriptions of RPC clients are in RPCEvents.                 *)
(***************************************************************************)
EXTENDS Naturals, Sequences, FiniteSets

CONSTANTS
    MaxBlock,       \* bound: the highest block that is offered
    ConsensusCap,   \* capacity of the consensus service's blockEvents
    RelayCap,       \* capacity of the channel of relayBlocksLoop
    IsConsensus     \* whether the node runs the consensus service

ASSUME Parameters ==
    /\ MaxBlock \in Nat
    /\ ConsensusCap \in Nat \ {0}
    /\ RelayCap \in Nat \ {0}
    /\ IsConsensus \in BOOLEAN

Adders == {"queue", "consensus"}
Subscribers == {"consensus", "relay", "stateroot"}
Cap == [consensus |-> ConsensusCap, relay |-> RelayCap, stateroot |-> 0]

VARIABLES
    height,     \* bc.blockHeight
    addLock,    \* who holds bc.addLock
    feed,       \* blockFeed of the dispatcher
    event,      \* the block being broadcast, 0 when the dispatcher selects
    left,       \* the subscribers that still have to be sent the event
    stopCh,     \* bc.stopCh is closed
    buf,        \* the subscribers' channels
    pc,         \* where each goroutine is
    want,       \* the block each caller of AddBlock comes with
    dbftIndex,  \* dbft.BlockIndex, 0 before the service is started
    got,        \* history: the last block each subscriber has received
    told        \* history: consensus has received an event

chain == <<height, addLock>>
disp == <<feed, event, left, stopCh>>
history == <<got, told>>
vars == <<chain, disp, buf, pc, want, dbftIndex, history>>

Init ==
    /\ height = 0 /\ addLock = "free"
    /\ feed = {} /\ event = 0 /\ left = {} /\ stopCh = FALSE
    /\ buf = [s \in Subscribers |-> <<>>]
    /\ pc = [queue |-> "wait", consensus |-> "off", relay |-> "start",
             stateroot |-> "off", starter |-> "off", main |-> "run",
             dispatcher |-> "run"]
    /\ want = [p \in Adders |-> 0]
    /\ dbftIndex = 0
    /\ got = [s \in Subscribers |-> 0]
    /\ told = FALSE

At(p, l) == pc[p] = l
Go(p, l) == pc' = [pc EXCEPT ![p] = l]

\* Flags and closed channels that follow from how far a goroutine has come.
syncReached == ~At("starter", "off")
started == IsConsensus /\ pc["starter"] \in {"subscribe", "done"}
discarded == ~At("main", "run")
srDone == pc["main"] \notin {"run", "stateroot"}
consQuit == At("main", "finished")
quit == pc["main"] \in {"close", "exit"}

(***************************************************************************)
(* The dispatcher.                                                         *)
(***************************************************************************)
Selecting == At("dispatcher", "run") /\ event = 0

\* A goroutine at label l subscribes s and goes on to label next.
Subscribe(p, l, s, next) ==
    /\ At(p, l) /\ Selecting
    /\ feed' = feed \union {s}
    /\ got' = [got EXCEPT ![s] = height - Cardinality({a \in Adders : At(a, "send")})]
    /\ told' = (told /\ s # "consensus")
    /\ pc' = next
    /\ UNCHANGED <<event, left, stopCh>>

Unsubscribe(p, l, s) ==
    /\ At(p, l) /\ Selecting
    /\ feed' = feed \ {s}
    /\ got' = [got EXCEPT ![s] = 0]
    /\ UNCHANGED <<event, left, stopCh, told>>

\* The label at which a caller of AddBlock goes on.
Return(p, ok) ==
    IF p = "consensus" THEN "init" ELSE IF ok THEN "relay" ELSE "wait"

\* The event of a block is taken: AddBlock returns and unlocks.
TakeEvent(p) ==
    /\ At(p, "send") /\ Selecting
    /\ event' = IF feed = {} THEN 0 ELSE want[p]
    /\ left' = feed
    /\ addLock' = "free"
    /\ Go(p, Return(p, TRUE))
    /\ want' = [want EXCEPT ![p] = 0]
    /\ UNCHANGED <<height, feed, stopCh, buf, dbftIndex, history>>

Sent(s) ==
    /\ s \in left
    /\ left' = left \ {s}
    /\ event' = IF left = {s} THEN 0 ELSE event
    /\ UNCHANGED <<feed, stopCh>>

SendBuffered(s) ==
    /\ Len(buf[s]) < Cap[s]
    /\ Sent(s)
    /\ buf' = [buf EXCEPT ![s] = Append(@, event)]
    /\ UNCHANGED <<chain, pc, want, dbftIndex, history>>

\* The state service reads its unbuffered channel, in its loop or emptying it.
SendStateroot ==
    /\ pc["stateroot"] \in {"run", "drain"}
    /\ Sent("stateroot")
    /\ got' = [got EXCEPT !["stateroot"] = event]
    /\ UNCHANGED <<chain, buf, pc, want, dbftIndex, told>>

DispatcherReturn ==
    /\ Selecting /\ stopCh
    /\ Go("dispatcher", "done")
    /\ UNCHANGED <<chain, disp, buf, want, dbftIndex, history>>

(***************************************************************************)
(* AddBlock, up to the send of the event.                                  *)
(***************************************************************************)
\* Mutant: the event is sent after addLock is released.
AddBlock_Unlocked(p) ==
    /\ At(p, "lock") /\ addLock = "free"
    /\ want[p] = height + 1
    /\ height' = want[p]
    /\ Go(p, "send")
    /\ UNCHANGED <<addLock, disp, buf, want, dbftIndex, history>>

AddBlock(p) ==
    /\ At(p, "lock") /\ addLock = "free"
    /\ want[p] = height + 1
    /\ addLock' = p
    /\ height' = want[p]
    /\ Go(p, "send")
    /\ UNCHANGED <<disp, buf, want, dbftIndex, history>>

\* Mutant: a refused block leaves addLock locked.
AddBlockFails_KeepsLock(p) ==
    /\ At(p, "lock") /\ addLock = "free"
    /\ addLock' = p
    /\ Go(p, Return(p, FALSE))
    /\ want' = [want EXCEPT ![p] = 0]
    /\ UNCHANGED <<height, disp, buf, dbftIndex, history>>

\* The block is not the next one, or does not verify.
AddBlockFails(p) ==
    /\ At(p, "lock") /\ addLock = "free"
    /\ Go(p, Return(p, FALSE))
    /\ want' = [want EXCEPT ![p] = 0]
    /\ UNCHANGED <<chain, disp, buf, dbftIndex, history>>

(***************************************************************************)
(* The goroutine of the block queue.                                       *)
(***************************************************************************)
QueueNext ==
    /\ At("queue", "wait") /\ ~discarded
    /\ height < MaxBlock
    /\ want' = [want EXCEPT !["queue"] = height + 1]
    /\ Go("queue", "lock")
    /\ UNCHANGED <<chain, disp, buf, dbftIndex, history>>

QueueExit ==
    /\ At("queue", "wait") /\ discarded
    /\ Go("queue", "done")
    /\ UNCHANGED <<chain, disp, buf, want, dbftIndex, history>>

\* relayF calls tryStartServices: the node is not in sync, or was before.
QueueRelayed ==
    /\ At("queue", "relay")
    /\ Go("queue", "wait")
    /\ UNCHANGED <<chain, disp, buf, want, dbftIndex, history>>

(***************************************************************************)
(* Services are started once, by the goroutine that finds the node in      *)
(* sync: the queue's after a block, or the one of a peer.                  *)
(***************************************************************************)
TryStartServices(p, l, next) ==
    /\ At(p, l) /\ ~syncReached
    /\ pc' = [pc EXCEPT ![p] = next, !["starter"] = "stateroot"]
    /\ UNCHANGED <<chain, disp, buf, want, dbftIndex, history>>

StartByQueue == TryStartServices("queue", "relay", "starting")
StartByPeer == TryStartServices("starter", "off", "off")

StartStateroot ==
    /\ Subscribe("starter", "stateroot", "stateroot",
                 [pc EXCEPT !["starter"] = IF IsConsensus THEN "dbft" ELSE "done",
                            !["stateroot"] = "run"])
    /\ UNCHANGED <<chain, buf, want, dbftIndex>>

\* service.Start: dbft.Start comes before the subscription.
StartDbft ==
    /\ At("starter", "dbft")
    /\ dbftIndex' = height + 1
    /\ Go("starter", "subscribe")
    /\ UNCHANGED <<chain, disp, buf, want, history>>

StartConsensus ==
    /\ Subscribe("starter", "subscribe", "consensus",
                 [pc EXCEPT !["starter"] = "done", !["consensus"] = "select"])
    /\ UNCHANGED <<chain, buf, want, dbftIndex>>

QueueStarted ==
    /\ At("queue", "starting") /\ At("starter", "done")
    /\ Go("queue", "wait")
    /\ UNCHANGED <<chain, disp, buf, want, dbftIndex, history>>

(***************************************************************************)
(* The consensus loop.                                                     *)
(***************************************************************************)
\* A message, a transaction or a timeout that completes no block.
OnMessage ==
    /\ At("consensus", "select")
    /\ Go("consensus", "drain")
    /\ UNCHANGED <<chain, disp, buf, want, dbftIndex, history>>

\* A message that completes the block of dbft's height: processBlock.
OnLastCommit ==
    /\ At("consensus", "select")
    /\ dbftIndex <= MaxBlock
    /\ want' = [want EXCEPT !["consensus"] = dbftIndex]
    /\ Go("consensus", "lock")
    /\ UNCHANGED <<chain, disp, buf, dbftIndex, history>>

\* InitializeConsensus(0) after processBlock reads the height again.
InitializeConsensus ==
    /\ At("consensus", "init")
    /\ dbftIndex' = height + 1
    /\ Go("consensus", "drain")
    /\ UNCHANGED <<chain, disp, buf, want, history>>

\* Mutant: the block dbft works on does not count as new.
HandleChainBlock_Later(l, next) ==
    /\ At("consensus", l) /\ buf["consensus"] # <<>>
    /\ LET b == Head(buf["consensus"])
       IN /\ dbftIndex' = IF b > dbftIndex THEN height + 1 ELSE dbftIndex
          /\ got' = [got EXCEPT !["consensus"] = b]
    /\ told' = TRUE
    /\ buf' = [buf EXCEPT !["consensus"] = Tail(@)]
    /\ Go("consensus", next)
    /\ UNCHANGED <<chain, disp, want>>

HandleChainBlock(l, next) ==
    /\ At("consensus", l) /\ buf["consensus"] # <<>>
    /\ LET b == Head(buf["consensus"])
       IN /\ dbftIndex' = IF b >= dbftIndex THEN height + 1 ELSE dbftIndex
          /\ got' = [got EXCEPT !["consensus"] = b]
    /\ told' = TRUE
    /\ buf' = [buf EXCEPT !["consensus"] = Tail(@)]
    /\ Go("consensus", next)
    /\ UNCHANGED <<chain, disp, want>>

OnBlockEvent == HandleChainBlock("select", "drain")

\* The second select of the loop, with its default.
DrainEvent == HandleChainBlock("drain", "select")
DrainNone ==
    /\ At("consensus", "drain") /\ buf["consensus"] = <<>>
    /\ Go("consensus", "select")
    /\ UNCHANGED <<chain, disp, buf, want, dbftIndex, history>>

Drain == DrainEvent \/ DrainNone

OnQuit ==
    /\ At("consensus", "select") /\ consQuit
    /\ Go("consensus", "done")
    /\ UNCHANGED <<chain, disp, buf, want, dbftIndex, history>>

(***************************************************************************)
(* The other subscribers.                                                  *)
(***************************************************************************)
RelaySubscribe ==
    /\ Subscribe("relay", "start", "relay", [pc EXCEPT !["relay"] = "run"])
    /\ UNCHANGED <<chain, buf, want, dbftIndex>>

RelayBlock ==
    /\ At("relay", "run") /\ buf["relay"] # <<>>
    /\ got' = [got EXCEPT !["relay"] = Head(buf["relay"])]
    /\ buf' = [buf EXCEPT !["relay"] = Tail(@)]
    /\ UNCHANGED <<chain, disp, pc, want, dbftIndex, told>>

RelayQuit ==
    /\ At("relay", "run") /\ quit
    /\ Go("relay", "unsubscribe")
    /\ UNCHANGED <<chain, disp, buf, want, dbftIndex, history>>

RelayUnsubscribe ==
    /\ Unsubscribe("relay", "unsubscribe", "relay")
    /\ Go("relay", "done")
    /\ UNCHANGED <<chain, buf, want, dbftIndex>>

StaterootDone ==
    /\ At("stateroot", "run") /\ srDone
    /\ Go("stateroot", "drain")
    /\ UNCHANGED <<chain, disp, buf, want, dbftIndex, history>>

\* The default of drainloop: no sender is waiting, or not yet.
StaterootDrained ==
    /\ At("stateroot", "drain")
    /\ Go("stateroot", "done")
    /\ UNCHANGED <<chain, disp, buf, want, dbftIndex, history>>

(***************************************************************************)
(* The shutdown of the node, in the order of the main goroutine.  The      *)
(* process ends when Close returns.                                        *)
(***************************************************************************)
Shutdown ==
    /\ At("main", "run")
    /\ Go("main", "stateroot")
    /\ UNCHANGED <<chain, disp, buf, want, dbftIndex, history>>

ShutdownStateroot ==
    /\ Unsubscribe("main", "stateroot", "stateroot")
    /\ Go("main", "consensus")
    /\ UNCHANGED <<chain, buf, want, dbftIndex>>

\* Mutant: waits for a loop that was never started.
ShutdownConsensus_Always ==
    /\ At("main", "consensus")
    /\ Go("main", "finished")
    /\ UNCHANGED <<chain, disp, buf, want, dbftIndex, history>>

\* Waits for the loop to finish if it was started, then closes server.quit.
ShutdownConsensus ==
    /\ At("main", "consensus")
    /\ Go("main", IF started THEN "finished" ELSE "close")
    /\ UNCHANGED <<chain, disp, buf, want, dbftIndex, history>>

ConsensusFinished ==
    /\ At("main", "finished") /\ At("consensus", "done")
    /\ Go("main", "close")
    /\ UNCHANGED <<chain, disp, buf, want, dbftIndex, history>>

Close ==
    /\ At("main", "close") /\ addLock = "free"
    /\ addLock' = "close"
    /\ stopCh' = TRUE
    /\ Go("main", "exit")
    /\ UNCHANGED <<height, feed, event, left, buf, want, dbftIndex, history>>

\* Run has persisted and closed runToExitCh.
RunExits ==
    /\ At("main", "exit")
    /\ Go("main", "closed")
    /\ UNCHANGED <<chain, disp, buf, want, dbftIndex, history>>

Adding(p) == AddBlock(p) \/ AddBlockFails(p) \/ TakeEvent(p)

Queue == Adding("queue") \/ QueueExit \/ QueueRelayed \/ StartByQueue \/ QueueStarted

Consensus ==
    \/ Adding("consensus") \/ InitializeConsensus \/ Drain
    \/ OnMessage \/ OnLastCommit \/ OnBlockEvent

Others ==
    \/ \E s \in Subscribers : SendBuffered(s)
    \/ SendStateroot \/ DispatcherReturn
    \/ StartStateroot \/ StartDbft \/ StartConsensus
    \/ RelaySubscribe \/ RelayBlock \/ RelayQuit \/ RelayUnsubscribe
    \/ StaterootDone \/ StaterootDrained
    \/ ShutdownStateroot \/ ShutdownConsensus \/ ConsensusFinished
    \/ Close \/ RunExits

Running(A) == ~At("main", "closed") /\ A

Next == Running(\/ Queue \/ Consensus \/ Others \/ OnQuit
                \/ QueueNext \/ StartByPeer \/ Shutdown)

(***************************************************************************)
(* Go runs every goroutine that can go on, and a select picks at random    *)
(* among the cases that are ready, so that a closed quit is picked in the  *)
(* end.  The goroutines of Others take finitely many steps here, so one    *)
(* conjunct does for all of them.  Nothing is assumed of the environment   *)
(* (new blocks, peers, the signal to stop).                                *)
(***************************************************************************)
Fairness ==
    /\ WF_vars(Running(Queue))
    /\ WF_vars(Running(Consensus)) /\ SF_vars(Running(OnQuit))
    /\ WF_vars(Running(Others))

Spec == Init /\ [][Next]_vars /\ Fairness

-----------------------------------------------------------------------------
(***************************************************************************)
(* Properties.                                                             *)
(***************************************************************************)

\* The blocks on their way to a subscriber, oldest first.
Coming(s) ==
    buf[s] \o (IF s \in left THEN <<event>> ELSE <<>>)
           \o (IF \E p \in Adders : At(p, "send") THEN <<height>> ELSE <<>>)

\* A subscriber receives the blocks added since its subscription one by one and
\* without a gap, although they are added by two goroutines and pass through the
\* dispatcher and a channel (notificationDispatcher, storeBlock).
NothingLost ==
    \A s \in feed :
        /\ got[s] + Len(Coming(s)) = height
        /\ \A i \in DOMAIN Coming(s) : Coming(s)[i] = got[s] + i

\* Consensus does not work on a block that it has been told the chain has: dbft
\* moves on with the first event it gets, whoever added the blocks meanwhile
\* (handleChainBlock, InitializeConsensus).
NotBehind ==
    /\ dbftIndex <= height + 1
    /\ told /\ ~At("consensus", "init")
           => dbftIndex > got["consensus"]

Busy(p) == pc[p] \in {"lock", "send"}

\* The consensus loop is in AddBlock, which waits for a dispatcher (directly or
\* for the holder of addLock) that waits for room in the channel of the loop.
ConsensusWedge ==
    /\ Busy("consensus") /\ \E p \in Adders : At(p, "send")
    /\ "consensus" \in left /\ Len(buf["consensus"]) = ConsensusCap

\* The state service was subscribed after Shutdown had unsubscribed it.
LateStartWedge == "stateroot" \in left /\ At("stateroot", "done")

\* relayBlocksLoop unsubscribes, and reads no more, with its channel full.
RelayWedge ==
    At("relay", "unsubscribe") /\ "relay" \in left /\ Len(buf["relay"]) = RelayCap

Wedge == ConsensusWedge \/ LateStartWedge \/ RelayWedge

\* A block that is being added is added or refused in the end, unless the
\* goroutines wait for each other in a circle (AddBlock, eventLoop,
\* notificationDispatcher).
AddReturns == \A p \in Adders : Busy(p) ~> ~Busy(p) \/ Wedge \/ At("main", "closed")

\* A node that is told to stop stops (startServer, Shutdown, Close).
Stops == ~At("main", "run") ~> At("main", "closed") \/ Wedge
=============================================================================
