----------------------------- MODULE RPCEvents -----------------------------
(***************************************************************************)
(* Subscriptions of websocket clients to the events of the chain: the      *)
(* dispatcher of the chain, the goroutine handleSubEvents of the RPC       *)
(* server, and for each client the goroutines handleWsReads and            *)
(* handleWsWrites with the buffered channel between them.                  *)
(*                                                                         *)
(* Requests change the subscriptions under subsLock, and under the same    *)
(* lock wait for the dispatcher to take the change.  The dispatcher takes  *)
(* it between two blocks only, and handleSubEvents, which it sends events  *)
(* to, needs subsLock to hand each of them out.                            *)
(*                                                                         *)
(* An event is its kind; filters and the text of messages are left out.    *)
(* The other subscribers of the chain are in EventFlow.                    *)
(***************************************************************************)
EXTENDS Naturals, SequencesExt, FiniteSets

CONSTANTS
    Clients,        \* websocket clients
    Kinds,          \* the kinds of events in use
    MaxBlocks,      \* bound: blocks that are broadcast
    MaxTxs,         \* bound: transactions of a block
    MaxRequests,    \* bound: the requests of each client
    MaxFeeds,       \* maxFeeds: subscriptions of one client
    BufSize         \* notificationBufSize

TxKinds == <<"execution", "notification", "transaction">>

ASSUME Parameters ==
    /\ Kinds \subseteq {"execution", "notification", "transaction", "block"}
    /\ {MaxBlocks, MaxTxs, MaxFeeds, BufSize} \subseteq Nat
    /\ MaxRequests \in [Clients -> Nat]
    /\ BufSize > 0
ASSUME ClientsAssumption ==
    IsFiniteSet(Clients) /\ "free" \notin Clients /\ "handler" \notin Clients

VARIABLES
    chainFeed,  \* the dispatcher's feeds that hold the server's channel
    todo,       \* the events the dispatcher still has to send of a block
    blocks,     \* the number of blocks broadcast
    hpc,        \* where handleSubEvents is
    inHand,     \* the event it has received
    unsubs,     \* the channels it still has to unsubscribe when it ends
    main,       \* Shutdown: not called, waiting, or back
    subsLock,   \* who holds subsLock
    subs,       \* blockSubs, transactionSubs, notificationSubs, executionSubs
    reader,     \* where handleWsReads of each client is
    req,        \* the slot its request is about
    feeds,      \* subscriber.feeds: the kind of each slot
    writer,     \* the channel to handleWsWrites
    writes,     \* where handleWsWrites is
    overflow,   \* subscriber.overflown and the goroutine that resets it
    requests,   \* history: the number of each client's requests
    skipped,    \* history: the last event meant for a client was not queued
    last        \* history: the last message a client has been sent

dispatch == <<chainFeed, todo, blocks>>
handler == <<hpc, inHand, unsubs>>
table == <<subsLock, subs, feeds>>
ws == <<reader, req, requests>>
out == <<writer, writes, overflow, skipped, last>>
vars == <<dispatch, handler, main, table, ws, out>>

shutdown == main # "run"
Slots == 1 .. MaxFeeds
None == "none"

\* Messages to a client: the next event, an event after others it was not sent,
\* and the one that says so.
Event == "event"
Jump == "jump"
Missed == "missed"

Init ==
    /\ chainFeed = {} /\ todo = <<>> /\ blocks = 0
    /\ hpc = "select" /\ inHand = None /\ unsubs = <<>>
    /\ main = "run"
    /\ subsLock = "free" /\ subs = [k \in Kinds |-> 0]
    /\ reader = [c \in Clients |-> "off"]
    /\ req = [c \in Clients |-> 0]
    /\ feeds = [c \in Clients |-> [i \in Slots |-> None]]
    /\ writer = [c \in Clients |-> <<>>]
    /\ writes = [c \in Clients |-> "off"]
    /\ overflow = [c \in Clients |-> "no"]
    /\ requests = [c \in Clients |-> 0]
    /\ skipped = [c \in Clients |-> FALSE]
    /\ last = [c \in Clients |-> Event]

(***************************************************************************)
(* The dispatcher, external to the RPC server.                             *)
(***************************************************************************)
Selecting == todo = <<>>

\* What a transaction sends, ok if its execution succeeded: a failed one has no
\* notifications (a successful one has one here).
TxEvents(ok) ==
    SelectSeq(TxKinds, LAMBDA k : k \in chainFeed /\ (ok \/ k # "notification"))

\* What a block sends: its transactions in order, then the block.
EventsOf(txs) ==
    FlattenSeq([i \in DOMAIN txs |-> TxEvents(txs[i])])
        \o (IF "block" \in chainFeed THEN <<"block">> ELSE <<>>)

NewBlock(txs) ==
    /\ Selecting /\ blocks < MaxBlocks
    /\ blocks' = blocks + 1
    /\ todo' = EventsOf(txs)
    /\ UNCHANGED <<chainFeed, handler, main, table, ws, out>>

(***************************************************************************)
(* handleSubEvents.                                                        *)
(***************************************************************************)
Receive ==
    /\ hpc = "select" /\ todo # <<>>
    /\ inHand' = Head(todo)
    /\ todo' = Tail(todo)
    /\ hpc' = "deliver"
    /\ UNCHANGED <<chainFeed, blocks, unsubs, main, table, ws, out>>

Connected(c) == reader[c] \notin {"off", "gone"}
Matches(c) == Connected(c) /\ \E i \in Slots : feeds[c][i] = inHand
Fits(c) == Len(writer[c]) < BufSize

\* Mutant: an event that does not fit is dropped silently.
Deliver_Silent ==
    /\ hpc = "deliver" /\ subsLock = "free"
    /\ LET to == {c \in Clients : Matches(c) /\ Fits(c)}
       IN /\ writer' = [c \in Clients |->
                          IF c \in to
                          THEN Append(writer[c], IF skipped[c] THEN Jump ELSE Event)
                          ELSE writer[c]]
          /\ skipped' = [c \in Clients |->
                          IF Matches(c) /\ writes[c] = "run"
                          THEN c \notin to ELSE skipped[c]]
    /\ inHand' = None
    /\ hpc' = "select"
    /\ UNCHANGED <<dispatch, unsubs, main, table, ws, writes, overflow, last>>

\* With subsLock read-locked: once to every subscriber that has a matching feed
\* and has not overflown; a full channel makes it overflow.
Deliver ==
    /\ hpc = "deliver" /\ subsLock = "free"
    /\ LET to == {c \in Clients : Matches(c) /\ overflow[c] = "no"}
       IN /\ writer' = [c \in Clients |->
                          IF c \in to /\ Fits(c)
                          THEN Append(writer[c], IF skipped[c] THEN Jump ELSE Event)
                          ELSE writer[c]]
          /\ overflow' = [c \in Clients |->
                          IF c \in to /\ ~Fits(c) THEN "sending" ELSE overflow[c]]
          /\ skipped' = [c \in Clients |->
                          IF Matches(c) /\ writes[c] = "run"
                          THEN ~(c \in to /\ Fits(c)) ELSE skipped[c]]
    /\ inHand' = None
    /\ hpc' = "select"
    /\ UNCHANGED <<dispatch, unsubs, main, table, ws, writes, last>>

\* The shutdown channel is read instead of an event.
StopReceiving ==
    /\ hpc = "select" /\ shutdown
    /\ hpc' = "lock"
    /\ UNCHANGED <<dispatch, inHand, unsubs, main, table, ws, out>>

LockForUnsubscribe ==
    /\ hpc = "lock" /\ subsLock = "free"
    /\ subsLock' = "handler"
    /\ unsubs' = SelectSeq(<<"block", "transaction", "notification", "execution">>,
                           LAMBDA k : k \in Kinds)
    /\ hpc' = "unsubscribe"
    /\ UNCHANGED <<dispatch, inHand, main, subs, feeds, ws, out>>

\* Mutant: only a subscribed channel can be unsubscribed.
UnsubscribeNext_Subscribed ==
    /\ hpc = "unsubscribe" /\ unsubs # <<>> /\ Selecting
    /\ Head(unsubs) \in chainFeed
    /\ chainFeed' = chainFeed \ {Head(unsubs)}
    /\ unsubs' = Tail(unsubs)
    /\ UNCHANGED <<todo, blocks, hpc, inHand, main, table, ws, out>>

UnsubscribeNext ==
    /\ hpc = "unsubscribe" /\ unsubs # <<>> /\ Selecting
    /\ chainFeed' = chainFeed \ {Head(unsubs)}
    /\ unsubs' = Tail(unsubs)
    /\ UNCHANGED <<todo, blocks, hpc, inHand, main, table, ws, out>>

\* Nothing is left to drain: the channels are closed.
CloseChannels ==
    /\ hpc = "unsubscribe" /\ unsubs = <<>>
    /\ subsLock' = "free"
    /\ hpc' = "closed"
    /\ UNCHANGED <<dispatch, inHand, unsubs, main, subs, feeds, ws, out>>

(***************************************************************************)
(* Shutdown waits on executionCh.                                          *)
(***************************************************************************)
Shutdown ==
    /\ main = "run"
    /\ main' = "wait"
    /\ UNCHANGED <<dispatch, handler, table, ws, out>>

ShutdownReturns ==
    /\ main = "wait" /\ hpc = "closed"
    /\ main' = "done"
    /\ UNCHANGED <<dispatch, handler, table, ws, out>>

\* It is a receiver of the channel like any other.
ShutdownReceives ==
    /\ main = "wait" /\ todo # <<>> /\ Head(todo) = "execution"
    /\ main' = "done"
    /\ todo' = Tail(todo)
    /\ UNCHANGED <<chainFeed, blocks, handler, table, ws, out>>

(***************************************************************************)
(* handleWsReads of client c.                                              *)
(***************************************************************************)
Go(c, from, to) == reader[c] = from /\ reader' = [reader EXCEPT ![c] = to]

\* http.Server.Shutdown closes the listeners: no new clients after it.
Connect(c) ==
    /\ ~shutdown /\ subsLock = "free"
    /\ Go(c, "off", "read")
    /\ writes' = [writes EXCEPT ![c] = "run"]
    /\ UNCHANGED <<dispatch, handler, main, table, req, requests, writer, overflow,
                   skipped, last>>

\* A request to subscribe or to unsubscribe, named by the label it leads to.  One
\* about something else is answered like one that is invalid (UnsubscribeRefused).
Request(c, method) ==
    /\ requests[c] < MaxRequests[c]
    /\ requests' = [requests EXCEPT ![c] = @ + 1]
    /\ Go(c, "read", method)
    /\ UNCHANGED <<dispatch, handler, main, table, req, out>>

FreeSlots(c) == {i \in Slots : feeds[c][i] = None}
Lowest(S) == CHOOSE i \in S : \A j \in S : i <= j

SetFeed(c, i, k) == feeds' = [feeds EXCEPT ![c][i] = k]
Count(k, n) == subs' = [subs EXCEPT ![k] = n]

\* Mutant: the early return leaves subsLock locked.
SubscribeRefused_KeepsLock(c) ==
    /\ subsLock = "free" /\ (shutdown \/ FreeSlots(c) = {})
    /\ Go(c, "subscribe", "respond")
    /\ subsLock' = c
    /\ UNCHANGED <<dispatch, handler, main, subs, feeds, req, requests, out>>

\* The server stops, or the client has all the feeds it may have.
SubscribeRefused(c) ==
    /\ subsLock = "free" /\ (shutdown \/ FreeSlots(c) = {})
    /\ Go(c, "subscribe", "respond")
    /\ UNCHANGED <<dispatch, handler, main, table, req, requests, out>>

\* Another feed has the channel subscribed already.
SubscribeMore(c, k) ==
    /\ subsLock = "free" /\ ~shutdown /\ FreeSlots(c) # {} /\ subs[k] > 0
    /\ Go(c, "subscribe", "respond")
    /\ SetFeed(c, Lowest(FreeSlots(c)), k)
    /\ Count(k, subs[k] + 1)
    /\ UNCHANGED <<dispatch, handler, main, subsLock, req, requests, out>>

\* The first feed of its kind: subCh is written with subsLock held.
SubscribeFirst(c, k) ==
    /\ subsLock = "free" /\ ~shutdown /\ FreeSlots(c) # {} /\ subs[k] = 0
    /\ Go(c, "subscribe", "subCh")
    /\ LET i == Lowest(FreeSlots(c))
       IN SetFeed(c, i, k) /\ req' = [req EXCEPT ![c] = i]
    /\ subsLock' = c
    /\ UNCHANGED <<dispatch, handler, main, subs, requests, out>>

SubscribeChannel(c) ==
    /\ Selecting
    /\ Go(c, "subCh", "respond")
    /\ LET k == feeds[c][req[c]]
       IN chainFeed' = chainFeed \union {k} /\ Count(k, subs[k] + 1)
    /\ req' = [req EXCEPT ![c] = 0]
    /\ subsLock' = "free"
    /\ UNCHANGED <<todo, blocks, handler, main, feeds, requests, out>>

\* The feed of slot i is removed; the last of its kind takes the channel out of
\* the dispatcher's feeds, with subsLock held.
UnsubscribeMore(c, i) ==
    /\ subsLock = "free"
    /\ feeds[c][i] # None /\ subs[feeds[c][i]] > 1
    /\ Go(c, "unsubscribe", "respond")
    /\ SetFeed(c, i, None)
    /\ Count(feeds[c][i], subs[feeds[c][i]] - 1)
    /\ UNCHANGED <<dispatch, handler, main, subsLock, req, requests, out>>

UnsubscribeLast(c, i) ==
    /\ subsLock = "free"
    /\ feeds[c][i] # None /\ subs[feeds[c][i]] = 1
    /\ Go(c, "unsubscribe", "unsubCh")
    /\ req' = [req EXCEPT ![c] = i]
    /\ subsLock' = c
    /\ UNCHANGED <<dispatch, handler, main, subs, feeds, requests, out>>

UnsubscribeRefused(c) ==
    /\ subsLock = "free"
    /\ Go(c, "unsubscribe", "respond")
    /\ UNCHANGED <<dispatch, handler, main, table, req, requests, out>>

\* The last feed of its kind goes, once the dispatcher takes it.
DropChannel(c, i) ==
    /\ Selecting
    /\ chainFeed' = chainFeed \ {feeds[c][i]}
    /\ Count(feeds[c][i], 0)
    /\ SetFeed(c, i, None)

UnsubscribeChannel(c) ==
    /\ Go(c, "unsubCh", "respond")
    /\ DropChannel(c, req[c])
    /\ req' = [req EXCEPT ![c] = 0]
    /\ subsLock' = "free"
    /\ UNCHANGED <<todo, blocks, handler, main, requests, out>>

\* handleWsWrites closes the connection and drains the channel of events.
WriterEnds(c) ==
    /\ writes' = [writes EXCEPT ![c] = "done"]
    /\ writer' = [writer EXCEPT ![c] = <<>>]
    /\ last' = [last EXCEPT ![c] = Event]
    /\ skipped' = [skipped EXCEPT ![c] = FALSE]

\* The answer goes through the unbuffered resChan.
Responded(c) ==
    /\ writes[c] = "run"
    /\ Go(c, "respond", "read")
    /\ UNCHANGED <<dispatch, handler, main, table, req, requests, out>>

RespondStopped(c) ==
    /\ shutdown
    /\ Go(c, "respond", "leave")
    /\ UNCHANGED <<dispatch, handler, main, table, req, requests, out>>

\* The connection ends: the client leaves, or handleWsWrites has closed it.
ReadFails(c) ==
    /\ Go(c, "read", "leave")
    /\ UNCHANGED <<dispatch, handler, main, table, req, requests, out>>

LeaveLock(c) ==
    /\ subsLock = "free"
    /\ Go(c, "leave", "leaving")
    /\ subsLock' = c
    /\ UNCHANGED <<dispatch, handler, main, subs, feeds, req, requests, out>>

\* Mutant: the counter is left alone when another client has the same feed.
LeaveFeed_NoCount(c) ==
    /\ reader[c] = "leaving" /\ FreeSlots(c) # Slots
    /\ LET i == Lowest(Slots \ FreeSlots(c))
       IN \/ subs[feeds[c][i]] = 1 /\ DropChannel(c, i)
          \/ /\ subs[feeds[c][i]] > 1 /\ SetFeed(c, i, None)
             /\ UNCHANGED <<subs, chainFeed>>
    /\ UNCHANGED <<todo, blocks, handler, main, subsLock, ws, out>>

\* With subsLock held: slot after slot, then the lock is released.
LeaveFeed(c) ==
    /\ reader[c] = "leaving" /\ FreeSlots(c) # Slots
    /\ LET i == Lowest(Slots \ FreeSlots(c))
           n == subs[feeds[c][i]]
       IN \/ n = 1 /\ DropChannel(c, i)
          \/ /\ n > 1 /\ Count(feeds[c][i], n - 1) /\ SetFeed(c, i, None)
             /\ UNCHANGED chainFeed
    /\ UNCHANGED <<todo, blocks, handler, main, subsLock, ws, out>>

\* resChan is closed as well, which ends handleWsWrites.
LeaveUnlock(c) ==
    /\ FreeSlots(c) = Slots
    /\ Go(c, "leaving", "gone")
    /\ subsLock' = "free"
    /\ WriterEnds(c)
    /\ UNCHANGED <<dispatch, handler, main, subs, feeds, req, requests, overflow>>

(***************************************************************************)
(* handleWsWrites of client c, and the goroutine that tells the client it  *)
(* has missed events.                                                      *)
(***************************************************************************)
Write(c) ==
    /\ writes[c] = "run" /\ writer[c] # <<>>
    /\ last' = [last EXCEPT ![c] = IF Head(writer[c]) = Missed THEN Missed ELSE Event]
    /\ writer' = [writer EXCEPT ![c] = Tail(@)]
    /\ UNCHANGED <<dispatch, handler, main, table, ws, writes, overflow, skipped>>

\* The server stops or a write fails.
WriterExits(c) ==
    /\ writes[c] = "run"
    /\ WriterEnds(c)
    /\ UNCHANGED <<dispatch, handler, main, table, ws, overflow>>

OverflowMessage(c) ==
    /\ overflow[c] = "sending" /\ Fits(c)
    /\ writer' = [writer EXCEPT ![c] = Append(@, Missed)]
    /\ overflow' = [overflow EXCEPT ![c] = "sent"]
    /\ UNCHANGED <<dispatch, handler, main, table, ws, writes, skipped, last>>

OverflowReset(c) ==
    /\ overflow[c] = "sent"
    /\ overflow' = [overflow EXCEPT ![c] = "no"]
    /\ UNCHANGED <<dispatch, handler, main, table, ws, writer, writes, skipped, last>>

Subscribe(c) ==
    \/ SubscribeRefused(c) \/ SubscribeChannel(c)
    \/ \E k \in Kinds : SubscribeMore(c, k) \/ SubscribeFirst(c, k)
Unsubscribe(c) ==
    \/ UnsubscribeRefused(c) \/ UnsubscribeChannel(c)
    \/ \E i \in Slots : UnsubscribeMore(c, i) \/ UnsubscribeLast(c, i)
Leave(c) == LeaveLock(c) \/ LeaveFeed(c) \/ LeaveUnlock(c)
Overflow(c) == OverflowMessage(c) \/ OverflowReset(c)

Server ==
    \/ Receive \/ Deliver \/ StopReceiving \/ LockForUnsubscribe \/ UnsubscribeNext
    \/ CloseChannels \/ ShutdownReturns \/ ShutdownReceives
    \/ \E c \in Clients :
          \/ Subscribe(c) \/ Unsubscribe(c) \/ Responded(c) \/ RespondStopped(c)
          \/ Leave(c) \/ Write(c) \/ Overflow(c)

Environment ==
    \/ \E n \in 0 .. MaxTxs : \E txs \in [1 .. n -> BOOLEAN] : NewBlock(txs)
    \/ Shutdown
    \/ \E c \in Clients :
          \/ Connect(c)
          \/ Request(c, "subscribe") \/ Request(c, "unsubscribe")
          \/ ReadFails(c) \/ WriterExits(c)

Next == Server \/ Environment

\* Goroutines that can go on do; with the bounds there are finitely many steps.
Spec == Init /\ [][Next]_vars /\ WF_vars(Server)

-----------------------------------------------------------------------------
(***************************************************************************)
(* Properties.                                                             *)
(***************************************************************************)

\* The slots of all clients that hold a kind.
Holders(k) == {h \in Clients \X Slots : feeds[h[1]][h[2]] = k}

\* The counters count the feeds of all clients, and the server's channel is in
\* the dispatcher's feeds just when somebody has a feed for it, whatever the order
\* in which clients come, ask and go (subscribeToChannel, unsubscribeFromChannel).
FeedsCounted ==
    subsLock = "free" =>
        \A k \in Kinds :
            /\ subs[k] = Cardinality(Holders(k))
            /\ hpc # "closed" => (k \in chainFeed <=> subs[k] > 0)

\* Whenever some of the events a client has feeds for were not queued for it, it
\* gets the message that it has missed some before it gets the next event
\* (handleSubEvents).
MissedMarked ==
    \A c \in {d \in Clients : writes[d] = "run"} :
        LET stream == <<last[c]>> \o writer[c]
        IN \A i \in 2 .. Len(stream) : stream[i] = Jump => stream[i - 1] = Missed

\* Client c holds subsLock until the dispatcher takes a change of its feeds.
WaitsForDispatcher(c) ==
    \/ reader[c] \in {"subCh", "unsubCh"}
    \/ /\ reader[c] = "leaving" /\ FreeSlots(c) # Slots
       /\ subs[feeds[c][Lowest(Slots \ FreeSlots(c))]] = 1

\* A request waits for the dispatcher, which waits for handleSubEvents, which
\* waits for the request to release subsLock.
RequestWedge ==
    todo # <<>> /\ hpc = "deliver" /\ \E c \in Clients : WaitsForDispatcher(c)

\* handleSubEvents has stopped receiving while the dispatcher sends it an event,
\* and waits for the dispatcher to take its unsubscription.
StopWedge ==
    /\ todo # <<>> /\ hpc \in {"lock", "unsubscribe"}
    /\ ~(main = "wait" /\ Head(todo) = "execution")

Wedge == RequestWedge \/ StopWedge

\* The dispatcher gets through with every block, and with it AddBlock, unless it
\* is caught in one of these circles (notificationDispatcher, handleSubEvents).
BlocksGetThrough == todo # <<>> ~> todo = <<>> \/ Wedge

\* Shutdown of the server comes back, unless the goroutine it waits for is caught
\* in one of them (Shutdown).
StopsUnlessWedged == main = "wait" ~> main = "done" \/ Wedge
=============================================================================
