------------------------------- MODULE Peers -------------------------------
(***************************************************************************)
(* The connections of a node (pkg/network): the loop Server.run, which     *)
(* alone adds and removes peers; the goroutines of a connection, which     *)
(* read messages, shake hands and disconnect; and DefaultDiscovery, which  *)
(* knows addresses and dials them.  The remote nodes are the environment:  *)
(* they refuse calls, call themselves, stop talking, and close.            *)
(*                                                                         *)
(* A connection is a slot.  Its handshake is told by the number of         *)
(* messages (version, verack) that were handled; any other order is an     *)
(* error of the handler.  Up to two messages are read ahead of the         *)
(* handler, so it may go on for a while after the connection is closed.    *)
(***************************************************************************)
EXTENDS Naturals, FiniteSets, Sequences, SequencesExt

CONSTANTS
    Nodes,                 \* addresses that nodes listen on
    Seeds,                 \* ServerConfig.Seeds
    Self,                  \* the node's own address, which others may tell it
    Callers,               \* the nodes that dial this one
    Ephemeral,             \* the address a caller is seen with before its version
    Slots, MaxAsks,        \* bounds: connections, and goroutines of failed dials, at a time
    Scopes,                \* bounds: the connections at a time with the addresses that peers tell
    MinPeers, MaxPeers, AttemptConnPeers,
    ConnRetries,           \* connRetries
    PoolSize               \* maxPoolSize

ASSUME PeersAssumption ==
    /\ Seeds \subseteq Nodes /\ Seeds # {} /\ Ephemeral \notin Nodes /\ IsFiniteSet(Seeds)
    /\ {MaxPeers, AttemptConnPeers, ConnRetries, PoolSize} \subseteq Nat \ {0}
    /\ MinPeers \in Nat

VARIABLES
    conn,                  \* the connection of every slot, or Free
    connected, bad,        \* connectedAddrs, badAddrs
    unconnected,           \* unconnectedAddrs, 0 for none
    pool,                  \* the channel of addresses to dial
    attempted,             \* addresses that a goroutine dials
    failed,                \* dials of every address that failed, before RegisterBadAddr
    asks,                  \* and after it, in RequestRemote(1)
    discovery,             \* DefaultDiscovery.run: pc, requested, oldRequest
    run,                   \* Server.run: in "request" to discovery, in "select", or in "register"
    scope                  \* the bounds of this behaviour, one of Scopes

book == <<connected, bad, unconnected, pool>>
dialling == <<attempted, failed, asks>>
vars == <<conn, book, dialling, discovery, run, scope>>

Free == [reg |-> "free"]

\* A connection.  reg: "new" until Server.run receives it, "taken" until it is one of
\* the peers, "in" while it is, "gone" afterwards.  drop: the reason of the first Disconnect, "no" before.
\* handler: where handleIncoming is: "idle", in handleVersionCmd "checked" (the
\* version was accepted) and "registered" (the address is), or "ended".
NewTCPPeer(a, out) ==
    [addr |-> a, out |-> out, reg |-> "new", drop |-> "no", handler |-> "idle", version |-> FALSE,
     handled |-> 0]

Live == {c \in Slots : conn[c] # Free}
Peers == {c \in Live : conn[c].reg = "in"}
Received == {c \in Live : conn[c].reg \in {"taken", "in"}}
Handshaked(c) == conn[c].handled = 2

\* With a version the address is the host with the port of the version; before it
\* is what the connection has.  A node tells the port that it can be dialled at.
PeerAddr(p) == IF p.out \/ p.version THEN p.addr ELSE Ephemeral

\* The first Disconnect closes the connection and gives the reason to Server.run.
Disconnect(p, reason) == IF p.drop = "no" THEN [p EXCEPT !.drop = reason] ELSE p

\* Of a connection that is no peer only the handler is left, and then nothing.
Settle(p) ==
    IF p.reg # "gone" THEN p
    ELSE IF p.handler = "ended" THEN Free
    ELSE [p EXCEPT !.drop = "other", !.out = TRUE]

---------------------------------------------------------------------------
(* The book of addresses *)

Book == [connected |-> connected, bad |-> bad, unconnected |-> unconnected, pool |-> pool]

SetBook(b) ==
    connected' = b.connected /\ bad' = b.bad /\ unconnected' = b.unconnected /\ pool' = b.pool

PushToPoolOrDrop(b, a) == IF Len(b.pool) < PoolSize THEN [b EXCEPT !.pool = Append(@, a)] ELSE b

\* The address of a caller that did not tell its version is no node's: it would be
\* dialled in vain.  The model leaves these dials out.
BackFill(b, a) ==
    IF a = Ephemeral \/ a \in b.bad \cup b.connected \/ b.unconnected[a] > 0 THEN b
    ELSE PushToPoolOrDrop([b EXCEPT !.unconnected[a] = ConnRetries], a)

\* Mutant: an address is tried once.
RegisterBadAddr_Once(b, a) ==
    IF b.unconnected[a] > 1 THEN [b EXCEPT !.unconnected[a] = @ - 1]
    ELSE [b EXCEPT !.bad = @ \cup {a}, !.unconnected[a] = 0]

RegisterBadAddr(b, a) ==
    IF b.unconnected[a] > 1 THEN PushToPoolOrDrop([b EXCEPT !.unconnected[a] = @ - 1], a)
    ELSE [b EXCEPT !.bad = @ \cup {a}, !.unconnected[a] = 0]

RegisterGoodAddr(b, a) == [b EXCEPT !.bad = @ \ {a}]
RegisterConnectedAddr(b, a) == [b EXCEPT !.unconnected[a] = 0, !.connected = @ \cup {a}]
UnregisterConnectedAddr(b, a) == [b EXCEPT !.connected = @ \ {a}]

---------------------------------------------------------------------------
(* DefaultDiscovery.run *)

Wanted == discovery.requested

\* A request that is waiting at requestCh is taken: the one of Server.run, or one
\* of a goroutine whose dial has failed.
Take(n) ==
    discovery' = IF discovery.pc = "wait"
                 THEN [pc |-> "loop", requested |-> n, old |-> n]
                 ELSE [discovery EXCEPT !.requested = IF @ <= n THEN n ELSE @]

Receives == discovery.pc = "wait" \/ (discovery.pc = "loop" /\ Wanted > 0)

TakeRequest ==
    /\ Receives /\ run = "request"
    /\ Take(AttemptConnPeers)
    /\ run' = "select"
    /\ UNCHANGED <<conn, book, dialling, scope>>

TakeAsk ==
    /\ Receives /\ asks > 0
    /\ Take(1)
    /\ asks' = asks - 1
    /\ UNCHANGED <<conn, book, attempted, failed, run, scope>>

TakeAddress ==
    LET a == Head(pool)
        dials == a \notin connected \cup attempted
    IN  /\ discovery.pc = "loop" /\ Wanted > 0 /\ pool # << >>
        /\ pool' = Tail(pool)
        /\ attempted' = IF dials THEN attempted \cup {a} ELSE attempted
        /\ discovery' = [discovery EXCEPT !.requested = IF dials THEN @ - 1 ELSE @]
        /\ UNCHANGED <<conn, connected, bad, unconnected, failed, asks, run, scope>>

\* The orders of a set of addresses.
Orders(S) == {s \in [1 .. Cardinality(S) -> S] : Range(s) = S}

\* pushToPoolOrDrop for one address after the other.
PushAll(b, s) ==
    LET room == PoolSize - Len(b.pool)
    IN  [b EXCEPT !.pool = @ \o SubSeq(s, 1, IF Len(s) < room THEN Len(s) ELSE room)]

\* The addresses in s are unconnected ones, with all their retries.
Unconnected(b, s) ==
    [b EXCEPT !.unconnected = [a \in Nodes |-> IF a \in Range(s) THEN ConnRetries ELSE @[a]]]

\* Mutant: a seed that was found bad stays bad.
AddSeeds_NotBad(b, more) ==
    LET s == SelectSeq(more, LAMBDA a : a \notin b.bad)
    IN  PushAll(Unconnected(b, s), s)

\* The seeds that are not connected, in the order of the configuration.
AddSeeds(b, more) == PushAll(Unconnected([b EXCEPT !.bad = @ \ Range(more)], more), more)

\* The default case of the select: the pool is empty, and nobody is waiting at
\* requestCh.  Who is in RequestRemote may not have come to wait.
EmptyPool ==
    /\ discovery.pc = "loop" /\ Wanted > 0 /\ pool = << >>
    /\ \E more \in Orders(Seeds \ connected) : SetBook(AddSeeds(Book, more))
    /\ discovery' = [discovery EXCEPT !.requested = IF Seeds \subseteq connected THEN 0 ELSE @]
    /\ UNCHANGED <<conn, dialling, run, scope>>

\* After the loop; without any connection it sleeps and starts again.
Retry ==
    /\ discovery.pc = "loop" /\ Wanted = 0
    /\ discovery' = IF connected = {} THEN [discovery EXCEPT !.requested = discovery.old]
                    ELSE [discovery EXCEPT !.pc = "wait", !.old = 0]
    /\ UNCHANGED <<conn, book, dialling, run, scope>>

---------------------------------------------------------------------------
(* tryAddress and the transport *)

FreeSlot == CHOOSE c \in Slots : conn[c] = Free
Open(a, out) ==
    /\ Live # Slots /\ Cardinality(Live) < scope.conns
    /\ conn' = [conn EXCEPT ![FreeSlot] = NewTCPPeer(a, out)]

\* Dial, for a node that is there.
DialSucceeds(a) ==
    /\ a \in attempted
    /\ Open(a, TRUE)
    /\ attempted' = attempted \ {a}
    /\ UNCHANGED <<book, failed, asks, discovery, run, scope>>

\* The goroutines of failed dials.
Failing == FoldFunction(LAMBDA n, m : n + m, asks, failed)

\* tryAddress for one that is not, or not in time: it may be dialled again ...
DialFails(a) ==
    /\ a \in attempted /\ Failing < MaxAsks
    /\ attempted' = attempted \ {a}
    /\ failed' = [failed EXCEPT ![a] = @ + 1]
    /\ UNCHANGED <<conn, book, asks, discovery, run, scope>>

\* ... before its failure is registered and another one is asked for.
RegisterFailure(a) ==
    /\ failed[a] > 0
    /\ SetBook(RegisterBadAddr(Book, a))
    /\ failed' = [failed EXCEPT ![a] = @ - 1]
    /\ asks' = asks + 1
    /\ UNCHANGED <<conn, attempted, discovery, run, scope>>

Accept(a) ==
    /\ a \in Callers
    /\ Open(a, FALSE)
    /\ UNCHANGED <<book, dialling, discovery, run, scope>>

---------------------------------------------------------------------------
(* The goroutines of a connection *)

\* Disconnect by handleConn, handleQueues, StartProtocol or the timer of pings:
\* the remote node has closed, a write has failed, a pong is missing.
Fails(c) ==
    /\ c \in Received /\ conn[c].drop = "no"
    /\ conn' = [conn EXCEPT ![c] = Disconnect(@, "other")]
    /\ UNCHANGED <<book, dialling, discovery, run, scope>>

\* handleIncoming ends with an error of a handler, or after the last message.
HandlerEnd(p, reason) == Settle([Disconnect(p, reason) EXCEPT !.handler = "ended", !.handled = 0])

Waiting(c) == c \in Live /\ conn[c].handler = "idle" /\ conn[c].reg # "new"

\* handleMessage, for the messages that matter here: their order is checked, and
\* after the handshake there is no other.
HandleMessage(c, command) ==
    /\ Waiting(c)
    /\ CASE command = "version" -> conn[c].handled = 0
         [] command = "verack" -> conn[c].handled = 1
         [] OTHER -> Handshaked(c)

\* A message that is out of order or wrong is the same as Fails and this.
HandlerDone(c) ==
    /\ Waiting(c) /\ conn[c].drop # "no"
    /\ conn' = [conn EXCEPT ![c] = HandlerEnd(@, "other")]
    /\ UNCHANGED <<book, dialling, discovery, run, scope>>

\* handleVersionCmd, up to the checks of the version: of its nonce and its network ...
HandleVersion(c) ==
    LET p == [conn[c] EXCEPT !.version = TRUE]
    IN  /\ HandleMessage(c, "version")
        /\ \E known \in BOOLEAN :
              conn' = [conn EXCEPT ![c] = CASE p.addr = Self -> HandlerEnd(p, "identical")
                                            [] p.addr # Self /\ ~known -> HandlerEnd(p, "other")
                                            [] OTHER -> [p EXCEPT !.handler = "checked"]]
        /\ UNCHANGED <<book, dialling, discovery, run, scope>>

\* ... the address ...
RegisterAddr(c) ==
    /\ c \in Live /\ conn[c].handler = "checked"
    /\ SetBook(RegisterConnectedAddr(Book, PeerAddr(conn[c])))
    /\ conn' = [conn EXCEPT ![c].handler = "registered"]
    /\ UNCHANGED <<dialling, discovery, run, scope>>

\* Another peer with the same nonce and the same address
Twins(c) == {d \in Peers \ {c} : conn[d].version /\ conn[d].addr = conn[c].addr}

\* It can be written only while the connection is open.
SendVersionAck(p) == IF p.drop = "no" THEN [p EXCEPT !.handler = "idle", !.handled = 1] ELSE HandlerEnd(p, "other")

\* ... and the search for another connection, and the answer.
AnswerVersion(c) ==
    /\ c \in Live /\ conn[c].handler = "registered"
    /\ conn' = [conn EXCEPT ![c] = IF Twins(c) # {} THEN HandlerEnd(@, "already") ELSE SendVersionAck(@)]
    /\ UNCHANGED <<book, dialling, discovery, run, scope>>

\* StartProtocol calls the address good.  Its requests for blocks are in BlockSync.
StartProtocol(p) == SetBook(RegisterGoodAddr(Book, PeerAddr(p)))

\* HandleVersionAck
HandleVerack(c) ==
    /\ HandleMessage(c, "verack")
    /\ conn' = [conn EXCEPT ![c].handled = 2]
    /\ StartProtocol(conn[c])
    /\ UNCHANGED <<dialling, discovery, run, scope>>

\* handleAddrCmd, for one address.  The count of getaddr messages is left out: run
\* sends one to most peers at every turn while the pool is not large.
HandleAddr(c, a) ==
    /\ HandleMessage(c, "addr") /\ a \in scope.told
    /\ SetBook(BackFill(Book, a))
    /\ UNCHANGED <<conn, dialling, discovery, run, scope>>

---------------------------------------------------------------------------
(* Server.run *)

\* The next turn of the loop with n peers.
Turn(n) == run' = IF n < MinPeers THEN "request" ELSE "select"

\* The case of register: the connection is received, its goroutines start, and
\* handleConn sends its version ...
Register(c) ==
    /\ run = "select" /\ c \in Live /\ conn[c].reg = "new"
    /\ conn' = [conn EXCEPT ![c].reg = "taken"]
    /\ run' = "register"
    /\ UNCHANGED <<book, dialling, discovery, scope>>

\* ... and it is made a peer.  Any of the peers is dropped when they are too many,
\* by a goroutine that runs now or later (then it is one of Fails).
AddPeer(c) ==
    LET joined == [conn EXCEPT ![c].reg = "in"]
    IN  /\ run = "register" /\ c \in Live /\ conn[c].reg = "taken"
        /\ \/ conn' = joined
           \/ /\ Cardinality(Peers) + 1 > MaxPeers
              /\ \E victim \in Peers \cup {c} : conn' = [joined EXCEPT ![victim] = Disconnect(@, "other")]
        /\ Turn(Cardinality(Peers) + 1)
        /\ UNCHANGED <<book, dialling, discovery, scope>>

\* Mutant: a duplicate is dropped without a look for the other connection.
AfterDrop_NoLook(b, c) ==
    LET a == PeerAddr(conn[c])
    IN  CASE conn[c].drop = "identical" -> RegisterBadAddr(b, a)
          [] conn[c].drop = "already" -> b
          [] OTHER -> BackFill(UnregisterConnectedAddr(b, a), a)

\* What the case of unregister does with the address.  For a duplicate it looks
\* for the other connection, which may be gone as well.
AfterDrop(b, c) ==
    LET a == PeerAddr(conn[c])
    IN  CASE conn[c].drop = "identical" -> RegisterBadAddr(b, a)
          [] conn[c].drop = "already" /\ Twins(c) # {} -> b
          [] OTHER -> BackFill(UnregisterConnectedAddr(b, a), a)

Unregister(c) ==
    /\ run = "select" /\ c \in Peers /\ conn[c].drop # "no"
    /\ conn' = [conn EXCEPT ![c] = Settle([@ EXCEPT !.reg = "gone"])]
    /\ SetBook(AfterDrop(Book, c))
    /\ Turn(Cardinality(Peers) - 1)
    /\ UNCHANGED <<dialling, discovery, scope>>

---------------------------------------------------------------------------
Init ==
    /\ conn = [c \in Slots |-> Free]
    /\ connected = {} /\ bad = {} /\ unconnected = [a \in Nodes |-> 0] /\ pool = << >>
    /\ attempted = {} /\ failed = [a \in Nodes |-> 0] /\ asks = 0
    /\ discovery = [pc |-> "wait", requested |-> 0, old |-> 0]
    /\ run = IF MinPeers > 0 THEN "request" ELSE "select"
    /\ scope \in Scopes

Discovery == TakeRequest \/ TakeAsk \/ TakeAddress \/ EmptyPool \/ Retry
Handler(c) == HandlerDone(c) \/ HandleVersion(c) \/ RegisterAddr(c) \/ AnswerVersion(c) \/ HandleVerack(c)
ServerRun == \E c \in Slots : Register(c) \/ AddPeer(c) \/ Unregister(c)

Next ==
    \/ Discovery \/ ServerRun
    \/ \E a \in Nodes : DialSucceeds(a) \/ DialFails(a) \/ RegisterFailure(a) \/ Accept(a)
    \/ \E c \in Slots : Handler(c) \/ Fails(c)
    \/ \E c \in Slots, a \in Nodes : HandleAddr(c, a)

\* The goroutine of discovery runs.  The rest may stop wherever it can: a dial may
\* take for ever, and nothing is assumed of the remote nodes.
Fairness == WF_vars(Discovery)

Spec == Init /\ [][Next]_vars /\ Fairness

---------------------------------------------------------------------------
(* Properties *)

\* connectedAddrs is what keeps an address from being dialled.  An address in it
\* has a peer (or a connection that becomes one), and stops having one only in one way: the version of a connection
\* is handled after Server.run has taken the connection from the peers.  Two
\* connections that drop each other as duplicates do not leave it behind.
HasPeer(a) == a \in connected => \E c \in Received : conn[c].version /\ conn[c].addr = a
RegistersLate(a) == \E c \in Live : /\ conn[c].handler = "checked" /\ conn[c].addr = a
                                    /\ conn[c].reg = "gone" /\ a \notin connected
ConnectedHasPeer == [][\A a \in Nodes : HasPeer(a) /\ ~HasPeer(a)' => RegistersLate(a)]_vars

\* unconnectedAddrs keeps an address from being back-filled.  An address in it is
\* in the pool, being dialled, or connected without a registered version; and it
\* stops being so only when such a connection is dropped (BackFill then takes it
\* for one that is still waiting) or when the pool is full.
Underway(a) ==
    \/ unconnected[a] = 0 \/ a \in Range(pool) \cup attempted \/ failed[a] > 0
    \/ \E c \in Live : conn[c].out /\ conn[c].addr = a /\ conn[c].reg # "gone"
DropsUnregistered(a) == \E c \in Peers : /\ conn[c].out /\ conn[c].addr = a /\ conn[c].drop # "no"
                                         /\ c \notin Peers'
NotForgotten ==
    [][\A a \in Nodes : Underway(a) /\ ~Underway(a)' =>
                          DropsUnregistered(a) \/ Len(pool') = PoolSize]_vars

\* A node without any connection dials, whatever became of its calls before,
\* unless an address was registered late (see ConnectedHasPeer): then it may stay
\* alone, even when the address is a seed.  A node that wants no peer (MinPeers 0)
\* asks for none.
Alone == Live = {} /\ MinPeers > 0
KeepsDialling == Alone ~> (~Alone \/ attempted # {} \/ \E a \in Nodes : ~HasPeer(a))

=============================================================================
