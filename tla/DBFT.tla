-------------------------------- MODULE DBFT --------------------------------
(***************************************************************************)
(* The dBFT consensus of pkg/dbft (contexts, handlers, timers) as driven   *)
(* by the event loop of pkg/consensus.  Every validator runs the code of   *)
(* the repository; what goes wrong is its environment: messages are lost,  *)
(* delayed, duplicated and reordered, timers fire at any moment, nodes     *)
(* stay down or restart with an empty context, proposals fail a node's     *)
(* verification, proposed transactions are not in its pool.                *)
(*                                                                         *)
(* A node is one record: its dBFT context, its ledger and everything it    *)
(* ever broadcast.  A handler of the code is an operator from the record   *)
(* to the record, so that the calls a handler makes compose as in Go.      *)
(***************************************************************************)
EXTENDS Integers, Sequences, FiniteSets

CONSTANTS
    N,           \* number of validators
    Alive,       \* validators that run; the others are down for good
    Restarting,  \* validators that may lose their context
    Rejecting,   \* validators whose verification may refuse a proposal
    LackTx,      \* validators whose pool may lack proposed transactions
    MaxHeight, MaxView, MaxRestarts, MaxRecovery,  \* bounds
    None         \* an empty payload slot

Validators == 0 .. (N - 1)

ASSUME NAssumption == N \in Nat \ {0}
ASSUME SetsAssumption == /\ Alive \subseteq Validators
                         /\ Restarting \subseteq Alive
                         /\ Rejecting \subseteq Alive
                         /\ LackTx \subseteq Alive
ASSUME BoundsAssumption == /\ MaxHeight \in Nat /\ MaxView \in Nat
                           /\ MaxRestarts \in Nat /\ MaxRecovery \in Nat

(* F and M of context.go. *)
F == (N - 1) \div 3
M == N - F

(* A proposal is a block: the nonce drawn by Fill is fresh, so a proposal  *)
(* is known by its height, its view (which fix the primary) and how often  *)
(* that primary had lost its context when it made it.                      *)
Block == [h : Nat, v : Nat, n : Nat]
ASSUME NoneAssumption == None \notin Block /\ None \notin [v : Nat, b : Block]

GetPrimaryIndex(height, view) == (height - view) % N

VARIABLES
    node,     \* validator -> its record
    recovery  \* None, or the onRecoveryMessage loop in progress

vars == <<node, recovery>>

-----------------------------------------------------------------------------
(* Context: what a node derives from its record.                           *)

Primary(c) == GetPrimaryIndex(c.BlockIndex, c.ViewNumber)

CountCommitted(c) == Cardinality({j \in Validators : c.cmt[j] # None})

CountFailed(c) == Cardinality({j \in Validators :
                     \/ c.seen[j].h < c.BlockIndex
                     \/ c.seen[j].v < c.ViewNumber})

RequestSentOrReceived(c) == c.prep[Primary(c)] # None
ResponseSent(c, i) == c.prep[i] # None
CommitSent(c, i) == c.cmt[i] # None
ViewChanging(c, i) == c.cv[i] > c.ViewNumber
MoreThanFNodesCommittedOrLost(c) == CountCommitted(c) + CountFailed(c) > F
NotAcceptingPayloads(c, i) == ViewChanging(c, i) /\ ~MoreThanFNodesCommittedOrLost(c)

NoPayloads == [j \in Validators |-> None]
NoChangeViews == [j \in Validators |-> 0]

(* Mutant: the commits stay.                                               *)
Reset_KeepsCommits(c, i, view) ==
    LET height == IF view = 0 THEN Len(c.chain) + 1 ELSE c.BlockIndex
        kept == [j \in Validators |->
                    IF view > 0 /\ c.cv[j] < view THEN c.cv[j] ELSE 0]
    IN  [c EXCEPT !.BlockIndex = height, !.ViewNumber = view,
                  !.prep = NoPayloads, !.isReq = FALSE,
                  !.cv = NoChangeViews, !.lastcv = kept,
                  !.seen[i] = [h |-> height, v |-> view],
                  !.hasAll = TRUE, !.missing = FALSE, !.block = FALSE]

(* reset: a view change keeps the height and moves the ChangeViews with a  *)
(* LOWER new view to lastcv; view 0 also takes the height from the ledger. *)
Reset(c, i, view) ==
    LET height == IF view = 0 THEN Len(c.chain) + 1 ELSE c.BlockIndex
        kept == [j \in Validators |->
                    IF view > 0 /\ c.cv[j] < view THEN c.cv[j] ELSE 0]
    IN  [c EXCEPT !.BlockIndex = height, !.ViewNumber = view,
                  !.prep = NoPayloads, !.isReq = FALSE, !.cmt = NoPayloads,
                  !.cv = NoChangeViews, !.lastcv = kept,
                  !.seen[i] = [h |-> height, v |-> view],
                  !.hasAll = TRUE, !.missing = FALSE, !.block = FALSE]

(* InitializeConsensus resets and arms the timer, which may fire anyway.   *)
InitializeConsensus(c, i, view) == Reset(c, i, view)

-----------------------------------------------------------------------------
(* Messages.  A ChangeView of view v asks for view v + 1.                  *)

PrepareRequest(i, h, v, b)  == [type |-> "PrepareRequest",  from |-> i, h |-> h, v |-> v, b |-> b]
PrepareResponse(i, h, v, b) == [type |-> "PrepareResponse", from |-> i, h |-> h, v |-> v, b |-> b]
Commit(i, h, v, b)          == [type |-> "Commit",          from |-> i, h |-> h, v |-> v, b |-> b]
ChangeView(i, h, v)         == [type |-> "ChangeView",      from |-> i, h |-> h, v |-> v]
RecoveryRequest(i, h, v)    == [type |-> "RecoveryRequest", from |-> i, h |-> h, v |-> v]

Broadcast(c, m) == [c EXCEPT !.sent = @ \cup {m}]

(* makeRecoveryMessage: preparations, last ChangeViews, and the commits if *)
(* a commit was sent.                                                      *)
RecoveryMessage(c, i) ==
    [type |-> "RecoveryMessage", from |-> i, h |-> c.BlockIndex, v |-> c.ViewNumber,
     prep |-> c.prep, isReq |-> c.isReq, lastcv |-> c.lastcv,
     cmt |-> IF CommitSent(c, i) THEN c.cmt ELSE NoPayloads]

(* Above MaxRecovery messages the broadcast is lost.                       *)
SendRecoveryMessage(c, i) ==
    IF Cardinality({m \in c.sent : m.type = "RecoveryMessage"}) < MaxRecovery
    THEN Broadcast(c, RecoveryMessage(c, i))
    ELSE c

-----------------------------------------------------------------------------
(* Checks and sends.  e is what the environment answers during the step:   *)
(* e.req whether VerifyPrepareRequest accepts, e.blk whether the proposal  *)
(* names the next validators this node expects and VerifyBlock accepts it, *)
(* e.tx whether the pool holds every proposed transaction, e.add whether   *)
(* the ledger takes the block.                                             *)

Env(i) == [req : IF i \in Rejecting THEN BOOLEAN ELSE {TRUE},
           blk : {"accepted"} \cup IF i \in Rejecting THEN {"refused", "otherNext"} ELSE {},
           tx  : IF i \in LackTx THEN BOOLEAN ELSE {TRUE},
           add : IF i \in Restarting THEN BOOLEAN ELSE {TRUE}]

(* processBlock: AddBlock refuses a block that is not the next one.  The   *)
(* signatures getBlockWitness puts together are verified, but              *)
(* verifyHeaderWitness drops the result: they decide nothing.  When the    *)
(* ledger refuses the next block the context starts over at the same       *)
(* height, with fresh proposals.                                           *)
ProcessBlock(c, e) ==
    IF Len(c.chain) # c.BlockIndex - 1 THEN c
    ELSE IF e.add \/ c.inc >= MaxRestarts
         THEN [c EXCEPT !.chain = Append(@, c.prep[Primary(c)])]
         ELSE [c EXCEPT !.inc = @ + 1]

(* The commits that checkCommit counts and getBlockWitness takes.          *)
ViewCommits(c) == {j \in Validators : c.cmt[j] # None /\ c.cmt[j].v = c.ViewNumber}

(* Mutant: one commit too few suffices.                                    *)
CheckCommit_OffByOne(c, i, e) ==
    IF c.hasAll /\ Cardinality(ViewCommits(c)) >= M - 1
    THEN InitializeConsensus(ProcessBlock(c, e), i, 0)
    ELSE c

CheckCommit(c, i, e) ==
    IF c.hasAll /\ Cardinality(ViewCommits(c)) >= M
    THEN InitializeConsensus(ProcessBlock(c, e), i, 0)
    ELSE c

(* makeCommit returns the commit already there, or signs the header.       *)
SendCommit(c, i) ==
    LET m == IF CommitSent(c, i) THEN c.cmt[i]
             ELSE [v |-> c.ViewNumber, b |-> c.prep[Primary(c)]]
    IN  Broadcast([c EXCEPT !.cmt[i] = m], Commit(i, c.BlockIndex, m.v, m.b))

(* Mutant: the quorum is counted without waiting for it to be complete.    *)
CheckPrepare_OffByOne(c, i, e) ==
    IF /\ c.hasAll /\ c.isReq
       /\ Cardinality({j \in Validators : c.prep[j] # None}) >= M - 1
    THEN CheckCommit(SendCommit(c, i), i, e)
    ELSE c

CheckPrepare(c, i, e) ==
    IF /\ c.hasAll
       /\ c.isReq
       /\ Cardinality({j \in Validators : c.prep[j] # None}) >= M
    THEN CheckCommit(SendCommit(c, i), i, e)
    ELSE c

SendPrepareRequest(c, i, e) ==
    LET b == [h |-> c.BlockIndex, v |-> c.ViewNumber, n |-> c.inc]
        d == [c EXCEPT !.prep[i] = b, !.isReq = TRUE, !.hasAll = TRUE]
    IN  CheckPrepare(Broadcast(d, PrepareRequest(i, c.BlockIndex, c.ViewNumber, b)), i, e)

(* A response of the primary to its own recovered request overwrites it.   *)
SendPrepareResponse(c, i) ==
    LET b == c.prep[Primary(c)]
        d == [c EXCEPT !.prep[i] = b, !.isReq = (i # Primary(c)) /\ c.isReq]
    IN  Broadcast(d, PrepareResponse(i, c.BlockIndex, c.ViewNumber, b))

(* processMissingTx, when called again by sendRecoveryRequest: what is     *)
(* found now completes the proposal, but the missing list is left as is.   *)
SendRecoveryRequest(c, i, e) ==
    LET d == IF RequestSentOrReceived(c) /\ ~c.hasAll /\ e.tx
             THEN [c EXCEPT !.hasAll = TRUE]
             ELSE c
    IN  Broadcast(d, RecoveryRequest(i, c.BlockIndex, c.ViewNumber))

MakeChangeView(c, i) ==
    Broadcast([c EXCEPT !.cv[i] = c.ViewNumber + 1], ChangeView(i, c.BlockIndex, c.ViewNumber))

CheckChangeView(c, i, view) ==
    IF \/ c.ViewNumber >= view
       \/ Cardinality({j \in Validators : c.cv[j] >= view}) < M
    THEN c
    ELSE InitializeConsensus(
            IF c.cv[i] # 0 /\ c.cv[i] < view THEN MakeChangeView(c, i) ELSE c, i, view)

(* Views stop at MaxView.                                                  *)
SendChangeView(c, i, e) ==
    IF MoreThanFNodesCommittedOrLost(c) THEN SendRecoveryRequest(c, i, e)
    ELSE IF c.ViewNumber >= MaxView THEN c
    ELSE CheckChangeView(MakeChangeView(c, i), i, c.ViewNumber + 1)

(* createAndCheckBlock: a proposal with other next validators is refused   *)
(* at once; CreateBlock marks the block as made even when it is refused;   *)
(* verifyBlock refuses an outdated height.                                 *)
VerifyBlock(c, e) == e.blk = "accepted" /\ Len(c.chain) < c.BlockIndex

Respond(c, i, e) ==
    LET d == IF e.blk = "otherNext" THEN c ELSE [c EXCEPT !.block = TRUE]
    IN  IF VerifyBlock(c, e)
        THEN CheckPrepare(SendPrepareResponse(d, i), i, e)
        ELSE SendChangeView(d, i, e)

-----------------------------------------------------------------------------
(* Handlers.                                                               *)

(* updateExistingPayloads drops the responses to another proposal; the     *)
(* stored commits stay, since MakeHeader still returns nil at that point.  *)
OnPrepareRequest(c, i, m, e) ==
    IF \/ RequestSentOrReceived(c)
       \/ c.ViewNumber # m.v
       \/ m.from # Primary(c)
    THEN c
    ELSE IF ~e.req THEN SendChangeView(c, i, e)
    ELSE LET d == [c EXCEPT
                     !.prep = [j \in Validators |->
                                 IF j = m.from \/ c.prep[j] = m.b THEN m.b ELSE None],
                     !.isReq = TRUE, !.hasAll = e.tx, !.missing = ~e.tx]
         IN  IF d.hasAll THEN Respond(d, i, e) ELSE d

(* A primary that overwrote its own request fails on the type assertion of *)
(* GetPrepareRequest: the process ends.                                    *)
OnPrepareResponse(c, i, m, e) ==
    IF \/ c.ViewNumber # m.v
       \/ m.from = Primary(c)
       \/ c.prep[m.from] # None
       \/ NotAcceptingPayloads(c, i)
    THEN c
    ELSE IF RequestSentOrReceived(c) /\ ~c.isReq THEN [c EXCEPT !.up = FALSE]
    ELSE IF RequestSentOrReceived(c) /\ c.prep[Primary(c)] # m.b THEN c
    ELSE LET d == [c EXCEPT !.prep[m.from] = m.b]
         IN  IF ~CommitSent(d, i) /\ RequestSentOrReceived(d)
             THEN CheckPrepare(d, i, e)
             ELSE d

(* Whether i answers a request of validator j: it committed, or it is one  *)
(* of the F validators after j.                                            *)
OnRecoveryRequest(c, i, j) ==
    IF CommitSent(c, i) \/ \E k \in 1 .. F : (j + k) % N = i
    THEN SendRecoveryMessage(c, i)
    ELSE c

(* Mutant: a node that has committed still follows a view change.          *)
OnChangeView_NoLock(c, i, m) ==
    IF m.v + 1 <= c.ViewNumber THEN OnRecoveryRequest(c, i, m.from)
    ELSE IF m.v + 1 < c.cv[m.from] THEN c
    ELSE CheckChangeView([c EXCEPT !.cv[m.from] = m.v + 1], i, m.v + 1)

OnChangeView(c, i, m) ==
    IF m.v + 1 <= c.ViewNumber THEN OnRecoveryRequest(c, i, m.from)
    ELSE IF CommitSent(c, i) THEN SendRecoveryMessage(c, i)
    ELSE IF m.v + 1 < c.cv[m.from] THEN c
    ELSE CheckChangeView([c EXCEPT !.cv[m.from] = m.v + 1], i, m.v + 1)

(* Only a commit of the current view that arrives after the request is     *)
(* checked against the header.                                             *)
OnCommit(c, i, m, e) ==
    LET d == [c EXCEPT !.cmt[m.from] = [v |-> m.v, b |-> m.b]]
    IN  IF c.ViewNumber # m.v \/ ~RequestSentOrReceived(c) THEN d
        ELSE IF m.b = c.prep[Primary(c)] THEN CheckCommit(d, i, e)
        ELSE c

(* OnReceive up to the dispatch.  Messages of later heights and of the     *)
(* next view go to a cache that only Start reads, just after emptying it.  *)
IsCurrent(c, m) ==
    /\ m.h = c.BlockIndex
    /\ m.type = "RecoveryMessage" \/ m.v # c.ViewNumber + 1

Seen(c, m) ==
    IF c.seen[m.from].h < m.h \/ c.seen[m.from].v < m.v
    THEN [c EXCEPT !.seen[m.from] = [h |-> m.h, v |-> m.v]]
    ELSE c

OnReceive(c, i, m, e) ==
    IF ~IsCurrent(c, m) THEN c
    ELSE LET d == Seen(c, m)
         IN  CASE m.type = "PrepareRequest"  -> OnPrepareRequest(d, i, m, e)
               [] m.type = "PrepareResponse" -> OnPrepareResponse(d, i, m, e)
               [] m.type = "ChangeView"      -> OnChangeView(d, i, m)
               [] m.type = "Commit"          -> OnCommit(d, i, m, e)
               [] m.type = "RecoveryRequest" -> OnRecoveryRequest(d, i, m.from)

-----------------------------------------------------------------------------
(* Recovery.  onRecoveryMessage is one handler with three loops over the   *)
(* recovered payloads; the loops are unrolled into steps, and no other     *)
(* step happens while one runs, so the handler stays atomic.               *)

(* preparationHash, one for all responses of recovery message m, None if   *)
(* they are dropped.  Without a request it comes with the message.  With a *)
(* request eventLoop computes it before the message is handled, for the    *)
(* primary of the view the receiver is in: of a message of another view    *)
(* that is no proposal's hash, or none at all.                             *)
PreparationHash(c, m) ==
    LET p == Primary(c)
        from == {j \in Validators : m.prep[j] # None}
    IN  IF from = {} \/ (m.isReq /\ m.prep[p] = None) THEN None
        ELSE IF ~m.isReq THEN m.prep[CHOOSE j \in from : \A k \in from : j <= k]
        ELSE IF p = GetPrimaryIndex(m.h, m.v) THEN m.prep[p]
        ELSE [h |-> m.h, v |-> m.v, n |-> MaxRestarts + 1]

(* The payloads of recovery message m as recoveryMessage.Get... rebuilds   *)
(* them: responses all carry one hash, commits the view of the message.    *)
Payload(m, hash, phase, j) ==
    CASE phase = "cv"     -> ChangeView(j, m.h, m.lastcv[j] - 1)
      [] phase = "resp"   -> PrepareResponse(j, m.h, m.v, hash)
      [] phase = "commit" -> Commit(j, m.h, m.v, m.cmt[j].b)

Todo(m, hash, phase) ==
    CASE phase = "cv"     -> {j \in Validators : m.lastcv[j] # 0}
      [] phase = "resp"   -> {j \in Validators : hash # None /\ m.prep[j] # None}
      [] phase = "commit" -> {j \in Validators : m.cmt[j] # None}

Loop(i, m, hash, phase, todo) ==
    [node |-> i, m |-> m, hash |-> hash, phase |-> phase, todo |-> todo]

Sent == UNION {node[j].sent : j \in Validators}

(* Nodes are followed up to MaxHeight and MaxRestarts losses of context.   *)
Running(i) ==
    /\ i \in Alive /\ node[i].up
    /\ node[i].BlockIndex <= MaxHeight /\ node[i].inc <= MaxRestarts

(* A node handles a message of another node, any number of times.          *)
Receive(i) ==
    /\ recovery = None /\ Running(i)
    /\ \E j \in Validators \ {i} : \E m \in node[j].sent : \E e \in Env(i) :
          /\ m.type # "RecoveryMessage"
          /\ node' = [node EXCEPT ![i] = OnReceive(node[i], i, m, e)]
    /\ UNCHANGED recovery

(* onRecoveryMessage starts: ChangeViews only of a later view, and nothing *)
(* of a later view once the commit is sent.                                *)
OnRecoveryMessage(i) ==
    /\ recovery = None /\ Running(i)
    /\ \E j \in Validators \ {i} : \E m \in node[j].sent :
          LET d == Seen(node[i], m)
              hash == PreparationHash(node[i], m) IN
          /\ m.type = "RecoveryMessage"
          /\ IsCurrent(node[i], m)
          /\ node' = [node EXCEPT ![i] = d]
          /\ recovery' = IF m.v > d.ViewNumber /\ CommitSent(d, i) THEN None
                         ELSE IF m.v > d.ViewNumber THEN Loop(i, m, hash, "cv", Todo(m, hash, "cv"))
                         ELSE Loop(i, m, hash, "cv", {})

RecoverPayload ==
    /\ recovery # None /\ recovery.todo # {}
    /\ LET i == recovery.node IN
       \E j \in recovery.todo : \E e \in Env(i) :
          /\ \A k \in recovery.todo : j <= k
          /\ node' = [node EXCEPT
                ![i] = OnReceive(@, i, Payload(recovery.m, recovery.hash, recovery.phase, j), e)]
          /\ recovery' = IF node'[i].up THEN [recovery EXCEPT !.todo = @ \ {j}] ELSE None

(* After the ChangeViews: the request, then the responses, if the views    *)
(* now agree and the node still accepts preparations.                      *)
RecoverPreparations ==
    /\ recovery # None /\ recovery.todo = {} /\ recovery.phase = "cv"
    /\ LET i == recovery.node
           m == recovery.m
           hash == recovery.hash
           c == node[i]
           p == Primary(c)
       IN  IF m.v # c.ViewNumber \/ NotAcceptingPayloads(c, i) \/ CommitSent(c, i)
           THEN /\ recovery' = Loop(i, m, hash, "resp", {})
                /\ UNCHANGED node
           ELSE /\ \E e \in Env(i) : node' = [node EXCEPT ![i] =
                      IF RequestSentOrReceived(c) THEN c
                      ELSE IF m.isReq
                           THEN OnReceive(c, i, PrepareRequest(p, m.h, m.v, m.prep[p]), e)
                      ELSE IF i = p THEN SendPrepareRequest(c, i, e)
                      ELSE c]
                /\ recovery' = Loop(i, m, hash, "resp", Todo(m, hash, "resp"))

RecoverCommits ==
    /\ recovery # None /\ recovery.todo = {} /\ recovery.phase = "resp"
    /\ LET i == recovery.node
           m == recovery.m
           hash == recovery.hash
       IN  recovery' = IF m.v <= node[i].ViewNumber
                       THEN Loop(i, m, hash, "commit", Todo(m, hash, "commit"))
                       ELSE None
    /\ UNCHANGED node

RecoverDone ==
    /\ recovery # None /\ recovery.todo = {} /\ recovery.phase = "commit"
    /\ recovery' = None
    /\ UNCHANGED node

-----------------------------------------------------------------------------
(* The other inputs of the event loop.                                     *)

(* Mutant: a timer takes its node to the next view at once, signed or not. *)
OnTimeout_MovesOn(i) ==
    /\ recovery = None /\ Running(i)
    /\ LET c == node[i] IN \E e \in Env(i) :
          node' = [node EXCEPT ![i] =
             IF i = Primary(c) /\ ~RequestSentOrReceived(c) THEN SendPrepareRequest(c, i, e)
             ELSE IF c.ViewNumber >= MaxView THEN c
             ELSE InitializeConsensus(c, i, c.ViewNumber + 1)]
    /\ UNCHANGED recovery

OnTimeout(i) ==
    /\ recovery = None /\ Running(i)
    /\ LET c == node[i] IN \E e \in Env(i) :
          node' = [node EXCEPT ![i] =
             IF i = Primary(c) /\ ~RequestSentOrReceived(c) THEN SendPrepareRequest(c, i, e)
             ELSE IF CommitSent(c, i) THEN SendRecoveryMessage(c, i)
             ELSE SendChangeView(c, i, e)]
    /\ UNCHANGED recovery

(* The last missing transaction of the proposal arrives.                   *)
OnTransaction(i) ==
    /\ recovery = None /\ Running(i)
    /\ LET c == node[i] IN
          /\ i # Primary(c) /\ ~NotAcceptingPayloads(c, i)
          /\ RequestSentOrReceived(c) /\ ~ResponseSent(c, i) /\ ~c.block /\ c.missing
          /\ \E e \in Env(i) : node' = [node EXCEPT ![i] =
                LET d == Respond([c EXCEPT !.hasAll = TRUE], i, e)
                IN  IF d.missing THEN [d EXCEPT !.missing = FALSE] ELSE d]
    /\ UNCHANGED recovery

(* The block queue adds a block some other node has.                       *)
SyncBlock(i) ==
    /\ recovery = None /\ i \in Alive /\ node[i].up
    /\ \E j \in Validators :
          /\ Len(node[j].chain) > Len(node[i].chain)
          /\ node' = [node EXCEPT ![i].chain =
                        Append(@, node[j].chain[Len(node[i].chain) + 1])]
    /\ UNCHANGED recovery

HandleChainBlock(i) ==
    /\ recovery = None /\ i \in Alive /\ node[i].up
    /\ Len(node[i].chain) >= node[i].BlockIndex
    /\ node' = [node EXCEPT ![i] = InitializeConsensus(node[i], i, 0)]
    /\ UNCHANGED recovery

(* Start of the process: an empty context over the stored chain; only here *)
(* does a primary propose at once.                                         *)
NewContext(chain, inc, sent) ==
    [BlockIndex |-> 0, ViewNumber |-> 0, prep |-> NoPayloads, isReq |-> FALSE,
     cmt |-> NoPayloads, cv |-> NoChangeViews, lastcv |-> NoChangeViews,
     seen |-> [j \in Validators |-> [h |-> 0, v |-> 0]],
     hasAll |-> TRUE, missing |-> FALSE, block |-> FALSE,
     chain |-> chain, sent |-> sent, inc |-> inc, up |-> TRUE]

Start(i, chain, inc, sent) ==
    LET c == InitializeConsensus(NewContext(chain, inc, sent), i, 0)
        e == [req |-> TRUE, blk |-> "accepted", tx |-> TRUE, add |-> TRUE]
    IN  IF i = Primary(c) THEN SendPrepareRequest(c, i, e) ELSE c

Restart(i) ==
    /\ recovery = None
    /\ i \in Restarting /\ node[i].inc < MaxRestarts
    /\ node' = [node EXCEPT ![i] = Start(i, @.chain, @.inc + 1, @.sent)]
    /\ UNCHANGED recovery

Init ==
    /\ node = [i \in Validators |->
                 IF i \in Alive THEN Start(i, <<>>, 0, {})
                 ELSE [NewContext(<<>>, 0, {}) EXCEPT !.up = FALSE]]
    /\ recovery = None

Next ==
    \/ \E i \in Validators :
         \/ Receive(i) \/ OnRecoveryMessage(i)
         \/ OnTimeout(i) \/ OnTransaction(i)
         \/ SyncBlock(i) \/ HandleChainBlock(i) \/ Restart(i)
    \/ RecoverPayload \/ RecoverPreparations \/ RecoverCommits \/ RecoverDone

Spec == Init /\ [][Next]_vars

-----------------------------------------------------------------------------
(* Properties.                                                             *)

Payloads == Block \cup {None}
CommitPayloads == [v : Nat, b : Block] \cup {None}

Message ==
    [type : {"PrepareRequest", "PrepareResponse", "Commit"}, from : Validators,
     h : Nat, v : Nat, b : Block]
    \cup [type : {"ChangeView", "RecoveryRequest"}, from : Validators, h : Nat, v : Nat]
    \cup [type : {"RecoveryMessage"}, from : Validators, h : Nat, v : Nat,
          prep : [Validators -> Payloads], isReq : BOOLEAN,
          lastcv : [Validators -> Nat], cmt : [Validators -> CommitPayloads]]

NodeType ==
    [BlockIndex : Nat, ViewNumber : Nat,
     prep : [Validators -> Payloads], isReq : BOOLEAN,
     cmt : [Validators -> CommitPayloads],
     cv : [Validators -> Nat], lastcv : [Validators -> Nat],
     seen : [Validators -> [h : Nat, v : Nat]],
     hasAll : BOOLEAN, missing : BOOLEAN, block : BOOLEAN,
     chain : Seq(Block), sent : SUBSET Message, inc : Nat, up : BOOLEAN]

LoopType ==
    [node : Validators, m : Message, hash : Payloads, phase : {"cv", "resp", "commit"},
     todo : SUBSET Validators]

(* Every payload slot, message and ledger holds a value of its kind: no    *)
(* handler stores a nil payload or signs a header that was never proposed. *)
TypeOK ==
    /\ node \in [Validators -> NodeType]
    /\ recovery = None \/ recovery \in LoopType

Commits(i) == {m \in node[i].sent : m.type = "Commit"}

(* A validator that never lost its context, by a restart or a refused      *)
(* block, and always had the proposed transactions.                        *)
Steady(c, i) == i \in Alive \ LackTx /\ c.inc = 0

(* It signs at most one block per height, whatever views it goes through   *)
(* and whatever it recovers (sendCommit, onChangeView).                    *)
OneCommitPerHeight ==
    \A i \in Validators : Steady(node[i], i) =>
        \A m1, m2 \in Commits(i) : m1.h = m2.h => m1.b = m2.b

(* A commit that a node stores, recovered ones included, was signed for    *)
(* that block and height by the validator it is stored under: the loops of *)
(* onRecoveryMessage rebuild payloads under the view of the message, and   *)
(* must not invent signatures.  The view is left open.                     *)
SignedBy(j, h, b) == \E m \in Commits(j) : m.h = h /\ m.b = b
CommitsSigned ==
    \A i, j \in Validators :
        node[i].cmt[j] # None => SignedBy(j, node[i].BlockIndex, node[i].cmt[j].b)

(* Once such a validator has signed at its current height it stays in its  *)
(* view and sends no ChangeView until its ledger holds a block of that     *)
(* height (OnTimeout, onChangeView, checkChangeView), or refuses one.      *)
CommitLock ==
    [][\A i \in Validators :
        /\ Steady(node[i], i) /\ Steady(node'[i], i)
        /\ \E m \in Commits(i) : m.h = node[i].BlockIndex
        =>
            \/ Len(node'[i].chain) >= node[i].BlockIndex
            \/ /\ node'[i].ViewNumber = node[i].ViewNumber
               /\ node'[i].BlockIndex = node[i].BlockIndex
               /\ \A m \in node'[i].sent \ node[i].sent : m.type # "ChangeView"]_vars

(* A signed block was prepared: M validators broadcast a PrepareRequest or *)
(* a PrepareResponse for exactly that proposal (checkPrepare), unless its  *)
(* primary lost its context and may have proposed twice in that view: the  *)
(* responses in a recovery message without a request share one hash.       *)
CommitBacked ==
    \A i \in Validators : \A m \in Commits(i) :
        node[GetPrimaryIndex(m.b.h, m.b.v)].inc = 0 =>
            Cardinality({j \in Validators : \E p \in node[j].sent :
                p.type \in {"PrepareRequest", "PrepareResponse"} /\ p.b = m.b}) >= M

(* b has the signatures that a witness needs.                              *)
FullySigned(h, b) == Cardinality({j \in Validators : SignedBy(j, h, b)}) >= N - F

(* All but F validators signed at the height of a block of a ledger, and   *)
(* they signed that block, unless its primary may have proposed twice or   *)
(* somebody signed in another view (checkCommit): commits that came before *)
(* the request are counted unchecked, recovered ones under the view of the *)
(* recovery message, and the ledger does not act on the signatures.        *)
AcceptedBacked ==
    \A i \in Validators : \A h \in DOMAIN node[i].chain :
        LET b == node[i].chain[h] IN
        /\ Cardinality({j \in Validators : \E m \in Commits(j) : m.h = h}) >= N - F
        /\ \/ FullySigned(h, b)
           \/ node[GetPrimaryIndex(h, b.v)].inc # 0
           \/ \E j \in Validators : \E m \in Commits(j) : m.h = h /\ m.b.v # b.v

(* At most one block of a height gets the signatures of all but F          *)
(* validators, whatever views they go through, as long as no more than F   *)
(* of those that run lost their context or transactions: no two ledgers    *)
(* can hold different blocks that are both so signed.                      *)
Agreement ==
    Cardinality({i \in Alive : ~Steady(node[i], i)}) <= F =>
        \A i, j \in Validators : \A m1 \in Commits(i), m2 \in Commits(j) :
            /\ m1.h = m2.h /\ FullySigned(m1.h, m1.b) /\ FullySigned(m2.h, m2.b)
            => m1.b = m2.b
=============================================================================
