----------------------------- MODULE DBFTProofs -----------------------------
(***************************************************************************)
(* Proofs about the consensus of module DBFT, for every number of          *)
(* validators, every choice of the failing ones and all bounds. The        *)
(* handlers are operators on a node's record, so there is one lemma per    *)
(* handler: it keeps the invariant NodeInv of the node and withdraws       *)
(* nothing the node sent. The actions and the theorems follow from these   *)
(* lemmas.                                                                 *)
(***************************************************************************)
EXTENDS DBFT, FiniteSetTheorems, WellFoundedInduction, TLAPS

(* What a set K of messages says. Messages are never withdrawn, so that    *)
(* all of this is kept when K grows.                                       *)

(* j signed block b at height h.                                           *)
Signed(K, j, h, b) == \E m \in K : m.type = "Commit" /\ m.from = j /\ m.h = h /\ m.b = b

(* j prepared some proposal of height h and view v.                        *)
Prepared(K, j, h, v) ==
    \E m \in K : /\ m.type \in {"PrepareRequest", "PrepareResponse"}
                 /\ m.from = j /\ m.h = h /\ m.v = v

(* The primary of its height and view proposed b.                          *)
Proposed(K, b) ==
    \E m \in K : /\ m.type = "PrepareRequest" /\ m.b = b
                 /\ m.from = GetPrimaryIndex(b.h, b.v)

(* A preparation of b stored under j: the slot of the primary holds its    *)
(* proposal. Whether another j prepared b itself is left open: a recovery  *)
(* message gives all its responses one hash, and that one may be wrong.    *)
Proposal(K, h, v, b) == b.h = h /\ b.v = v /\ Proposed(K, b)
Vote(K, j, h, v, b) ==
    Prepared(K, j, h, v) /\ (j = GetPrimaryIndex(h, v) => Proposal(K, h, v, b))

Quorums == {Q \in SUBSET Validators : Cardinality(Q) >= M}

(* A quorum prepared the view of b.                                        *)
Backed(K, b) == Proposed(K, b) /\ \E Q \in Quorums : \A j \in Q : Prepared(K, j, b.h, b.v)

(* A proposal of height h, when a quorum signed some block of that height. *)
Accepted(K, h, b) ==
    /\ b.h = h /\ Proposed(K, b)
    /\ \E Q \in Quorums : \A j \in Q : \E x \in Block : Signed(K, j, h, x)

(* The payloads of a recovery message.                                     *)
Recoverable(K, m) ==
    /\ m.isReq => m.prep[GetPrimaryIndex(m.h, m.v)] # None
    /\ \A j \in Validators : m.prep[j] # None => Vote(K, j, m.h, m.v, m.prep[j])
    /\ \A j \in Validators : m.cmt[j] # None => Signed(K, j, m.h, m.cmt[j].b)

(* A message of a node that lost its context inc times.                    *)
MessageOK(K, inc, m) ==
    /\ m.type \in {"PrepareRequest", "PrepareResponse"} => m.b.h = m.h /\ m.b.v = m.v
    /\ m.type = "PrepareRequest" => m.from = GetPrimaryIndex(m.h, m.v) /\ m.b.n <= inc
    /\ m.type = "PrepareResponse" => Proposed(K, m.b)
    /\ m.type = "Commit" => Backed(K, m.b) /\ m.b.h = m.h
    /\ m.type = "RecoveryMessage" => Recoverable(K, m)

(* The inductive invariant, node by node. Sg is what everybody had sent    *)
(* before the step, which a handler does not change; K is what a node may  *)
(* rely on, its own messages of the step included.                         *)
NodeOK(c) == c \in NodeType /\ (c.isReq => RequestSentOrReceived(c))

Own(c, i, Sg) == \A m \in Sg : m.from = i => m \in c.sent

PrepsOK(c, K) ==
    \A j \in Validators :
        c.prep[j] # None => Vote(K, j, c.BlockIndex, c.ViewNumber, c.prep[j])

CommitsOK(c, K) ==
    \A j \in Validators : c.cmt[j] # None => Signed(K, j, c.BlockIndex, c.cmt[j].b)

ChainOK(c, K) == \A h \in 1 .. Len(c.chain) : Accepted(K, h, c.chain[h])

SentOK(c, i, K) == \A m \in c.sent : m.from = i /\ MessageOK(K, c.inc, m)

(* A steady node whose commit of the current height is out still holds     *)
(* that commit and the request; all its commits of a height agree.         *)
Locked(c, i) ==
    /\ Len(c.chain) >= c.BlockIndex - 1
    /\ c.hasAll /\ ~c.missing
    /\ \A m \in c.sent : m.type = "Commit" =>
         /\ m.h <= c.BlockIndex
         /\ m.h = c.BlockIndex => c.cmt[i] # None /\ RequestSentOrReceived(c)
    /\ \A m1, m2 \in c.sent :
         m1.type = "Commit" /\ m2.type = "Commit" /\ m1.h = m2.h => m1.b = m2.b

NodeInv(c, i, Sg) ==
    /\ NodeOK(c)
    /\ Own(c, i, Sg)
    /\ PrepsOK(c, Sg \cup c.sent)
    /\ CommitsOK(c, Sg \cup c.sent)
    /\ ChainOK(c, Sg \cup c.sent)
    /\ SentOK(c, i, Sg \cup c.sent)
    /\ Steady(c, i) => Locked(c, i)

-----------------------------------------------------------------------------

(* The primary of a height and a view is a validator.                      *)
LEMMA PrimaryType ==
    ASSUME NEW h \in Nat, NEW v \in Nat
    PROVE  GetPrimaryIndex(h, v) \in Validators
BY NAssumption DEF GetPrimaryIndex, Validators

(* More messages say more.                                                 *)
LEMMA SaysMore ==
    ASSUME NEW K, NEW L, K \subseteq L
    PROVE  /\ \A j, h, b : Signed(K, j, h, b) => Signed(L, j, h, b)
           /\ \A j, h, v : Prepared(K, j, h, v) => Prepared(L, j, h, v)
           /\ \A b : Proposed(K, b) => Proposed(L, b)
           /\ \A j, h, v, b : Vote(K, j, h, v, b) => Vote(L, j, h, v, b)
           /\ \A b : Backed(K, b) => Backed(L, b)
           /\ \A h, b : Accepted(K, h, b) => Accepted(L, h, b)
           /\ \A m : Recoverable(K, m) => Recoverable(L, m)
           /\ \A inc, m : MessageOK(K, inc, m) => MessageOK(L, inc, m)
<1>1. \A j, h, b : Signed(K, j, h, b) => Signed(L, j, h, b) BY DEF Signed
<1>2. \A j, h, v : Prepared(K, j, h, v) => Prepared(L, j, h, v) BY DEF Prepared
<1>3. \A b : Proposed(K, b) => Proposed(L, b) BY DEF Proposed
<1>4. \A j, h, v, b : Vote(K, j, h, v, b) => Vote(L, j, h, v, b) BY <1>2, <1>3 DEF Vote, Proposal
<1>5. \A b : Backed(K, b) => Backed(L, b) BY <1>2, <1>3 DEF Backed
<1>6. \A h, b : Accepted(K, h, b) => Accepted(L, h, b) BY <1>1, <1>3 DEF Accepted
<1>7. \A m : Recoverable(K, m) => Recoverable(L, m) BY <1>1, <1>4 DEF Recoverable
<1>8. \A inc, m : MessageOK(K, inc, m) => MessageOK(L, inc, m)
  BY <1>3, <1>5, <1>7 DEF MessageOK
<1> QED BY <1>1, <1>2, <1>3, <1>4, <1>5, <1>6, <1>7, <1>8

(* What a node holds stays right when others send more.                    *)
LEMMA MoreSent ==
    ASSUME NEW c, NEW i, NEW Sg, NEW Tg, NodeInv(c, i, Sg), Sg \subseteq Tg, Own(c, i, Tg)
    PROVE  NodeInv(c, i, Tg)
<1> DEFINE K == Sg \cup c.sent
           L == Tg \cup c.sent
<1>0. NodeOK(c) /\ (Steady(c, i) => Locked(c, i)) BY DEF NodeInv
<1>1. K \subseteq L OBVIOUS
<1>2. PrepsOK(c, K) /\ CommitsOK(c, K) /\ ChainOK(c, K) /\ SentOK(c, i, K) BY DEF NodeInv
<1>3. PrepsOK(c, L) /\ CommitsOK(c, L) /\ ChainOK(c, L) /\ SentOK(c, i, L)
        => NodeInv(c, i, Tg)
  BY <1>0 DEF NodeInv
<1> HIDE DEF K, L
<1>4. /\ \A j, h, b : Signed(K, j, h, b) => Signed(L, j, h, b)
      /\ \A j, h, v, b : Vote(K, j, h, v, b) => Vote(L, j, h, v, b)
      /\ \A h, b : Accepted(K, h, b) => Accepted(L, h, b)
      /\ \A inc, m : MessageOK(K, inc, m) => MessageOK(L, inc, m)
  BY <1>1, SaysMore
<1>5. PrepsOK(c, L) /\ CommitsOK(c, L) BY <1>2, <1>4 DEF PrepsOK, CommitsOK
<1>6. ChainOK(c, L) /\ SentOK(c, i, L) BY <1>2, <1>4 DEF ChainOK, SentOK
<1> QED BY <1>3, <1>5, <1>6

(* A change of the context, no message sent: new preparations have to be   *)
(* votes and new commits signed.                                           *)
LEMMA KeptOK ==
    ASSUME NEW c, NEW i, NEW Sg, NodeInv(c, i, Sg), NEW d \in NodeType,
           d.isReq => RequestSentOrReceived(d),
           d.sent = c.sent, d.BlockIndex = c.BlockIndex, d.ViewNumber = c.ViewNumber,
           d.chain = c.chain, d.inc = c.inc,
           \A j \in Validators : d.prep[j] # None =>
               \/ d.prep[j] = c.prep[j]
               \/ Vote(Sg \cup c.sent, j, c.BlockIndex, c.ViewNumber, d.prep[j]),
           \A j \in Validators : d.cmt[j] # None =>
               d.cmt[j] = c.cmt[j] \/ Signed(Sg \cup c.sent, j, c.BlockIndex, d.cmt[j].b),
           Steady(d, i) => Locked(d, i)
    PROVE  NodeInv(d, i, Sg)
<1> DEFINE K == Sg \cup c.sent
<1>0. /\ PrepsOK(c, K) /\ CommitsOK(c, K) /\ ChainOK(c, K) /\ SentOK(c, i, K)
      /\ Own(c, i, Sg) /\ K = Sg \cup d.sent
  BY DEF NodeInv
<1> HIDE DEF K
<1>1. NodeOK(d) BY DEF NodeOK
<1>2. Own(d, i, Sg) BY <1>0 DEF Own
<1>3. PrepsOK(d, K) BY <1>0 DEF PrepsOK, K
<1>4. CommitsOK(d, K) BY <1>0 DEF CommitsOK, K
<1>5. ChainOK(d, K) BY <1>0 DEF ChainOK
<1>6. SentOK(d, i, K) BY <1>0 DEF SentOK
<1> QED BY <1>0, <1>1, <1>2, <1>3, <1>4, <1>5, <1>6 DEF NodeInv

(* reset keeps the invariant of a node, unless the node is steady and      *)
(* forgets its own commit before the ledger has the block.                 *)
LEMMA ResetOK ==
    ASSUME NEW c, NEW i \in Validators, NEW Sg, NEW view \in Nat,
           NodeInv(c, i, Sg),
           Steady(c, i) => \/ c.cmt[i] = None
                           \/ view = 0 /\ Len(c.chain) >= c.BlockIndex
    PROVE  /\ NodeInv(Reset(c, i, view), i, Sg)
           /\ Reset(c, i, view).sent = c.sent
<1> DEFINE r == Reset(c, i, view)
           K == Sg \cup c.sent
           height == IF view = 0 THEN Len(c.chain) + 1 ELSE c.BlockIndex
<1>0. c \in NodeType BY DEF NodeInv, NodeOK
<1>1. Len(c.chain) \in Nat /\ height \in Nat BY <1>0 DEF NodeType
<1>2. r \in NodeType
  <2> DEFINE kept == [j \in Validators |->
                        IF view > 0 /\ c.cv[j] < view THEN c.cv[j] ELSE 0]
             seen == [c.seen EXCEPT ![i] = [h |-> height, v |-> view]]
  <2>1. kept \in [Validators -> Nat] BY <1>0 DEF NodeType
  <2>2. seen \in [Validators -> [h : Nat, v : Nat]] BY <1>0, <1>1 DEF NodeType
  <2>3. /\ NoPayloads \in [Validators -> Payloads]
        /\ NoPayloads \in [Validators -> CommitPayloads]
        /\ NoChangeViews \in [Validators -> Nat]
    BY DEF NoPayloads, NoChangeViews, Payloads, CommitPayloads
  <2>4. r = [c EXCEPT !.BlockIndex = height, !.ViewNumber = view,
                  !.prep = NoPayloads, !.isReq = FALSE, !.cmt = NoPayloads,
                  !.cv = NoChangeViews, !.lastcv = kept, !.seen = seen,
                  !.hasAll = TRUE, !.missing = FALSE, !.block = FALSE]
    BY <1>0 DEF Reset, NodeType
  <2> HIDE DEF kept, seen, r, height
  <2> QED BY <1>0, <1>1, <2>1, <2>2, <2>3, <2>4 DEF NodeType
<1>3. /\ r.BlockIndex = height /\ r.ViewNumber = view /\ r.prep = NoPayloads
      /\ r.isReq = FALSE /\ r.cmt = NoPayloads /\ r.hasAll = TRUE /\ r.missing = FALSE
      /\ r.chain = c.chain /\ r.sent = c.sent /\ r.inc = c.inc
  BY <1>0 DEF Reset, NodeType
<1>4. Own(c, i, Sg) /\ ChainOK(c, K) /\ SentOK(c, i, K) /\ K = Sg \cup r.sent
  BY <1>3 DEF NodeInv
<1> HIDE DEF r, K
<1>5. NodeOK(r) /\ Own(r, i, Sg) BY <1>2, <1>3, <1>4 DEF NodeOK, Own
<1>6. PrepsOK(r, K) /\ CommitsOK(r, K) BY <1>3 DEF PrepsOK, CommitsOK, NoPayloads
<1>7. ChainOK(r, K) /\ SentOK(r, i, K) BY <1>3, <1>4 DEF ChainOK, SentOK
<1>8. Steady(r, i) => Locked(r, i)
  <2> SUFFICES ASSUME Steady(r, i) PROVE Locked(r, i) OBVIOUS
  <2>1. Steady(c, i) /\ Locked(c, i) BY <1>3 DEF NodeInv, Steady
  <2>2. c.BlockIndex \in Nat BY <1>0 DEF NodeType
  <2>3. \A m \in c.sent : m.h \in Nat BY <1>0 DEF NodeType, Message
  <2> QED BY <1>1, <1>3, <2>1, <2>2, <2>3 DEF Locked
<1>9. NodeInv(r, i, Sg) BY <1>4, <1>5, <1>6, <1>7, <1>8 DEF NodeInv
<1> QED BY <1>3, <1>9 DEF r

(* Broadcasting anything but a commit keeps the invariant of the node.     *)
LEMMA BroadcastOK ==
    ASSUME NEW c, NEW i \in Validators, NEW Sg, NodeInv(c, i, Sg),
           NEW m \in Message, m.from = i, m.type # "Commit",
           MessageOK(Sg \cup c.sent, c.inc, m)
    PROVE  /\ NodeInv(Broadcast(c, m), i, Sg)
           /\ c.sent \subseteq Broadcast(c, m).sent
           /\ m \in Broadcast(c, m).sent
           /\ Broadcast(c, m).cmt = c.cmt
           /\ Broadcast(c, m).inc = c.inc
<1> DEFINE r == Broadcast(c, m)
           K == Sg \cup c.sent
           L == Sg \cup r.sent
<1>0. c \in NodeType BY DEF NodeInv, NodeOK
<1>1. r \in NodeType BY <1>0 DEF Broadcast, NodeType
<1>2. /\ r.sent = c.sent \cup {m} /\ r.BlockIndex = c.BlockIndex
      /\ r.ViewNumber = c.ViewNumber /\ r.prep = c.prep /\ r.isReq = c.isReq
      /\ r.cmt = c.cmt /\ r.hasAll = c.hasAll /\ r.missing = c.missing /\ r.chain = c.chain
      /\ r.inc = c.inc
  BY <1>0 DEF Broadcast, NodeType
<1>3. /\ Own(c, i, Sg) /\ PrepsOK(c, K) /\ CommitsOK(c, K) /\ ChainOK(c, K)
      /\ SentOK(c, i, K)
  BY DEF NodeInv
<1> HIDE DEF r
<1>4. K \subseteq L /\ MessageOK(K, c.inc, m) BY <1>2
<1>5. PrepsOK(r, L) /\ CommitsOK(r, L) /\ ChainOK(r, L) /\ SentOK(r, i, L)
        => NodeInv(r, i, Sg)
  <2>1. NodeOK(r) BY <1>1, <1>2 DEF NodeInv, NodeOK, RequestSentOrReceived, Primary
  <2>2. Own(r, i, Sg) BY <1>2, <1>3 DEF Own
  <2>3. Steady(r, i) => Locked(r, i)
    BY <1>2 DEF NodeInv, Steady, Locked, RequestSentOrReceived, Primary
  <2> QED BY <2>1, <2>2, <2>3 DEF NodeInv
<1> HIDE DEF K, L
<1>6. /\ \A j, h, b : Signed(K, j, h, b) => Signed(L, j, h, b)
      /\ \A j, h, v, b : Vote(K, j, h, v, b) => Vote(L, j, h, v, b)
      /\ \A h, b : Accepted(K, h, b) => Accepted(L, h, b)
      /\ \A inc, x : MessageOK(K, inc, x) => MessageOK(L, inc, x)
  BY <1>4, SaysMore
<1>7. PrepsOK(r, L) /\ CommitsOK(r, L) BY <1>2, <1>3, <1>6 DEF PrepsOK, CommitsOK
<1>8. ChainOK(r, L) /\ SentOK(r, i, L) BY <1>2, <1>3, <1>4, <1>6 DEF ChainOK, SentOK
<1> QED BY <1>2, <1>5, <1>7, <1>8 DEF r

(* A recovery message hands on stored payloads, which are signed.          *)
LEMMA SendRecoveryMessageOK ==
    ASSUME NEW c, NEW i \in Validators, NEW Sg, NodeInv(c, i, Sg)
    PROVE  /\ NodeInv(SendRecoveryMessage(c, i), i, Sg)
           /\ c.sent \subseteq SendRecoveryMessage(c, i).sent
<1> DEFINE m == RecoveryMessage(c, i)
           K == Sg \cup c.sent
<1>0. c \in NodeType BY DEF NodeInv, NodeOK
<1>1. NoPayloads \in [Validators -> CommitPayloads] BY DEF NoPayloads, CommitPayloads
<1>2. m \in Message /\ m.from = i /\ m.type = "RecoveryMessage"
  BY <1>0, <1>1 DEF RecoveryMessage, Message, NodeType
<1>3. m.isReq => m.prep[GetPrimaryIndex(m.h, m.v)] # None
  BY DEF RecoveryMessage, NodeInv, NodeOK, RequestSentOrReceived, Primary
<1>4. PrepsOK(c, K) /\ CommitsOK(c, K) BY DEF NodeInv
<1>5. m.h = c.BlockIndex /\ m.v = c.ViewNumber /\ m.prep = c.prep
      /\ m.cmt = IF CommitSent(c, i) THEN c.cmt ELSE NoPayloads
  BY DEF RecoveryMessage
<1> HIDE DEF m, K
<1>6. \A j \in Validators : m.prep[j] # None => Vote(K, j, m.h, m.v, m.prep[j])
  BY <1>4, <1>5 DEF PrepsOK
<1>7. \A j \in Validators : m.cmt[j] # None => Signed(K, j, m.h, m.cmt[j].b)
  BY <1>4, <1>5 DEF CommitsOK, NoPayloads
<1>8. MessageOK(K, c.inc, m) BY <1>2, <1>3, <1>6, <1>7 DEF MessageOK, Recoverable
<1>9. /\ NodeInv(Broadcast(c, m), i, Sg)
      /\ c.sent \subseteq Broadcast(c, m).sent
  BY <1>2, <1>8, BroadcastOK DEF K
<1> QED BY <1>9 DEF SendRecoveryMessage, m

(* The quorum, and what two of them have in common.                        *)
LEMMA QuorumSize == M \in Nat /\ F \in Nat /\ M = N - F /\ N - F - F > F
<1>1. N \in Nat /\ N >= 1 BY NAssumption
<1>2. F \in Nat /\ 3 * F <= N - 1 BY <1>1 DEF F
<1> QED BY <1>1, <1>2 DEF M

(* The commits that checkCommit counts are signatures of a quorum.         *)
LEMMA CountedOK ==
    ASSUME NEW c \in NodeType, NEW K, CommitsOK(c, K), PrepsOK(c, K),
           RequestSentOrReceived(c), Cardinality(ViewCommits(c)) >= M
    PROVE  Accepted(K, c.BlockIndex, c.prep[Primary(c)])
<1> DEFINE Q == ViewCommits(c)
           p == Primary(c)
<1>1. p \in Validators BY PrimaryType DEF NodeType, Primary
<1>2. c.prep[p].h = c.BlockIndex /\ Proposed(K, c.prep[p])
  BY <1>1 DEF PrepsOK, Vote, Proposal, Primary, RequestSentOrReceived
<1>3. Q \in Quorums /\ \A j \in Q : j \in Validators /\ c.cmt[j] # None
  BY DEF Quorums, ViewCommits
<1> HIDE DEF Q, p
<1>4. \A j \in Q : c.cmt[j].b \in Block BY <1>3 DEF NodeType, CommitPayloads
<1>5. \A j \in Q : Signed(K, j, c.BlockIndex, c.cmt[j].b) BY <1>3 DEF CommitsOK
<1> QED BY <1>2, <1>3, <1>4, <1>5 DEF Accepted, p

(* A block at the end of a ledger.                                         *)
LEMMA AppendBlock ==
    ASSUME NEW chain \in Seq(Block), NEW b \in Block
    PROVE  LET q == Append(chain, b) IN
           /\ q \in Seq(Block) /\ Len(q) = Len(chain) + 1 /\ q[Len(chain) + 1] = b
           /\ \A h \in 1 .. Len(chain) : q[h] = chain[h]
           /\ Len(chain) \in Nat
OBVIOUS

(* The ledger grows by an accepted block, the rest of the node stays.      *)
LEMMA LedgerGrows ==
    ASSUME NEW c, NEW i \in Validators, NEW Sg, NodeInv(c, i, Sg), NEW b \in Block,
           Accepted(Sg \cup c.sent, Len(c.chain) + 1, b)
    PROVE  LET r == [c EXCEPT !.chain = Append(c.chain, b)] IN
           /\ NodeInv(r, i, Sg) /\ r.sent = c.sent
           /\ r.chain = Append(c.chain, b) /\ r.BlockIndex = c.BlockIndex
<1> DEFINE q == Append(c.chain, b)
           r == [c EXCEPT !.chain = q]
           K == Sg \cup c.sent
<1>0. c \in NodeType /\ c.chain \in Seq(Block) /\ c.BlockIndex \in Nat
  BY DEF NodeInv, NodeOK, NodeType
<1>1. /\ q \in Seq(Block) /\ Len(q) = Len(c.chain) + 1 /\ q[Len(c.chain) + 1] = b
      /\ \A h \in 1 .. Len(c.chain) : q[h] = c.chain[h]
      /\ Len(c.chain) \in Nat
  BY <1>0, AppendBlock
<1> HIDE DEF q
<1>2. r \in NodeType BY <1>0, <1>1 DEF NodeType
<1>3. /\ r.sent = c.sent /\ r.BlockIndex = c.BlockIndex
      /\ r.ViewNumber = c.ViewNumber /\ r.prep = c.prep /\ r.isReq = c.isReq
      /\ r.cmt = c.cmt /\ r.hasAll = c.hasAll /\ r.missing = c.missing
      /\ r.inc = c.inc /\ r.chain = q
  BY <1>0 DEF NodeType
<1>4. /\ Own(c, i, Sg) /\ PrepsOK(c, K) /\ CommitsOK(c, K) /\ ChainOK(c, K)
      /\ SentOK(c, i, K) /\ K = Sg \cup r.sent
  BY <1>3 DEF NodeInv
<1> HIDE DEF r, K
<1>5. NodeOK(r) BY <1>2, <1>3 DEF NodeInv, NodeOK, RequestSentOrReceived, Primary
<1>6. Own(r, i, Sg) /\ PrepsOK(r, K) /\ CommitsOK(r, K) /\ SentOK(r, i, K)
  BY <1>3, <1>4 DEF Own, PrepsOK, CommitsOK, SentOK
<1>7. ChainOK(r, K)
  <2> SUFFICES ASSUME NEW h \in 1 .. Len(r.chain) PROVE Accepted(K, h, r.chain[h])
    BY DEF ChainOK
  <2>1. h = Len(c.chain) + 1 \/ h \in 1 .. Len(c.chain) BY <1>1, <1>3
  <2> QED BY <1>1, <1>3, <1>4, <2>1 DEF ChainOK, K
<1>8. Steady(r, i) => Locked(r, i)
  BY <1>0, <1>1, <1>3 DEF NodeInv, Steady, Locked, RequestSentOrReceived, Primary
<1>9. NodeInv(r, i, Sg) BY <1>4, <1>5, <1>6, <1>7, <1>8 DEF NodeInv
<1> QED BY <1>3, <1>9 DEF r, q

(* A context that is lost once more.                                       *)
LEMMA ContextLost ==
    ASSUME NEW c, NEW i \in Validators, NEW Sg, NodeInv(c, i, Sg)
    PROVE  LET r == [c EXCEPT !.inc = @ + 1] IN
           NodeInv(r, i, Sg) /\ r.sent = c.sent /\ ~Steady(r, i)
<1> DEFINE n == c.inc + 1
           r == [c EXCEPT !.inc = n]
           K == Sg \cup c.sent
<1>0. c \in NodeType /\ c.inc \in Nat BY DEF NodeInv, NodeOK, NodeType
<1>1. n \in Nat /\ n # 0 BY <1>0
<1> HIDE DEF n
<1>2. r \in NodeType BY <1>0, <1>1 DEF NodeType
<1>3. /\ r.sent = c.sent /\ r.BlockIndex = c.BlockIndex
      /\ r.ViewNumber = c.ViewNumber /\ r.prep = c.prep /\ r.isReq = c.isReq
      /\ r.cmt = c.cmt /\ r.chain = c.chain /\ r.inc = n
  BY <1>0 DEF NodeType
<1>4. /\ Own(c, i, Sg) /\ PrepsOK(c, K) /\ CommitsOK(c, K) /\ ChainOK(c, K)
      /\ SentOK(c, i, K) /\ K = Sg \cup r.sent
  BY <1>3 DEF NodeInv
<1> HIDE DEF r, K
<1>5. NodeOK(r) BY <1>2, <1>3 DEF NodeInv, NodeOK, RequestSentOrReceived, Primary
<1>6. Own(r, i, Sg) /\ PrepsOK(r, K) /\ CommitsOK(r, K) /\ ChainOK(r, K)
  BY <1>3, <1>4 DEF Own, PrepsOK, CommitsOK, ChainOK
<1>7. SentOK(r, i, K)
  <2>1. ASSUME NEW m \in c.sent PROVE MessageOK(K, r.inc, m)
    <3>1. m \in Message BY <1>0 DEF NodeType
    <3>2. m.type = "PrepareRequest" => m.b.n \in Nat BY <3>1 DEF Message, Block
    <3>3. MessageOK(K, c.inc, m) BY <1>4 DEF SentOK
    <3> QED BY <1>0, <1>3, <3>2, <3>3 DEF MessageOK, n
  <2> QED BY <1>3, <1>4, <2>1 DEF SentOK
<1>8. ~Steady(r, i) BY <1>1, <1>3 DEF Steady
<1>9. NodeInv(r, i, Sg) BY <1>4, <1>5, <1>6, <1>7, <1>8 DEF NodeInv
<1> QED BY <1>3, <1>8, <1>9 DEF r, n

(* processBlock leaves a steady node with the block in its ledger.         *)
LEMMA ProcessBlockOK ==
    ASSUME NEW c, NEW i \in Validators, NEW Sg, NodeInv(c, i, Sg), NEW e \in Env(i),
           RequestSentOrReceived(c), Cardinality(ViewCommits(c)) >= M
    PROVE  /\ NodeInv(ProcessBlock(c, e), i, Sg)
           /\ ProcessBlock(c, e).sent = c.sent
           /\ Steady(ProcessBlock(c, e), i) =>
                Len(ProcessBlock(c, e).chain) >= ProcessBlock(c, e).BlockIndex
<1> DEFINE b == c.prep[Primary(c)]
<1>0. c \in NodeType BY DEF NodeInv, NodeOK
<1>1. b \in Block
  BY <1>0, PrimaryType DEF RequestSentOrReceived, NodeType, Payloads, Primary
<1>2. c.BlockIndex \in Nat /\ Len(c.chain) \in Nat /\ c.chain \in Seq(Block)
  BY <1>0 DEF NodeType
<1>3. CASE Len(c.chain) # c.BlockIndex - 1
  <2>1. ProcessBlock(c, e) = c BY <1>3 DEF ProcessBlock
  <2>2. Steady(c, i) => Len(c.chain) >= c.BlockIndex - 1 BY DEF NodeInv, Locked
  <2> QED BY <1>2, <1>3, <2>1, <2>2
<1>4. CASE Len(c.chain) = c.BlockIndex - 1 /\ (e.add \/ c.inc >= MaxRestarts)
  <2>1. ProcessBlock(c, e) = [c EXCEPT !.chain = Append(c.chain, b)]
    BY <1>0, <1>4 DEF ProcessBlock, NodeType
  <2>2. CommitsOK(c, Sg \cup c.sent) /\ PrepsOK(c, Sg \cup c.sent) BY DEF NodeInv
  <2>3. Accepted(Sg \cup c.sent, Len(c.chain) + 1, b)
    <3>1. Len(c.chain) + 1 = c.BlockIndex BY <1>2, <1>4
    <3> QED BY <1>0, <2>2, <3>1, CountedOK
  <2> HIDE DEF b
  <2>4. Len(Append(c.chain, b)) = Len(c.chain) + 1 BY <1>1, <1>2, AppendBlock
  <2>5. LET r == [c EXCEPT !.chain = Append(c.chain, b)] IN
        /\ NodeInv(r, i, Sg) /\ r.sent = c.sent
        /\ r.chain = Append(c.chain, b) /\ r.BlockIndex = c.BlockIndex
    BY <1>1, <2>3, LedgerGrows
  <2> QED BY <1>2, <1>4, <2>1, <2>4, <2>5
<1>5. CASE Len(c.chain) = c.BlockIndex - 1 /\ ~(e.add \/ c.inc >= MaxRestarts)
  <2>1. ProcessBlock(c, e) = [c EXCEPT !.inc = @ + 1] BY <1>5 DEF ProcessBlock
  <2>2. LET r == [c EXCEPT !.inc = @ + 1] IN
        NodeInv(r, i, Sg) /\ r.sent = c.sent /\ ~Steady(r, i)
    BY ContextLost
  <2> QED BY <2>1, <2>2
<1> QED BY <1>3, <1>4, <1>5

(* checkCommit resets only after processBlock.                             *)
LEMMA CheckCommitOK ==
    ASSUME NEW c, NEW i \in Validators, NEW Sg, NodeInv(c, i, Sg), NEW e \in Env(i),
           RequestSentOrReceived(c)
    PROVE  /\ NodeInv(CheckCommit(c, i, e), i, Sg)
           /\ c.sent \subseteq CheckCommit(c, i, e).sent
<1> DEFINE p == ProcessBlock(c, e)
<1>1. CASE CheckCommit(c, i, e) = c BY <1>1
<1>2. CASE /\ Cardinality(ViewCommits(c)) >= M
           /\ CheckCommit(c, i, e) = Reset(p, i, 0)
  <2>1. /\ NodeInv(p, i, Sg) /\ p.sent = c.sent
        /\ Steady(p, i) => Len(p.chain) >= p.BlockIndex
    BY <1>2, ProcessBlockOK
  <2> HIDE DEF p
  <2>2. 0 \in Nat OBVIOUS
  <2>3. NodeInv(Reset(p, i, 0), i, Sg) /\ Reset(p, i, 0).sent = p.sent
    BY <2>1, <2>2, ResetOK
  <2> QED BY <1>2, <2>1, <2>3
<1> QED BY <1>1, <1>2 DEF CheckCommit, InitializeConsensus

(* makeCommit signs a second block of a height for nobody: the commit      *)
(* already stored is the one sent again.                                   *)
LEMMA SendCommitOK ==
    ASSUME NEW c, NEW i \in Validators, NEW Sg, NodeInv(c, i, Sg),
           RequestSentOrReceived(c),
           Cardinality({j \in Validators : c.prep[j] # None}) >= M
    PROVE  /\ NodeInv(SendCommit(c, i), i, Sg)
           /\ RequestSentOrReceived(SendCommit(c, i))
           /\ c.sent \subseteq SendCommit(c, i).sent
<1> DEFINE p == IF CommitSent(c, i) THEN c.cmt[i]
                ELSE [v |-> c.ViewNumber, b |-> c.prep[Primary(c)]]
           m == Commit(i, c.BlockIndex, p.v, p.b)
           r == SendCommit(c, i)
           K == Sg \cup c.sent
           L == Sg \cup r.sent
<1>0. c \in NodeType BY DEF NodeInv, NodeOK
<1>1. c.prep[Primary(c)] \in Block /\ Primary(c) \in Validators
  BY <1>0, PrimaryType DEF RequestSentOrReceived, NodeType, Payloads, Primary
<1>2. p \in [v : Nat, b : Block]
  BY <1>0, <1>1 DEF CommitSent, NodeType, CommitPayloads
<1>3. p # None BY <1>2, NoneAssumption
<1>4. /\ CommitSent(c, i) => p = c.cmt[i]
      /\ ~CommitSent(c, i) => p.b = c.prep[Primary(c)]
  OBVIOUS
<1>5. r = [c EXCEPT !.cmt = [c.cmt EXCEPT ![i] = p], !.sent = c.sent \cup {m}]
  BY <1>0 DEF SendCommit, Broadcast, NodeType
<1>6. /\ Own(c, i, Sg) /\ PrepsOK(c, K) /\ CommitsOK(c, K) /\ ChainOK(c, K)
      /\ SentOK(c, i, K)
  BY DEF NodeInv
<1> HIDE DEF p, r, K
<1>7. m \in Message /\ m.from = i /\ m.type = "Commit" /\ m.h = c.BlockIndex /\ m.b = p.b
  BY <1>0, <1>2 DEF Commit, Message, NodeType
<1> HIDE DEF m
<1>8. [c.cmt EXCEPT ![i] = p] \in [Validators -> CommitPayloads]
  BY <1>0, <1>2 DEF NodeType, CommitPayloads
<1>9. r \in NodeType
  <2> DEFINE cs == [c.cmt EXCEPT ![i] = p]
             ss == c.sent \cup {m}
  <2>1. cs \in [Validators -> CommitPayloads] /\ ss \in SUBSET Message
    BY <1>0, <1>7, <1>8 DEF NodeType
  <2>2. r = [c EXCEPT !.cmt = cs, !.sent = ss] BY <1>5
  <2> HIDE DEF cs, ss
  <2> QED BY <1>0, <2>1, <2>2 DEF NodeType
<1>10. /\ r.sent = c.sent \cup {m} /\ r.BlockIndex = c.BlockIndex
       /\ r.ViewNumber = c.ViewNumber /\ r.prep = c.prep /\ r.isReq = c.isReq
       /\ r.cmt = [c.cmt EXCEPT ![i] = p] /\ r.hasAll = c.hasAll
       /\ r.missing = c.missing /\ r.chain = c.chain /\ r.inc = c.inc
  BY <1>0, <1>5 DEF NodeType
<1>11. r.cmt[i] = p /\ \A j \in Validators \ {i} : r.cmt[j] = c.cmt[j]
  BY <1>0, <1>10 DEF NodeType
<1>12. NodeOK(r) /\ RequestSentOrReceived(r) /\ Own(r, i, Sg)
  BY <1>6, <1>9, <1>10 DEF NodeInv, NodeOK, RequestSentOrReceived, Primary, Own
(* The own commit that is stored was sent before.                          *)
<1>13. ASSUME CommitSent(c, i)
       PROVE  \E y \in c.sent : y.type = "Commit" /\ y.h = c.BlockIndex /\ y.b = p.b
  <2>1. Signed(K, i, c.BlockIndex, p.b) BY <1>4, <1>6, <1>13 DEF CommitsOK, CommitSent
  <2>2. PICK y \in K : y.type = "Commit" /\ y.from = i /\ y.h = c.BlockIndex /\ y.b = p.b
    BY <2>1 DEF Signed
  <2>3. y \in c.sent BY <1>6, <2>2 DEF Own, K
  <2> QED BY <2>2, <2>3
<1>14. Backed(K, m.b) /\ m.b.h = m.h
  <2>1. CASE CommitSent(c, i)
    <3>1. PICK y \in c.sent : y.type = "Commit" /\ y.h = c.BlockIndex /\ y.b = p.b
      BY <1>13, <2>1
    <3> QED BY <1>6, <1>7, <3>1 DEF SentOK, MessageOK
  <2>2. CASE ~CommitSent(c, i)
    <3> DEFINE Q == {j \in Validators : c.prep[j] # None}
               b == c.prep[Primary(c)]
    <3>1. Q \in Quorums BY DEF Quorums
    <3>2. Vote(K, Primary(c), c.BlockIndex, c.ViewNumber, b)
      BY <1>1, <1>6 DEF PrepsOK, RequestSentOrReceived
    <3>3. \A j \in Q : Prepared(K, j, c.BlockIndex, c.ViewNumber) BY <1>6 DEF PrepsOK, Vote
    <3> HIDE DEF Q
    <3>4. Backed(K, b) /\ b.h = c.BlockIndex BY <3>1, <3>2, <3>3 DEF Backed, Vote, Proposal, Primary
    <3> QED BY <1>4, <1>7, <2>2, <3>4
  <2> QED BY <2>1, <2>2
<1>15. K \subseteq L /\ m \in L BY <1>10 DEF K
<1>16. Steady(r, i) => Locked(r, i)
  <2> SUFFICES ASSUME Steady(r, i) PROVE Locked(r, i) OBVIOUS
  <2>1. Locked(c, i) BY <1>10 DEF NodeInv, Steady
  <2>2. c.BlockIndex \in Nat BY <1>0 DEF NodeType
  <2>3. \A x \in c.sent : x.type = "Commit" /\ x.h = c.BlockIndex => x.b = m.b
    <3> SUFFICES ASSUME NEW x \in c.sent, x.type = "Commit", x.h = c.BlockIndex
                 PROVE  x.b = m.b
      OBVIOUS
    <3>1. CommitSent(c, i) BY <2>1 DEF Locked, CommitSent
    <3>2. PICK y \in c.sent : y.type = "Commit" /\ y.h = c.BlockIndex /\ y.b = p.b
      BY <1>13, <3>1
    <3> QED BY <1>7, <2>1, <3>2 DEF Locked
  <2>4. \A m1, m2 \in r.sent :
           m1.type = "Commit" /\ m2.type = "Commit" /\ m1.h = m2.h => m1.b = m2.b
    BY <1>7, <1>10, <2>1, <2>3 DEF Locked
  <2>5. \A x \in r.sent : x.type = "Commit" =>
           /\ x.h <= r.BlockIndex
           /\ x.h = r.BlockIndex => r.cmt[i] # None /\ RequestSentOrReceived(r)
    BY <1>3, <1>7, <1>10, <1>11, <1>12, <2>1, <2>2 DEF Locked
  <2> QED BY <1>10, <2>1, <2>4, <2>5 DEF Locked
<1>17. PrepsOK(r, L) /\ CommitsOK(r, L) /\ ChainOK(r, L) /\ SentOK(r, i, L)
         => NodeInv(r, i, Sg)
  BY <1>12, <1>16 DEF NodeInv
<1> HIDE DEF L
<1>18. /\ \A j, h, b : Signed(K, j, h, b) => Signed(L, j, h, b)
       /\ \A j, h, v, b : Vote(K, j, h, v, b) => Vote(L, j, h, v, b)
       /\ \A b : Backed(K, b) => Backed(L, b)
       /\ \A h, b : Accepted(K, h, b) => Accepted(L, h, b)
       /\ \A inc, x : MessageOK(K, inc, x) => MessageOK(L, inc, x)
  BY <1>15, SaysMore
<1>19. Signed(L, i, c.BlockIndex, p.b) BY <1>7, <1>15 DEF Signed
<1>20. PrepsOK(r, L) BY <1>6, <1>10, <1>18 DEF PrepsOK
<1>21. CommitsOK(r, L) BY <1>6, <1>10, <1>11, <1>18, <1>19 DEF CommitsOK
<1>22. ChainOK(r, L) BY <1>6, <1>10, <1>18 DEF ChainOK
<1>23. SentOK(r, i, L)
  <2>1. MessageOK(L, r.inc, m) BY <1>7, <1>14, <1>18 DEF MessageOK
  <2> QED BY <1>6, <1>7, <1>10, <1>18, <2>1 DEF SentOK
<1> QED BY <1>10, <1>12, <1>17, <1>20, <1>21, <1>22, <1>23 DEF r

(* checkPrepare signs only a proposal it holds, prepared by a quorum.      *)
LEMMA CheckPrepareOK ==
    ASSUME NEW c, NEW i \in Validators, NEW Sg, NodeInv(c, i, Sg), NEW e \in Env(i)
    PROVE  /\ NodeInv(CheckPrepare(c, i, e), i, Sg)
           /\ c.sent \subseteq CheckPrepare(c, i, e).sent
<1>1. CASE CheckPrepare(c, i, e) = c BY <1>1
<1>2. CASE /\ c.isReq /\ Cardinality({j \in Validators : c.prep[j] # None}) >= M
           /\ CheckPrepare(c, i, e) = CheckCommit(SendCommit(c, i), i, e)
  <2>1. RequestSentOrReceived(c) BY <1>2 DEF NodeInv, NodeOK
  <2>2. /\ NodeInv(SendCommit(c, i), i, Sg)
        /\ RequestSentOrReceived(SendCommit(c, i))
        /\ c.sent \subseteq SendCommit(c, i).sent
    BY <1>2, <2>1, SendCommitOK
  <2>3. /\ NodeInv(CheckCommit(SendCommit(c, i), i, e), i, Sg)
        /\ SendCommit(c, i).sent \subseteq CheckCommit(SendCommit(c, i), i, e).sent
    BY <2>2, CheckCommitOK
  <2> QED BY <1>2, <2>2, <2>3
<1> QED BY <1>1, <1>2 DEF CheckPrepare


(* A primary's own proposal keeps the invariant of the primary.            *)
LEMMA SendPrepareRequestOK ==
    ASSUME NEW c, NEW i \in Validators, NEW Sg, NodeInv(c, i, Sg), NEW e \in Env(i),
           i = Primary(c)
    PROVE  /\ NodeInv(SendPrepareRequest(c, i, e), i, Sg)
           /\ c.sent \subseteq SendPrepareRequest(c, i, e).sent
<1> DEFINE b == [h |-> c.BlockIndex, v |-> c.ViewNumber, n |-> c.inc]
           m == PrepareRequest(i, c.BlockIndex, c.ViewNumber, b)
           a == Broadcast(c, m)
           ps == [c.prep EXCEPT ![i] = b]
           d == [c EXCEPT !.prep = ps, !.isReq = TRUE, !.hasAll = TRUE, !.sent = c.sent \cup {m}]
           L == Sg \cup a.sent
<1>0. c \in NodeType BY DEF NodeInv, NodeOK
<1>1. b \in Block /\ b # None /\ b.h = c.BlockIndex /\ b.v = c.ViewNumber /\ b.n = c.inc
  BY <1>0, NoneAssumption DEF NodeType, Block
<1> HIDE DEF b
<1>2. /\ m \in Message /\ m.from = i /\ m.type = "PrepareRequest" /\ m.b = b
      /\ m.h = c.BlockIndex /\ m.v = c.ViewNumber
  BY <1>0, <1>1 DEF PrepareRequest, Message, NodeType
<1>3. SendPrepareRequest(c, i, e) = CheckPrepare(d, i, e)
  BY <1>0 DEF SendPrepareRequest, Broadcast, NodeType, b
<1>4. /\ a.sent = c.sent \cup {m} /\ a.BlockIndex = c.BlockIndex
      /\ a.ViewNumber = c.ViewNumber /\ a.prep = c.prep /\ a.cmt = c.cmt
      /\ a.missing = c.missing /\ a.chain = c.chain /\ a.inc = c.inc
  BY <1>0 DEF Broadcast, NodeType
<1>5. ps \in [Validators -> Payloads] /\ ps[i] = b
      /\ \A j \in Validators \ {i} : ps[j] = c.prep[j]
  BY <1>0, <1>1 DEF NodeType, Payloads
<1> HIDE DEF m, ps
<1>6. d \in NodeType
  <2> DEFINE ss == c.sent \cup {m}
  <2>1. /\ ss \in SUBSET Message
        /\ d = [c EXCEPT !.prep = ps, !.isReq = TRUE, !.hasAll = TRUE, !.sent = ss]
    BY <1>0, <1>2 DEF NodeType
  <2> HIDE DEF ss, d
  <2> QED BY <1>0, <1>5, <2>1 DEF NodeType
<1>7. /\ d.sent = a.sent /\ d.BlockIndex = c.BlockIndex
      /\ d.ViewNumber = c.ViewNumber /\ d.prep = ps /\ d.cmt = c.cmt
      /\ d.hasAll = TRUE /\ d.missing = c.missing /\ d.chain = c.chain /\ d.inc = c.inc
  BY <1>0, <1>4 DEF NodeType
<1>8. MessageOK(Sg \cup c.sent, c.inc, m)
  <2>1. c.inc \in Nat BY <1>0 DEF NodeType
  <2> QED BY <1>1, <1>2, <2>1 DEF MessageOK, Primary
<1>9. NodeInv(a, i, Sg) /\ c.sent \subseteq a.sent /\ m \in a.sent BY <1>2, <1>8, BroadcastOK
<1> HIDE DEF a, d
<1>10. RequestSentOrReceived(d) BY <1>1, <1>5, <1>7 DEF RequestSentOrReceived, Primary
<1>11. Vote(L, i, c.BlockIndex, c.ViewNumber, b)
  <2>1. m \in L BY <1>9
  <2> HIDE DEF L
  <2>2. Proposed(L, b) BY <1>1, <1>2, <2>1 DEF Proposed, Primary
  <2>3. Prepared(L, i, c.BlockIndex, c.ViewNumber) BY <1>2, <2>1 DEF Prepared
  <2> QED BY <1>1, <2>2, <2>3 DEF Vote, Proposal
<1>12. Steady(d, i) => Locked(d, i)
  BY <1>4, <1>7, <1>9, <1>10 DEF NodeInv, Steady, Locked
<1>13. \A j \in Validators : d.prep[j] # None =>
         d.prep[j] = a.prep[j] \/ Vote(L, j, a.BlockIndex, a.ViewNumber, d.prep[j])
  BY <1>4, <1>5, <1>7, <1>11
<1>14. NodeInv(d, i, Sg) BY <1>4, <1>6, <1>7, <1>9, <1>10, <1>12, <1>13, KeptOK
<1>15. NodeInv(CheckPrepare(d, i, e), i, Sg) /\ d.sent \subseteq CheckPrepare(d, i, e).sent
  BY <1>14, CheckPrepareOK
<1> QED BY <1>3, <1>7, <1>9, <1>15

(* A response to a proposal that the node holds keeps the invariant.       *)
LEMMA SendPrepareResponseOK ==
    ASSUME NEW c, NEW i \in Validators, NEW Sg, NodeInv(c, i, Sg),
           RequestSentOrReceived(c)
    PROVE  /\ NodeInv(SendPrepareResponse(c, i), i, Sg)
           /\ c.sent \subseteq SendPrepareResponse(c, i).sent
<1> DEFINE b == c.prep[Primary(c)]
           q == (i # Primary(c)) /\ c.isReq
           m == PrepareResponse(i, c.BlockIndex, c.ViewNumber, b)
           a == Broadcast(c, m)
           ps == [c.prep EXCEPT ![i] = b]
           d == [c EXCEPT !.prep = ps, !.isReq = q, !.sent = c.sent \cup {m}]
           K == Sg \cup c.sent
           L == Sg \cup a.sent
<1>0. c \in NodeType BY DEF NodeInv, NodeOK
<1>1. b \in Block /\ b # None /\ Primary(c) \in Validators
  BY <1>0, PrimaryType, NoneAssumption DEF RequestSentOrReceived, NodeType, Payloads, Primary
<1>2. Vote(K, Primary(c), c.BlockIndex, c.ViewNumber, b)
  BY <1>1 DEF NodeInv, PrepsOK
<1>3. /\ m \in Message /\ m.from = i /\ m.type = "PrepareResponse" /\ m.b = b
      /\ m.h = c.BlockIndex /\ m.v = c.ViewNumber
  BY <1>0, <1>1 DEF PrepareResponse, Message, NodeType
<1>4. SendPrepareResponse(c, i) = d BY <1>0 DEF SendPrepareResponse, Broadcast, NodeType
<1>5. /\ a.sent = c.sent \cup {m} /\ a.BlockIndex = c.BlockIndex
      /\ a.ViewNumber = c.ViewNumber /\ a.prep = c.prep /\ a.cmt = c.cmt
      /\ a.hasAll = c.hasAll /\ a.missing = c.missing /\ a.chain = c.chain /\ a.inc = c.inc
  BY <1>0 DEF Broadcast, NodeType
<1>6. /\ ps \in [Validators -> Payloads] /\ ps[i] = b /\ ps[Primary(c)] # None
      /\ \A j \in Validators \ {i} : ps[j] = c.prep[j]
  BY <1>0, <1>1 DEF NodeType, Payloads
<1>7. q \in BOOLEAN OBVIOUS
<1> HIDE DEF b, m, ps, q
<1>8. d \in NodeType
  <2> DEFINE ss == c.sent \cup {m}
  <2>1. ss \in SUBSET Message /\ d = [c EXCEPT !.prep = ps, !.isReq = q, !.sent = ss]
    BY <1>0, <1>3 DEF NodeType
  <2> HIDE DEF ss, d
  <2> QED BY <1>0, <1>6, <1>7, <2>1 DEF NodeType
<1>9. /\ d.sent = a.sent /\ d.BlockIndex = c.BlockIndex
      /\ d.ViewNumber = c.ViewNumber /\ d.prep = ps /\ d.cmt = c.cmt
      /\ d.hasAll = c.hasAll /\ d.missing = c.missing /\ d.chain = c.chain /\ d.inc = c.inc
  BY <1>0, <1>5 DEF NodeType
<1>10. MessageOK(K, c.inc, m) BY <1>2, <1>3 DEF MessageOK, Vote, Proposal, Primary
<1>11. NodeInv(a, i, Sg) /\ c.sent \subseteq a.sent /\ m \in a.sent BY <1>3, <1>10, BroadcastOK
<1> HIDE DEF a, d
<1>12. RequestSentOrReceived(d) BY <1>6, <1>9 DEF RequestSentOrReceived, Primary
<1>13. Vote(L, i, c.BlockIndex, c.ViewNumber, b)
  <2>1. m \in L /\ K \subseteq L BY <1>11
  <2> HIDE DEF K, L
  <2>2. Proposal(L, c.BlockIndex, c.ViewNumber, b)
    BY <1>2, <2>1, SaysMore DEF Vote, Proposal, Primary
  <2>3. Prepared(L, i, c.BlockIndex, c.ViewNumber) BY <1>3, <2>1 DEF Prepared
  <2> QED BY <1>2, <2>2, <2>3 DEF Vote
<1>14. Steady(d, i) => Locked(d, i)
  BY <1>5, <1>9, <1>11, <1>12 DEF NodeInv, Steady, Locked
<1>15. \A j \in Validators : d.prep[j] # None =>
         d.prep[j] = a.prep[j] \/ Vote(L, j, a.BlockIndex, a.ViewNumber, d.prep[j])
  BY <1>5, <1>6, <1>9, <1>13
<1>16. NodeInv(d, i, Sg) BY <1>5, <1>8, <1>9, <1>11, <1>12, <1>14, <1>15, KeptOK
<1> QED BY <1>4, <1>9, <1>11, <1>16

(* Fields outside the invariant may change freely, and transactions may    *)
(* be found.                                                               *)
LEMMA FrameOK ==
    ASSUME NEW c, NEW i, NEW Sg, NodeInv(c, i, Sg), NEW d \in NodeType,
           d.sent = c.sent, d.BlockIndex = c.BlockIndex, d.ViewNumber = c.ViewNumber,
           d.prep = c.prep, d.isReq = c.isReq, d.cmt = c.cmt, c.hasAll => d.hasAll,
           d.missing => c.missing, d.chain = c.chain, d.inc = c.inc
    PROVE  NodeInv(d, i, Sg)
<1>1. d.isReq => RequestSentOrReceived(d)
  BY DEF NodeInv, NodeOK, RequestSentOrReceived, Primary
<1>2. Steady(d, i) => Locked(d, i)
  BY DEF NodeInv, Steady, Locked, RequestSentOrReceived, Primary
<1> QED BY <1>1, <1>2, KeptOK

(* A recovery request, with the call of processMissingTx it makes, keeps   *)
(* the invariant of its sender.                                            *)
LEMMA SendRecoveryRequestOK ==
    ASSUME NEW c, NEW i \in Validators, NEW Sg, NodeInv(c, i, Sg), NEW e \in Env(i)
    PROVE  /\ NodeInv(SendRecoveryRequest(c, i, e), i, Sg)
           /\ c.sent \subseteq SendRecoveryRequest(c, i, e).sent
<1> DEFINE m == RecoveryRequest(i, c.BlockIndex, c.ViewNumber)
           d == IF RequestSentOrReceived(c) /\ ~c.hasAll /\ e.tx
                THEN [c EXCEPT !.hasAll = TRUE] ELSE c
<1>0. c \in NodeType BY DEF NodeInv, NodeOK
<1>1. m \in Message /\ m.from = i /\ m.type = "RecoveryRequest"
  BY <1>0 DEF RecoveryRequest, Message, NodeType
<1>2. d \in NodeType BY <1>0 DEF NodeType
<1>3. /\ d.sent = c.sent /\ d.BlockIndex = c.BlockIndex /\ d.ViewNumber = c.ViewNumber
      /\ d.prep = c.prep /\ d.isReq = c.isReq /\ d.cmt = c.cmt
      /\ c.hasAll => d.hasAll
      /\ d.missing = c.missing /\ d.chain = c.chain /\ d.inc = c.inc
  BY <1>0 DEF NodeType
<1> HIDE DEF d, m
<1>4. NodeInv(d, i, Sg) BY <1>2, <1>3, FrameOK
<1>5. MessageOK(Sg \cup d.sent, d.inc, m) BY <1>1 DEF MessageOK
<1>6. NodeInv(Broadcast(d, m), i, Sg) /\ d.sent \subseteq Broadcast(d, m).sent
  BY <1>1, <1>4, <1>5, BroadcastOK
<1>7. SendRecoveryRequest(c, i, e) = Broadcast(d, m) BY DEF SendRecoveryRequest, d, m
<1> QED BY <1>3, <1>6, <1>7

(* Storing a ChangeView touches nothing the invariant is about.            *)
LEMMA ChangeViewStoredOK ==
    ASSUME NEW c, NEW i \in Validators, NEW Sg, NodeInv(c, i, Sg),
           NEW j \in Validators, NEW view \in Nat
    PROVE  LET d == [c EXCEPT !.cv[j] = view] IN
           /\ NodeInv(d, i, Sg)
           /\ d.sent = c.sent /\ d.cmt = c.cmt /\ d.inc = c.inc
<1> DEFINE d == [c EXCEPT !.cv[j] = view]
           vs == [c.cv EXCEPT ![j] = view]
<1>0. c \in NodeType BY DEF NodeInv, NodeOK
<1>1. d = [c EXCEPT !.cv = vs] BY <1>0 DEF NodeType
<1>2. vs \in [Validators -> Nat] BY <1>0 DEF NodeType
<1> HIDE DEF vs, d
<1>3. d \in NodeType BY <1>0, <1>1, <1>2 DEF NodeType
<1>4. /\ d.sent = c.sent /\ d.BlockIndex = c.BlockIndex /\ d.ViewNumber = c.ViewNumber
      /\ d.prep = c.prep /\ d.isReq = c.isReq /\ d.cmt = c.cmt /\ d.hasAll = c.hasAll
      /\ d.missing = c.missing /\ d.chain = c.chain /\ d.inc = c.inc
  BY <1>0, <1>1 DEF NodeType
<1>5. NodeInv(d, i, Sg) BY <1>3, <1>4, FrameOK
<1> QED BY <1>4, <1>5 DEF d

(* makeChangeView keeps the invariant and the commits.                     *)
LEMMA MakeChangeViewOK ==
    ASSUME NEW c, NEW i \in Validators, NEW Sg, NodeInv(c, i, Sg)
    PROVE  /\ NodeInv(MakeChangeView(c, i), i, Sg)
           /\ c.sent \subseteq MakeChangeView(c, i).sent
           /\ MakeChangeView(c, i).cmt = c.cmt /\ MakeChangeView(c, i).inc = c.inc
<1> DEFINE m == ChangeView(i, c.BlockIndex, c.ViewNumber)
           d == [c EXCEPT !.cv[i] = c.ViewNumber + 1]
<1>0. c \in NodeType BY DEF NodeInv, NodeOK
<1>1. m \in Message /\ m.from = i /\ m.type = "ChangeView"
  BY <1>0 DEF ChangeView, Message, NodeType
<1>2. c.ViewNumber + 1 \in Nat BY <1>0 DEF NodeType
<1>3. NodeInv(d, i, Sg) /\ d.sent = c.sent /\ d.cmt = c.cmt /\ d.inc = c.inc
  BY <1>2, ChangeViewStoredOK
<1> HIDE DEF d, m
<1>4. MessageOK(Sg \cup d.sent, d.inc, m) BY <1>1 DEF MessageOK
<1>5. /\ NodeInv(Broadcast(d, m), i, Sg) /\ d.sent \subseteq Broadcast(d, m).sent
      /\ Broadcast(d, m).cmt = d.cmt /\ Broadcast(d, m).inc = d.inc
  BY <1>1, <1>3, <1>4, BroadcastOK
<1>6. MakeChangeView(c, i) = Broadcast(d, m) BY DEF MakeChangeView, d, m
<1> QED BY <1>3, <1>5, <1>6

(* checkChangeView may reset, so a steady node must not have committed.    *)
LEMMA CheckChangeViewOK ==
    ASSUME NEW c, NEW i \in Validators, NEW Sg, NodeInv(c, i, Sg), NEW view \in Nat,
           Steady(c, i) => c.cmt[i] = None
    PROVE  /\ NodeInv(CheckChangeView(c, i, view), i, Sg)
           /\ c.sent \subseteq CheckChangeView(c, i, view).sent
<1>1. CASE CheckChangeView(c, i, view) = c BY <1>1
<1>2. CASE CheckChangeView(c, i, view) = Reset(c, i, view)
  <2>1. NodeInv(Reset(c, i, view), i, Sg) /\ Reset(c, i, view).sent = c.sent BY ResetOK
  <2> QED BY <1>2, <2>1
<1>3. CASE CheckChangeView(c, i, view) = Reset(MakeChangeView(c, i), i, view)
  <2> DEFINE d == MakeChangeView(c, i)
  <2>1. /\ NodeInv(d, i, Sg) /\ c.sent \subseteq d.sent /\ d.cmt = c.cmt /\ d.inc = c.inc
    BY MakeChangeViewOK
  <2> HIDE DEF d
  <2>2. Steady(d, i) => d.cmt[i] = None BY <2>1 DEF Steady
  <2>3. NodeInv(Reset(d, i, view), i, Sg) /\ Reset(d, i, view).sent = d.sent
    BY <2>1, <2>2, ResetOK
  <2> QED BY <1>3, <2>1, <2>3 DEF d
<1> QED BY <1>1, <1>2, <1>3 DEF CheckChangeView, InitializeConsensus

(* sendChangeView, whichever of its three exits it takes.                  *)
LEMMA SendChangeViewOK ==
    ASSUME NEW c, NEW i \in Validators, NEW Sg, NodeInv(c, i, Sg), NEW e \in Env(i),
           Steady(c, i) => c.cmt[i] = None
    PROVE  /\ NodeInv(SendChangeView(c, i, e), i, Sg)
           /\ c.sent \subseteq SendChangeView(c, i, e).sent
<1>1. CASE SendChangeView(c, i, e) = c BY <1>1
<1>2. CASE SendChangeView(c, i, e) = SendRecoveryRequest(c, i, e)
  BY <1>2, SendRecoveryRequestOK
<1>3. CASE SendChangeView(c, i, e) = CheckChangeView(MakeChangeView(c, i), i, c.ViewNumber + 1)
  <2> DEFINE d == MakeChangeView(c, i)
             view == c.ViewNumber + 1
  <2>0. view \in Nat BY DEF NodeInv, NodeOK, NodeType
  <2>1. /\ NodeInv(d, i, Sg) /\ c.sent \subseteq d.sent /\ d.cmt = c.cmt /\ d.inc = c.inc
    BY MakeChangeViewOK
  <2> HIDE DEF d, view
  <2>2. Steady(d, i) => d.cmt[i] = None BY <2>1 DEF Steady
  <2>3. /\ NodeInv(CheckChangeView(d, i, view), i, Sg)
        /\ d.sent \subseteq CheckChangeView(d, i, view).sent
    BY <2>0, <2>1, <2>2, CheckChangeViewOK
  <2> QED BY <1>3, <2>1, <2>3 DEF d, view
<1> QED BY <1>1, <1>2, <1>3 DEF SendChangeView

(* createAndCheckBlock and what follows it, for a node that has not        *)
(* committed.                                                              *)
LEMMA RespondOK ==
    ASSUME NEW c, NEW i \in Validators, NEW Sg, NodeInv(c, i, Sg), NEW e \in Env(i),
           RequestSentOrReceived(c), Steady(c, i) => c.cmt[i] = None
    PROVE  /\ NodeInv(Respond(c, i, e), i, Sg)
           /\ c.sent \subseteq Respond(c, i, e).sent
<1> DEFINE d == IF e.blk = "otherNext" THEN c ELSE [c EXCEPT !.block = TRUE]
<1>0. c \in NodeType BY DEF NodeInv, NodeOK
<1>1. d \in NodeType BY <1>0 DEF NodeType
<1>2. /\ d.sent = c.sent /\ d.BlockIndex = c.BlockIndex /\ d.ViewNumber = c.ViewNumber
      /\ d.prep = c.prep /\ d.isReq = c.isReq /\ d.cmt = c.cmt /\ d.hasAll = c.hasAll
      /\ d.missing = c.missing /\ d.chain = c.chain /\ d.inc = c.inc
  BY <1>0 DEF NodeType
<1> HIDE DEF d
<1>3. NodeInv(d, i, Sg) BY <1>1, <1>2, FrameOK
<1>4. RequestSentOrReceived(d) BY <1>2 DEF RequestSentOrReceived, Primary
<1>5. CASE Respond(c, i, e) = CheckPrepare(SendPrepareResponse(d, i), i, e)
  <2> DEFINE r == SendPrepareResponse(d, i)
  <2>1. NodeInv(r, i, Sg) /\ d.sent \subseteq r.sent BY <1>3, <1>4, SendPrepareResponseOK
  <2> HIDE DEF r
  <2>2. NodeInv(CheckPrepare(r, i, e), i, Sg) /\ r.sent \subseteq CheckPrepare(r, i, e).sent
    BY <2>1, CheckPrepareOK
  <2> QED BY <1>2, <1>5, <2>1, <2>2 DEF r
<1>6. CASE Respond(c, i, e) = SendChangeView(d, i, e)
  <2>1. Steady(d, i) => d.cmt[i] = None BY <1>2 DEF Steady
  <2> QED BY <1>2, <1>3, <1>6, <2>1, SendChangeViewOK
<1> QED BY <1>5, <1>6 DEF Respond, d

-----------------------------------------------------------------------------

(* What a received payload must satisfy: a request is a vote, the sender   *)
(* of a response prepared, that of a commit signed.                        *)
PayloadSound(K, m) ==
    /\ m \in Message /\ m.type # "RecoveryMessage"
    /\ m.type = "PrepareRequest" => Vote(K, m.from, m.h, m.v, m.b)
    /\ m.type = "PrepareResponse" => Prepared(K, m.from, m.h, m.v)
    /\ m.type = "Commit" => Signed(K, m.from, m.h, m.b)

(* onPrepareRequest is ignored once the request is known, so a steady node *)
(* it changes has not committed.                                           *)
LEMMA OnPrepareRequestOK ==
    ASSUME NEW c, NEW i \in Validators, NEW Sg, NodeInv(c, i, Sg), NEW e \in Env(i),
           NEW m, PayloadSound(Sg \cup c.sent, m), m.type = "PrepareRequest",
           m.h = c.BlockIndex
    PROVE  /\ NodeInv(OnPrepareRequest(c, i, m, e), i, Sg)
           /\ c.sent \subseteq OnPrepareRequest(c, i, m, e).sent
<1> DEFINE r == OnPrepareRequest(c, i, m, e)
           K == Sg \cup c.sent
<1>0. c \in NodeType BY DEF NodeInv, NodeOK
<1>1. CASE r = c BY <1>1
<1>2. CASE r # c
  <2> DEFINE ps == [j \in Validators |-> IF j = m.from \/ c.prep[j] = m.b THEN m.b ELSE None]
             d == [c EXCEPT !.prep = ps, !.isReq = TRUE, !.hasAll = e.tx, !.missing = ~e.tx]
  <2>1. m.b \in Block /\ m.b # None /\ m.from \in Validators
    BY NoneAssumption DEF PayloadSound, Message
  <2>2. ~RequestSentOrReceived(c) /\ m.from = Primary(c) /\ m.v = c.ViewNumber
    BY <1>2 DEF OnPrepareRequest
  <2>3. Vote(K, m.from, c.BlockIndex, c.ViewNumber, m.b) BY <2>2 DEF PayloadSound
  <2>4. Steady(c, i) => c.cmt[i] = None
    <3> SUFFICES ASSUME Steady(c, i), c.cmt[i] # None PROVE FALSE OBVIOUS
    <3>1. Signed(K, i, c.BlockIndex, c.cmt[i].b) BY DEF NodeInv, CommitsOK
    <3>2. PICK x \in K : x.type = "Commit" /\ x.from = i /\ x.h = c.BlockIndex
      BY <3>1 DEF Signed
    <3>3. x \in c.sent BY <3>2 DEF NodeInv, Own
    <3> QED BY <2>2, <3>2, <3>3 DEF NodeInv, Locked
  <2>5. \/ r = SendChangeView(c, i, e)
        \/ r = Respond(d, i, e)
        \/ r = d
    BY <1>2 DEF OnPrepareRequest
  <2>6. /\ ps \in [Validators -> Payloads] /\ ps[m.from] = m.b
        /\ \A j \in Validators : ps[j] # None => j = m.from \/ ps[j] = c.prep[j]
    BY <2>1 DEF Payloads
  <2>7. ps[m.from] = m.b /\ m.b # None BY <2>1, <2>6
  <2>8. e.tx \in BOOLEAN /\ (Steady(c, i) => e.tx) BY DEF Env, Steady
  <2> HIDE DEF ps, r, K
  <2>9. d \in NodeType BY <1>0, <2>6, <2>8 DEF NodeType
  <2>10. /\ d.sent = c.sent /\ d.BlockIndex = c.BlockIndex /\ d.ViewNumber = c.ViewNumber
         /\ d.prep = ps /\ d.isReq = TRUE /\ d.cmt = c.cmt /\ d.hasAll = e.tx
         /\ d.missing = ~e.tx /\ d.chain = c.chain /\ d.inc = c.inc
    BY <1>0 DEF NodeType
  <2> HIDE DEF d
  <2>11. RequestSentOrReceived(d)
    BY <2>2, <2>7, <2>10 DEF RequestSentOrReceived, Primary
  <2>12. \A j \in Validators : d.prep[j] # None =>
           d.prep[j] = c.prep[j] \/ Vote(K, j, c.BlockIndex, c.ViewNumber, d.prep[j])
    BY <2>3, <2>6, <2>10
  <2>13. Steady(d, i) => Locked(d, i)
    BY <2>8, <2>10, <2>11 DEF NodeInv, Steady, Locked
  <2>14. NodeInv(d, i, Sg) BY <2>9, <2>10, <2>11, <2>12, <2>13, KeptOK DEF K
  <2>15. Steady(d, i) => d.cmt[i] = None BY <2>4, <2>10 DEF Steady
  <2>16. CASE r = SendChangeView(c, i, e) BY <2>4, <2>16, SendChangeViewOK DEF r
  <2>17. CASE r = Respond(d, i, e) BY <2>10, <2>11, <2>14, <2>15, <2>17, RespondOK DEF r
  <2>18. CASE r = d BY <2>10, <2>14, <2>18 DEF r
  <2> QED BY <2>5, <2>16, <2>17, <2>18
<1> QED BY <1>1, <1>2

(* onPrepareResponse never replaces the primary's slot.                    *)
LEMMA OnPrepareResponseOK ==
    ASSUME NEW c, NEW i \in Validators, NEW Sg, NodeInv(c, i, Sg), NEW e \in Env(i),
           NEW m, PayloadSound(Sg \cup c.sent, m), m.type = "PrepareResponse",
           m.h = c.BlockIndex
    PROVE  /\ NodeInv(OnPrepareResponse(c, i, m, e), i, Sg)
           /\ c.sent \subseteq OnPrepareResponse(c, i, m, e).sent
<1> DEFINE r == OnPrepareResponse(c, i, m, e)
           ps == [c.prep EXCEPT ![m.from] = m.b]
           d == [c EXCEPT !.prep = ps]
           u == [c EXCEPT !.up = FALSE]
           K == Sg \cup c.sent
<1>0. c \in NodeType BY DEF NodeInv, NodeOK
<1>1. CASE r = c BY <1>1
<1>2. CASE r = u
  <2>1. u \in NodeType BY <1>0 DEF NodeType
  <2>2. /\ u.sent = c.sent /\ u.BlockIndex = c.BlockIndex /\ u.ViewNumber = c.ViewNumber
        /\ u.prep = c.prep /\ u.isReq = c.isReq /\ u.cmt = c.cmt /\ u.hasAll = c.hasAll
        /\ u.missing = c.missing /\ u.chain = c.chain /\ u.inc = c.inc
    BY <1>0 DEF NodeType
  <2> HIDE DEF u
  <2> QED BY <1>2, <2>1, <2>2, FrameOK
<1>3. CASE r # c /\ r # u
  <2>1. m.b \in Block /\ m.b # None /\ m.from \in Validators
    BY NoneAssumption DEF PayloadSound, Message
  <2>2. /\ ps \in [Validators -> Payloads] /\ ps[m.from] = m.b
        /\ \A j \in Validators \ {m.from} : ps[j] = c.prep[j]
    BY <1>0, <2>1 DEF NodeType, Payloads
  <2>3. d = [c EXCEPT !.prep[m.from] = m.b] BY <1>0 DEF NodeType
  <2>4. r = d \/ r = CheckPrepare(d, i, e)
    BY <1>3, <2>3 DEF OnPrepareResponse
  <2>5. m.from # Primary(c) /\ m.v = c.ViewNumber BY <1>3 DEF OnPrepareResponse
  <2>6. ps[Primary(c)] = c.prep[Primary(c)] BY <1>0, <2>5 DEF NodeType
  <2>7. Vote(K, m.from, c.BlockIndex, c.ViewNumber, m.b)
    BY <2>5 DEF PayloadSound, Vote, Primary
  <2> HIDE DEF ps, r, u, K
  <2>8. d \in NodeType BY <1>0, <2>2 DEF NodeType
  <2>9. /\ d.sent = c.sent /\ d.BlockIndex = c.BlockIndex /\ d.ViewNumber = c.ViewNumber
        /\ d.prep = ps /\ d.isReq = c.isReq /\ d.cmt = c.cmt /\ d.hasAll = c.hasAll
        /\ d.missing = c.missing /\ d.chain = c.chain /\ d.inc = c.inc
    BY <1>0 DEF NodeType
  <2> HIDE DEF d
  <2>10. RequestSentOrReceived(d) <=> RequestSentOrReceived(c)
    BY <2>6, <2>9 DEF RequestSentOrReceived, Primary
  <2>11. d.isReq => RequestSentOrReceived(d) BY <2>9, <2>10 DEF NodeInv, NodeOK
  <2>12. \A j \in Validators : d.prep[j] # None =>
           d.prep[j] = c.prep[j] \/ Vote(K, j, c.BlockIndex, c.ViewNumber, d.prep[j])
    BY <2>2, <2>7, <2>9
  <2>13. Steady(d, i) => Locked(d, i) BY <2>9, <2>10 DEF NodeInv, Steady, Locked
  <2>14. NodeInv(d, i, Sg) BY <2>8, <2>9, <2>11, <2>12, <2>13, KeptOK DEF K
  <2>15. CASE r = d BY <2>9, <2>14, <2>15 DEF r
  <2>16. CASE r = CheckPrepare(d, i, e) BY <2>9, <2>14, <2>16, CheckPrepareOK DEF r
  <2> QED BY <2>4, <2>15, <2>16
<1> QED BY <1>1, <1>2, <1>3

(* onRecoveryRequest at most broadcasts a recovery message.                *)
LEMMA OnRecoveryRequestOK ==
    ASSUME NEW c, NEW i \in Validators, NEW Sg, NodeInv(c, i, Sg), NEW j
    PROVE  /\ NodeInv(OnRecoveryRequest(c, i, j), i, Sg)
           /\ c.sent \subseteq OnRecoveryRequest(c, i, j).sent
BY SendRecoveryMessageOK DEF OnRecoveryRequest

(* onChangeView reaches checkChangeView only without a commit.             *)
LEMMA OnChangeViewOK ==
    ASSUME NEW c, NEW i \in Validators, NEW Sg, NodeInv(c, i, Sg),
           NEW m \in Message, m.type = "ChangeView"
    PROVE  /\ NodeInv(OnChangeView(c, i, m), i, Sg)
           /\ c.sent \subseteq OnChangeView(c, i, m).sent
<1> DEFINE r == OnChangeView(c, i, m)
           d == [c EXCEPT !.cv[m.from] = m.v + 1]
<1>1. m.from \in Validators /\ m.v + 1 \in Nat BY DEF Message
<1>2. NodeInv(d, i, Sg) /\ d.sent = c.sent /\ d.cmt = c.cmt BY <1>1, ChangeViewStoredOK
<1>3. \/ r = c
      \/ r = OnRecoveryRequest(c, i, m.from)
      \/ r = SendRecoveryMessage(c, i)
      \/ c.cmt[i] = None /\ r = CheckChangeView(d, i, m.v + 1)
  BY DEF OnChangeView, CommitSent
<1> HIDE DEF d, r
<1>4. CASE r = c BY <1>4 DEF r
<1>5. CASE r = OnRecoveryRequest(c, i, m.from) BY <1>5, OnRecoveryRequestOK DEF r
<1>6. CASE r = SendRecoveryMessage(c, i) BY <1>6, SendRecoveryMessageOK DEF r
<1>7. CASE c.cmt[i] = None /\ r = CheckChangeView(d, i, m.v + 1)
  BY <1>1, <1>2, <1>7, CheckChangeViewOK DEF r
<1> QED BY <1>3, <1>4, <1>5, <1>6, <1>7

(* onCommit stores a signed commit and never forgets one's own.            *)
LEMMA OnCommitOK ==
    ASSUME NEW c, NEW i \in Validators, NEW Sg, NodeInv(c, i, Sg), NEW e \in Env(i),
           NEW m, PayloadSound(Sg \cup c.sent, m), m.type = "Commit", m.h = c.BlockIndex
    PROVE  /\ NodeInv(OnCommit(c, i, m, e), i, Sg)
           /\ c.sent \subseteq OnCommit(c, i, m, e).sent
<1> DEFINE r == OnCommit(c, i, m, e)
           p == [v |-> m.v, b |-> m.b]
           cs == [c.cmt EXCEPT ![m.from] = p]
           d == [c EXCEPT !.cmt = cs]
           K == Sg \cup c.sent
<1>0. c \in NodeType BY DEF NodeInv, NodeOK
<1>1. m.from \in Validators /\ p \in [v : Nat, b : Block] BY DEF PayloadSound, Message
<1>2. p # None /\ p.b = m.b BY <1>1, NoneAssumption
<1>3. cs \in [Validators -> CommitPayloads] BY <1>0, <1>1 DEF NodeType, CommitPayloads
<1>4. d = [c EXCEPT !.cmt[m.from] = p] BY <1>0 DEF NodeType
<1>5. r = c \/ r = d \/ (RequestSentOrReceived(c) /\ r = CheckCommit(d, i, e))
  BY <1>4 DEF OnCommit
<1>6. Signed(K, m.from, c.BlockIndex, m.b) BY DEF PayloadSound
<1> HIDE DEF p, r, K
<1>7. cs[m.from] = p /\ \A j \in Validators \ {m.from} : cs[j] = c.cmt[j]
  BY <1>0, <1>1 DEF NodeType
<1> HIDE DEF cs
<1>8. d \in NodeType BY <1>0, <1>3 DEF NodeType
<1>9. /\ d.sent = c.sent /\ d.BlockIndex = c.BlockIndex /\ d.ViewNumber = c.ViewNumber
      /\ d.prep = c.prep /\ d.isReq = c.isReq /\ d.cmt = cs /\ d.hasAll = c.hasAll
      /\ d.missing = c.missing /\ d.chain = c.chain /\ d.inc = c.inc
  BY <1>0 DEF NodeType
<1> HIDE DEF d
<1>10. RequestSentOrReceived(d) <=> RequestSentOrReceived(c)
  BY <1>9 DEF RequestSentOrReceived, Primary
<1>11. d.isReq => RequestSentOrReceived(d) BY <1>9, <1>10 DEF NodeInv, NodeOK
<1>12. \A j \in Validators : d.cmt[j] # None =>
         d.cmt[j] = c.cmt[j] \/ Signed(K, j, c.BlockIndex, d.cmt[j].b)
  BY <1>2, <1>6, <1>7, <1>9
<1>13. Steady(d, i) => Locked(d, i)
  BY <1>2, <1>7, <1>9, <1>10 DEF NodeInv, Steady, Locked
<1>14. NodeInv(d, i, Sg) BY <1>8, <1>9, <1>11, <1>12, <1>13, KeptOK DEF K
<1>15. CASE r = c BY <1>15 DEF r
<1>16. CASE r = d BY <1>9, <1>14, <1>16 DEF r
<1>17. CASE RequestSentOrReceived(c) /\ r = CheckCommit(d, i, e)
  BY <1>9, <1>10, <1>14, <1>17, CheckCommitOK DEF r
<1> QED BY <1>5, <1>15, <1>16, <1>17

(* LastSeenMessage is no part of the invariant.                            *)
LEMMA SeenOK ==
    ASSUME NEW c, NEW i \in Validators, NEW Sg, NodeInv(c, i, Sg), NEW m \in Message
    PROVE  LET d == Seen(c, m) IN
           /\ NodeInv(d, i, Sg)
           /\ d.sent = c.sent /\ d.BlockIndex = c.BlockIndex /\ d.ViewNumber = c.ViewNumber
           /\ d.prep = c.prep /\ d.cmt = c.cmt /\ d.chain = c.chain /\ d.inc = c.inc
<1> DEFINE ss == [c.seen EXCEPT ![m.from] = [h |-> m.h, v |-> m.v]]
           d == [c EXCEPT !.seen = ss]
<1>0. c \in NodeType BY DEF NodeInv, NodeOK
<1>1. m.from \in Validators /\ m.h \in Nat /\ m.v \in Nat BY DEF Message
<1>2. ss \in [Validators -> [h : Nat, v : Nat]] BY <1>0, <1>1 DEF NodeType
<1>3. Seen(c, m) = c \/ Seen(c, m) = d BY <1>0 DEF Seen, NodeType
<1> HIDE DEF ss
<1>4. d \in NodeType BY <1>0, <1>2 DEF NodeType
<1>5. /\ d.sent = c.sent /\ d.BlockIndex = c.BlockIndex /\ d.ViewNumber = c.ViewNumber
      /\ d.prep = c.prep /\ d.isReq = c.isReq /\ d.cmt = c.cmt /\ d.hasAll = c.hasAll
      /\ d.missing = c.missing /\ d.chain = c.chain /\ d.inc = c.inc
  BY <1>0 DEF NodeType
<1> HIDE DEF d
<1>6. NodeInv(d, i, Sg) BY <1>4, <1>5, FrameOK
<1> QED BY <1>3, <1>5, <1>6

(* OnReceive, by the type of the message.                                  *)
LEMMA OnReceiveOK ==
    ASSUME NEW c, NEW i \in Validators, NEW Sg, NodeInv(c, i, Sg), NEW e \in Env(i),
           NEW m, PayloadSound(Sg \cup c.sent, m)
    PROVE  /\ NodeInv(OnReceive(c, i, m, e), i, Sg)
           /\ c.sent \subseteq OnReceive(c, i, m, e).sent
<1> DEFINE d == Seen(c, m)
           r == OnReceive(c, i, m, e)
<1>0. m \in Message BY DEF PayloadSound
<1>1. NodeInv(d, i, Sg) /\ d.sent = c.sent /\ d.BlockIndex = c.BlockIndex BY <1>0, SeenOK
<1>2. m.type \in {"PrepareRequest", "PrepareResponse", "Commit", "ChangeView", "RecoveryRequest"}
  BY DEF PayloadSound, Message
<1>3. CASE r = c BY <1>3
<1>4. CASE r # c
  <2>1. IsCurrent(c, m) BY <1>4 DEF OnReceive
  <2>2. m.h = d.BlockIndex BY <1>1, <2>1 DEF IsCurrent
  <2>3. PayloadSound(Sg \cup d.sent, m) BY <1>1
  <2>4. CASE m.type = "PrepareRequest"
    <3>1. r = OnPrepareRequest(d, i, m, e) BY <2>1, <2>4 DEF OnReceive
    <3> HIDE DEF d, r
    <3> QED BY <1>1, <2>2, <2>3, <2>4, <3>1, OnPrepareRequestOK DEF r
  <2>5. CASE m.type = "PrepareResponse"
    <3>1. r = OnPrepareResponse(d, i, m, e) BY <2>1, <2>5 DEF OnReceive
    <3> HIDE DEF d, r
    <3> QED BY <1>1, <2>2, <2>3, <2>5, <3>1, OnPrepareResponseOK DEF r
  <2>6. CASE m.type = "ChangeView"
    <3>1. r = OnChangeView(d, i, m) BY <2>1, <2>6 DEF OnReceive
    <3> HIDE DEF d, r
    <3> QED BY <1>0, <1>1, <2>6, <3>1, OnChangeViewOK DEF r
  <2>7. CASE m.type = "Commit"
    <3>1. r = OnCommit(d, i, m, e) BY <2>1, <2>7 DEF OnReceive
    <3> HIDE DEF d, r
    <3> QED BY <1>1, <2>2, <2>3, <2>7, <3>1, OnCommitOK DEF r
  <2>8. CASE m.type = "RecoveryRequest"
    <3>1. r = OnRecoveryRequest(d, i, m.from) BY <2>1, <2>8 DEF OnReceive
    <3> HIDE DEF d, r
    <3> QED BY <1>1, <3>1, OnRecoveryRequestOK DEF r
  <2> QED BY <1>2, <2>4, <2>5, <2>6, <2>7, <2>8
<1> QED BY <1>3, <1>4

(* An empty context over what the node c stored and sent, if nothing was   *)
(* sent, or else the loss of the context is counted.                       *)
LEMMA NewContextOK ==
    ASSUME NEW i \in Validators, NEW Sg, NEW c \in NodeType, NEW inc \in Nat,
           inc >= c.inc, inc = 0 => c.sent = {},
           Own(c, i, Sg), ChainOK(c, Sg \cup c.sent), SentOK(c, i, Sg \cup c.sent)
    PROVE  LET z == NewContext(c.chain, inc, c.sent) IN
           NodeInv(z, i, Sg) /\ z.sent = c.sent /\ z.cmt[i] = None
<1> DEFINE z == NewContext(c.chain, inc, c.sent)
           K == Sg \cup c.sent
<1>1. /\ NoPayloads \in [Validators -> Payloads]
      /\ NoPayloads \in [Validators -> CommitPayloads]
      /\ NoChangeViews \in [Validators -> Nat]
      /\ [j \in Validators |-> [h |-> 0, v |-> 0]] \in [Validators -> [h : Nat, v : Nat]]
  BY DEF NoPayloads, NoChangeViews, Payloads, CommitPayloads
<1>2. z \in NodeType BY <1>1 DEF NodeType, NewContext
<1>3. /\ z.prep = NoPayloads /\ z.cmt = NoPayloads /\ z.isReq = FALSE /\ z.chain = c.chain
      /\ z.sent = c.sent /\ z.inc = inc /\ z.hasAll = TRUE /\ z.missing = FALSE
      /\ z.BlockIndex = 0 /\ K = Sg \cup z.sent
  BY DEF NewContext
<1>4. ChainOK(c, K) /\ SentOK(c, i, K) OBVIOUS
<1> HIDE DEF z, K
<1>5. NodeOK(z) /\ Own(z, i, Sg) BY <1>2, <1>3 DEF NodeOK, Own
<1>6. PrepsOK(z, K) /\ CommitsOK(z, K) /\ z.cmt[i] = None
  BY <1>3 DEF PrepsOK, CommitsOK, NoPayloads
<1>7. ChainOK(z, K) BY <1>3, <1>4 DEF ChainOK
<1>8. SentOK(z, i, K)
  <2>1. ASSUME NEW m \in c.sent PROVE MessageOK(K, z.inc, m)
    <3>1. m \in Message /\ c.inc \in Nat BY DEF NodeType
    <3>2. m.type = "PrepareRequest" => m.b.n \in Nat BY <3>1 DEF Message, Block
    <3>3. MessageOK(K, c.inc, m) BY <1>4 DEF SentOK
    <3> QED BY <1>3, <3>1, <3>2, <3>3 DEF MessageOK
  <2> QED BY <1>3, <1>4, <2>1 DEF SentOK
<1>9. Steady(z, i) => Locked(z, i)
  <2>1. Len(z.chain) \in Nat BY <1>2 DEF NodeType
  <2> QED BY <1>3, <2>1 DEF Steady, Locked
<1> QED BY <1>3, <1>5, <1>6, <1>7, <1>8, <1>9 DEF NodeInv, z

(* Start, the proposal of a first primary included.                        *)
LEMMA StartOK ==
    ASSUME NEW i \in Validators, NEW Sg, NEW c \in NodeType, NEW inc \in Nat,
           inc >= c.inc, inc = 0 => c.sent = {},
           Own(c, i, Sg), ChainOK(c, Sg \cup c.sent), SentOK(c, i, Sg \cup c.sent)
    PROVE  /\ NodeInv(Start(i, c.chain, inc, c.sent), i, Sg)
           /\ c.sent \subseteq Start(i, c.chain, inc, c.sent).sent
<1> DEFINE z == NewContext(c.chain, inc, c.sent)
           d == Reset(z, i, 0)
           e == [req |-> TRUE, blk |-> "accepted", tx |-> TRUE, add |-> TRUE]
<1>1. e \in Env(i) BY DEF Env
<1>2. NodeInv(z, i, Sg) /\ z.sent = c.sent /\ z.cmt[i] = None BY NewContextOK
<1>3. Start(i, c.chain, inc, c.sent)
        = IF i = Primary(d) THEN SendPrepareRequest(d, i, e) ELSE d
  BY DEF Start, InitializeConsensus
<1> HIDE DEF z, e
<1>4. 0 \in Nat OBVIOUS
<1>5. NodeInv(Reset(z, i, 0), i, Sg) /\ Reset(z, i, 0).sent = z.sent BY <1>2, <1>4, ResetOK
<1> HIDE DEF d
<1>6. NodeInv(d, i, Sg) /\ d.sent = c.sent BY <1>2, <1>5 DEF d
<1>7. CASE i = Primary(d) BY <1>1, <1>3, <1>6, <1>7, SendPrepareRequestOK
<1>8. CASE i # Primary(d) BY <1>3, <1>6, <1>8
<1> QED BY <1>7, <1>8

-----------------------------------------------------------------------------

(* A recovery message that may be replayed.                                *)
RecoveryOK(m) == m \in Message /\ m.type = "RecoveryMessage" /\ Recoverable(Sent, m)

NodesOK ==
    /\ node \in [Validators -> NodeType]
    /\ \A i \in Validators : NodeInv(node[i], i, Sent)
    /\ \A i \in Validators \ Alive : node[i].sent = {}

LoopOK ==
    recovery # None =>
        /\ recovery \in LoopType /\ recovery.node \in Alive
        /\ RecoveryOK(recovery.m)
        /\ recovery.todo \subseteq Todo(recovery.m, recovery.hash, recovery.phase)

(* The inductive invariant.                                                *)
IInv == NodesOK /\ LoopOK

(* A step of one node that keeps its invariant keeps those of all the      *)
(* others: messages are never withdrawn.                                   *)
LEMMA NodeStep ==
    ASSUME NodesOK, NEW i \in Alive, NEW d, NodeInv(d, i, Sent),
           node[i].sent \subseteq d.sent, node' = [node EXCEPT ![i] = d]
    PROVE  NodesOK' /\ Sent \subseteq Sent'
<1>0. i \in Validators BY SetsAssumption
<1>1. d \in NodeType BY DEF NodeInv, NodeOK
<1>2. node' \in [Validators -> NodeType] BY <1>1 DEF NodesOK
<1>3. /\ node'[i] = d
      /\ \A k \in Validators \ {i} : node'[k] = node[k]
  BY <1>0 DEF NodesOK
<1>4. Sent \subseteq Sent' /\ Sent' = UNION {node'[j].sent : j \in Validators}
  BY <1>0, <1>3 DEF Sent
<1>5. ASSUME NEW k \in Validators PROVE NodeInv(node'[k], k, Sent)
  BY <1>3 DEF NodesOK
<1>6. ASSUME NEW k \in Validators PROVE NodeInv(node'[k], k, Sent')
  <2>1. ASSUME NEW l \in Validators, NEW m \in node'[l].sent PROVE m.from = l
    <3>1. NodeInv(node'[l], l, Sent) BY <1>5
    <3> QED BY <3>1 DEF NodeInv, SentOK
  <2>2. Own(node'[k], k, Sent') BY <1>4, <2>1 DEF Own
  <2> QED BY <1>4, <1>5, <2>2, MoreSent
<1>7. \A k \in Validators \ Alive : node'[k].sent = {} BY <1>3 DEF NodesOK
<1> QED BY <1>2, <1>4, <1>6, <1>7 DEF NodesOK

(* A recovery message stays fit for replay.                                *)
LEMMA RecoveryKept ==
    ASSUME NEW m, RecoveryOK(m), Sent \subseteq Sent'
    PROVE  m \in Message /\ m.type = "RecoveryMessage" /\ Recoverable(Sent', m)
<1> DEFINE K == Sent
           L == Sent'
<1>1. Recoverable(K, m) /\ K \subseteq L BY DEF RecoveryOK
<1> HIDE DEF K, L
<1>2. Recoverable(L, m) BY <1>1, SaysMore
<1> QED BY <1>2 DEF RecoveryOK, L

(* A step outside the recovery loop keeps what holds of the loop.          *)
LEMMA LoopKept ==
    ASSUME LoopOK, recovery' = recovery, Sent \subseteq Sent'
    PROVE  LoopOK'
<1>1. CASE recovery = None BY <1>1 DEF LoopOK
<1>2. CASE recovery # None
  <2>1. /\ recovery \in LoopType /\ recovery.node \in Alive /\ RecoveryOK(recovery.m)
        /\ recovery.todo \subseteq Todo(recovery.m, recovery.hash, recovery.phase)
    BY <1>2 DEF LoopOK
  <2>2. Recoverable(Sent', recovery.m) BY <2>1, RecoveryKept
  <2> QED BY <2>1, <2>2 DEF LoopOK, RecoveryOK, Todo
<1> QED BY <1>1, <1>2

(* What is sent is sound: recovery messages may be replayed, the others    *)
(* are received.                                                           *)
LEMMA SentSound ==
    ASSUME NodesOK, NEW j \in Validators, NEW m \in node[j].sent
    PROVE  /\ m.type = "RecoveryMessage" => RecoveryOK(m)
           /\ m.type # "RecoveryMessage" => PayloadSound(Sent, m)
<1> DEFINE K == Sent
<1>1. m \in Message BY DEF NodesOK, NodeType
<1>2. m \in K /\ K = K \cup node[j].sent BY DEF Sent
<1>3. SentOK(node[j], j, K) BY <1>2 DEF NodesOK, NodeInv
<1> HIDE DEF K
<1>4. m.from = j /\ MessageOK(K, node[j].inc, m) BY <1>3 DEF SentOK
<1>5. m.type = "RecoveryMessage" => Recoverable(K, m) BY <1>4 DEF MessageOK
<1>6. m.type = "Commit" => Signed(K, m.from, m.h, m.b) BY <1>2 DEF Signed
<1>7. m.type = "PrepareRequest" => Proposed(K, m.b) BY <1>2, <1>4 DEF MessageOK, Proposed
<1>8. m.type \in {"PrepareRequest", "PrepareResponse"} =>
        Prepared(K, m.from, m.h, m.v) /\ Vote(K, m.from, m.h, m.v, m.b)
  <2> SUFFICES ASSUME m.type \in {"PrepareRequest", "PrepareResponse"}
               PROVE  Prepared(K, m.from, m.h, m.v) /\ Vote(K, m.from, m.h, m.v, m.b)
    OBVIOUS
  <2>1. Prepared(K, m.from, m.h, m.v) BY <1>2 DEF Prepared
  <2>2. Proposal(K, m.h, m.v, m.b) BY <1>4, <1>7 DEF MessageOK, Proposal
  <2> QED BY <2>1, <2>2 DEF Vote
<1> QED BY <1>1, <1>5, <1>6, <1>8 DEF RecoveryOK, PayloadSound, K

(* A nonempty set of validators has a least element.                       *)
LEMMA LeastValidator ==
    ASSUME NEW S \in SUBSET Validators, S # {}
    PROVE  \E j \in S : \A k \in S : j <= k
<1>1. S \subseteq Nat BY NAssumption DEF Validators
<1>2. PICK j \in S : \A k \in S : ~(<<k, j>> \in OpToRel(<, Nat))
  BY <1>1, NatLessThanWellFounded, WFMin
<1>3. ASSUME NEW k \in S PROVE ~(k < j)
  <2>1. <<k, j>> \in Nat \X Nat BY <1>1
  <2>2. k < j => <<k, j>> \in OpToRel(<, Nat) BY <2>1, Zenon DEF OpToRel
  <2> QED BY <1>2, <2>2
<1>4. \A k \in S : k \in Nat /\ j \in Nat BY <1>1
<1> QED BY <1>3, <1>4

(* The hash of the responses, whatever view the receiver is in.            *)
LEMMA HashIs ==
    ASSUME NEW m, RecoveryOK(m), NEW c \in NodeType
    PROVE  PreparationHash(c, m) \in Payloads
<1> DEFINE S == {k \in Validators : m.prep[k] # None}
           least == CHOOSE a \in S : \A k \in S : a <= k
<1>1. m.h \in Nat /\ m.v \in Nat /\ m.prep \in [Validators -> Payloads] /\ m.isReq \in BOOLEAN
  BY DEF Message, RecoveryOK
<1>2. Primary(c) \in Validators BY PrimaryType DEF NodeType, Primary
<1>3. [h |-> m.h, v |-> m.v, n |-> MaxRestarts + 1] \in Payloads
  BY <1>1, BoundsAssumption DEF Payloads, Block
<1>4. CASE S = {} BY <1>4 DEF PreparationHash, Payloads
<1>5. CASE S # {}
  <2>1. \E a \in S : \A k \in S : a <= k BY <1>5, LeastValidator
  <2>2. least \in S BY <2>1
  <2>3. m.prep[least] \in Payloads BY <1>1, <2>2
  <2>4. m.prep[Primary(c)] \in Payloads BY <1>1, <1>2
  <2>5. \/ PreparationHash(c, m) = None
        \/ PreparationHash(c, m) = m.prep[least]
        \/ PreparationHash(c, m) = m.prep[Primary(c)]
        \/ PreparationHash(c, m) = [h |-> m.h, v |-> m.v, n |-> MaxRestarts + 1]
    BY DEF PreparationHash
  <2> HIDE DEF least
  <2> QED BY <1>3, <2>3, <2>4, <2>5 DEF Payloads
<1> QED BY <1>4, <1>5

(* A payload rebuilt from a recovery message: the responses share a hash,  *)
(* but each names a validator that prepared in that view.                  *)
LEMMA PayloadOK ==
    ASSUME NEW m, RecoveryOK(m), NEW phase \in {"cv", "resp", "commit"},
           NEW hash \in Payloads, NEW j \in Todo(m, hash, phase)
    PROVE  PayloadSound(Sent, Payload(m, hash, phase, j))
<1> DEFINE p == Payload(m, hash, phase, j)
           K == Sent
<1>1. Recoverable(K, m) BY DEF RecoveryOK
<1>2. /\ m.h \in Nat /\ m.v \in Nat
      /\ m.prep \in [Validators -> Payloads] /\ m.isReq \in BOOLEAN
      /\ m.lastcv \in [Validators -> Nat] /\ m.cmt \in [Validators -> CommitPayloads]
  BY DEF Message, RecoveryOK
<1>3. CASE phase = "cv"
  <2>1. j \in Validators /\ m.lastcv[j] # 0 BY <1>3 DEF Todo
  <2>2. m.lastcv[j] - 1 \in Nat BY <1>2, <2>1
  <2>3. p = ChangeView(j, m.h, m.lastcv[j] - 1) BY <1>3 DEF Payload
  <2>4. p \in Message /\ p.type = "ChangeView"
    BY <1>2, <2>1, <2>2, <2>3 DEF ChangeView, Message
  <2> QED BY <2>4 DEF PayloadSound
<1>4. CASE phase = "resp"
  <2>1. j \in Validators /\ m.prep[j] # None /\ hash # None BY <1>4 DEF Todo
  <2>2. hash \in Block BY <2>1 DEF Payloads
  <2> HIDE DEF K
  <2>3. Prepared(K, j, m.h, m.v) BY <1>1, <2>1 DEF Recoverable, Vote
  <2>4. p = PrepareResponse(j, m.h, m.v, hash) BY <1>4 DEF Payload
  <2>5. p \in Message /\ p.type = "PrepareResponse" /\ p.from = j /\ p.h = m.h /\ p.v = m.v
    BY <1>2, <2>1, <2>2, <2>4 DEF PrepareResponse, Message
  <2> QED BY <2>3, <2>5 DEF PayloadSound, K
<1>5. CASE phase = "commit"
  <2>1. j \in Validators /\ m.cmt[j] # None BY <1>5 DEF Todo
  <2>2. m.cmt[j].b \in Block BY <1>2, <2>1 DEF CommitPayloads
  <2>3. p = Commit(j, m.h, m.v, m.cmt[j].b) BY <1>5 DEF Payload
  <2>4. Signed(K, j, m.h, m.cmt[j].b) BY <1>1, <2>1 DEF Recoverable
  <2>5. /\ p \in Message /\ p.type = "Commit" /\ p.from = j /\ p.h = m.h /\ p.b = m.cmt[j].b
    BY <1>2, <2>1, <2>2, <2>3 DEF Commit, Message
  <2> QED BY <2>4, <2>5 DEF PayloadSound
<1> QED BY <1>3, <1>4, <1>5

(* The invariant holds initially.                                          *)
LEMMA InitOK == Init => IInv
<1> SUFFICES ASSUME Init PROVE IInv OBVIOUS
<1> DEFINE z == NewContext(<<>>, 0, {})
<1>1. z.sent = {} /\ z.chain = <<>> /\ z.inc = 0 BY DEF NewContext
<1>2. z \in NodeType
  <2>1. /\ NoPayloads \in [Validators -> Payloads]
        /\ NoPayloads \in [Validators -> CommitPayloads]
        /\ NoChangeViews \in [Validators -> Nat]
        /\ [j \in Validators |-> [h |-> 0, v |-> 0]] \in [Validators -> [h : Nat, v : Nat]]
    BY DEF NoPayloads, NoChangeViews, Payloads, CommitPayloads
  <2> QED BY <2>1 DEF NodeType, NewContext
<1> HIDE DEF z
<1>3. ASSUME NEW i \in Validators
      PROVE  /\ Own(z, i, {}) /\ ChainOK(z, {} \cup z.sent) /\ SentOK(z, i, {} \cup z.sent)
             /\ z = NewContext(z.chain, 0, z.sent)
  <2>1. z = NewContext(z.chain, 0, z.sent) BY <1>1 DEF z
  <2>2. ChainOK(z, {} \cup z.sent)
    <3>1. 1 .. Len(z.chain) = {} BY <1>1
    <3> QED BY <3>1 DEF ChainOK
  <2> QED BY <1>1, <2>1, <2>2 DEF Own, SentOK
<1>4. ASSUME NEW i \in Validators
      PROVE  /\ NodeInv(node[i], i, {})
             /\ i \notin Alive => node[i].sent = {}
  <2>1. CASE i \in Alive
    <3>1. node[i] = Start(i, z.chain, 0, z.sent) BY <1>1, <2>1 DEF Init
    <3>2. 0 \in Nat /\ 0 >= z.inc BY <1>1
    <3>3. NodeInv(Start(i, z.chain, 0, z.sent), i, {}) BY <1>1, <1>2, <1>3, <3>2, StartOK
    <3> QED BY <2>1, <3>1, <3>3
  <2>2. CASE i \notin Alive
    <3> DEFINE d == [z EXCEPT !.up = FALSE]
    <3>1. node[i] = d BY <2>2 DEF Init, z
    <3>2. 0 \in Nat /\ 0 >= z.inc BY <1>1
    <3>3. NodeInv(NewContext(z.chain, 0, z.sent), i, {})
      BY <1>1, <1>2, <1>3, <3>2, NewContextOK
    <3>4. NodeInv(z, i, {}) BY <1>3, <3>3
    <3>5. d \in NodeType BY <1>2 DEF NodeType
    <3>6. /\ d.sent = z.sent /\ d.BlockIndex = z.BlockIndex /\ d.ViewNumber = z.ViewNumber
          /\ d.prep = z.prep /\ d.isReq = z.isReq /\ d.cmt = z.cmt /\ d.hasAll = z.hasAll
          /\ d.missing = z.missing /\ d.chain = z.chain /\ d.inc = z.inc
      BY <1>2 DEF NodeType
    <3> HIDE DEF d
    <3>7. NodeInv(d, i, {}) BY <3>4, <3>5, <3>6, FrameOK
    <3> QED BY <1>1, <3>1, <3>6, <3>7
  <2> QED BY <2>1, <2>2
<1>5. ASSUME NEW i \in Validators PROVE NodeInv(node[i], i, Sent)
  <2>1. ASSUME NEW l \in Validators, NEW m \in node[l].sent PROVE m.from = l
    <3>1. NodeInv(node[l], l, {}) BY <1>4
    <3> QED BY <3>1 DEF NodeInv, SentOK
  <2>2. Own(node[i], i, Sent) BY <2>1 DEF Own, Sent
  <2> QED BY <1>4, <2>2, MoreSent
<1>6. \A i \in Validators : node[i] \in NodeType BY <1>5 DEF NodeInv, NodeOK
<1>7. node \in [Validators -> NodeType] BY <1>6 DEF Init
<1>8. LoopOK BY DEF Init, LoopOK
<1> QED BY <1>4, <1>5, <1>7, <1>8 DEF IInv, NodesOK

-----------------------------------------------------------------------------

(* One lemma per action: a received message.                               *)
LEMMA ReceiveOK ==
    ASSUME IInv, NEW i \in Validators, Receive(i) PROVE IInv'
<1>0. PICK j \in Validators \ {i} : \E m \in node[j].sent, e \in Env(i) :
        m.type # "RecoveryMessage" /\ node' = [node EXCEPT ![i] = OnReceive(node[i], i, m, e)]
  BY DEF Receive
<1>1. PICK m \in node[j].sent, e \in Env(i) :
        m.type # "RecoveryMessage" /\ node' = [node EXCEPT ![i] = OnReceive(node[i], i, m, e)]
  BY <1>0
<1>2. i \in Alive /\ recovery' = recovery BY DEF Receive, Running
<1>3. PayloadSound(Sent, m) BY <1>1, SentSound DEF IInv
<1>4. NodeInv(node[i], i, Sent) BY DEF IInv, NodesOK
<1>5. Sent = Sent \cup node[i].sent BY DEF Sent
<1>6. /\ NodeInv(OnReceive(node[i], i, m, e), i, Sent)
      /\ node[i].sent \subseteq OnReceive(node[i], i, m, e).sent
  BY <1>3, <1>4, <1>5, OnReceiveOK
<1>7. NodesOK' /\ Sent \subseteq Sent' BY <1>1, <1>2, <1>6, NodeStep DEF IInv
<1> QED BY <1>2, <1>7, LoopKept DEF IInv

(* The loop record of the next phase.                                      *)
LEMMA NextPhaseOK ==
    ASSUME NEW i \in Alive, NEW m, RecoveryOK(m), Sent \subseteq Sent',
           NEW hash \in Payloads, NEW phase \in {"cv", "resp", "commit"}, NEW todo,
           todo = {} \/ todo = Todo(m, hash, phase),
           recovery' = Loop(i, m, hash, phase, todo)
    PROVE  LoopOK'
<1>1. m \in Message /\ m.type = "RecoveryMessage" /\ Recoverable(Sent', m) BY RecoveryKept
<1>2. todo \subseteq Validators /\ todo \subseteq Todo(m, hash, phase) BY DEF Todo
<1>3. i \in Validators BY SetsAssumption
<1>4. /\ recovery'.node = i /\ recovery'.m = m /\ recovery'.hash = hash /\ recovery'.phase = phase
      /\ recovery'.todo = todo /\ recovery' \in LoopType
  BY <1>1, <1>2, <1>3 DEF Loop, LoopType
<1>5. RecoveryOK(recovery.m)' BY <1>1, <1>4 DEF RecoveryOK
<1>6. (recovery.todo \subseteq Todo(recovery.m, recovery.hash, recovery.phase))' BY <1>2, <1>4 DEF Todo
<1> QED BY <1>4, <1>5, <1>6 DEF LoopOK

(* A recovery loop starts.                                                 *)
LEMMA OnRecoveryMessageOK ==
    ASSUME IInv, NEW i \in Validators, OnRecoveryMessage(i) PROVE IInv'
<1> DEFINE hash(m) == PreparationHash(node[i], m)
           Starts(m) ==
             /\ m.type = "RecoveryMessage"
             /\ node' = [node EXCEPT ![i] = Seen(node[i], m)]
             /\ \/ recovery' = None
                \/ recovery' = Loop(i, m, hash(m), "cv", Todo(m, hash(m), "cv"))
                \/ recovery' = Loop(i, m, hash(m), "cv", {})
<1>0. PICK j \in Validators \ {i} : \E m \in node[j].sent : Starts(m)
  BY DEF OnRecoveryMessage
<1>1. PICK m \in node[j].sent : Starts(m) BY <1>0
<1>2. i \in Alive BY DEF OnRecoveryMessage, Running
<1>3. RecoveryOK(m) /\ m \in Message BY <1>1, SentSound DEF IInv, RecoveryOK
<1>4. NodeInv(node[i], i, Sent) BY DEF IInv, NodesOK
<1>5. NodeInv(Seen(node[i], m), i, Sent) /\ Seen(node[i], m).sent = node[i].sent
  BY <1>3, <1>4, SeenOK
<1>6. NodesOK' /\ Sent \subseteq Sent' BY <1>1, <1>2, <1>5, NodeStep DEF IInv
<1>h. hash(m) \in Payloads BY <1>3, HashIs DEF IInv, NodesOK
<1> HIDE DEF hash
<1>7. LoopOK'
  <2>1. CASE recovery' = None BY <2>1 DEF LoopOK
  <2>2. CASE recovery' = Loop(i, m, hash(m), "cv", Todo(m, hash(m), "cv"))
    BY <1>2, <1>3, <1>6, <1>h, <2>2, NextPhaseOK
  <2>3. CASE recovery' = Loop(i, m, hash(m), "cv", {})
    BY <1>2, <1>3, <1>6, <1>h, <2>3, NextPhaseOK
  <2> QED BY <1>1, <2>1, <2>2, <2>3
<1> QED BY <1>6, <1>7 DEF IInv

(* One payload of a recovery loop.                                         *)
LEMMA RecoverPayloadOK ==
    ASSUME IInv, RecoverPayload PROVE IInv'
<1> DEFINE i == recovery.node
<1>1. PICK j \in recovery.todo, e \in Env(i) :
        /\ node' = [node EXCEPT
              ![i] = OnReceive(@, i, Payload(recovery.m, recovery.hash, recovery.phase, j), e)]
        /\ recovery' = IF node'[i].up THEN [recovery EXCEPT !.todo = @ \ {j}] ELSE None
  BY DEF RecoverPayload
<1> DEFINE m == Payload(recovery.m, recovery.hash, recovery.phase, j)
<1>2. /\ recovery # None /\ recovery \in LoopType /\ RecoveryOK(recovery.m) /\ i \in Alive
      /\ recovery.todo \subseteq Todo(recovery.m, recovery.hash, recovery.phase)
  BY DEF RecoverPayload, IInv, LoopOK
<1>3. i \in Validators BY <1>2 DEF LoopType
<1>4. recovery.phase \in {"cv", "resp", "commit"} /\ recovery.hash \in Payloads BY <1>2 DEF LoopType
<1>5. PayloadSound(Sent, m) BY <1>2, <1>4, PayloadOK
<1>6. NodeInv(node[i], i, Sent) /\ node \in [Validators -> NodeType]
  BY <1>3 DEF IInv, NodesOK
<1>7. node' = [node EXCEPT ![i] = OnReceive(node[i], i, m, e)] BY <1>1, <1>3, <1>6
<1> HIDE DEF m, i
<1>8. Sent = Sent \cup node[i].sent BY <1>3 DEF Sent
<1>9. /\ NodeInv(OnReceive(node[i], i, m, e), i, Sent)
      /\ node[i].sent \subseteq OnReceive(node[i], i, m, e).sent
  BY <1>3, <1>5, <1>6, <1>8, OnReceiveOK
<1>10. NodesOK' /\ Sent \subseteq Sent' BY <1>2, <1>7, <1>9, NodeStep DEF IInv
<1>11. LoopOK'
  <2>1. CASE recovery' = None BY <2>1 DEF LoopOK
  <2>2. CASE recovery' = [recovery EXCEPT !.todo = recovery.todo \ {j}]
    <3>1. /\ recovery'.m = recovery.m /\ recovery'.hash = recovery.hash
          /\ recovery'.phase = recovery.phase
          /\ recovery'.todo = recovery.todo \ {j} /\ recovery'.node = recovery.node
      BY <1>2, <2>2 DEF LoopType
    <3>2. recovery' \in LoopType BY <1>2, <2>2 DEF LoopType
    <3>3. Recoverable(Sent', recovery.m) BY <1>2, <1>10, RecoveryKept
    <3>4. RecoveryOK(recovery.m)' BY <1>2, <3>1, <3>3 DEF RecoveryOK
    <3>5. (recovery.todo \subseteq Todo(recovery.m, recovery.hash, recovery.phase))'
      BY <1>2, <3>1 DEF Todo
    <3> QED BY <1>2, <3>1, <3>2, <3>4, <3>5 DEF LoopOK, i
  <2>3. recovery' = None \/ recovery' = [recovery EXCEPT !.todo = recovery.todo \ {j}]
    BY <1>1, <1>2 DEF LoopType
  <2> QED BY <2>1, <2>2, <2>3
<1> QED BY <1>10, <1>11 DEF IInv

(* The PrepareRequest of a recovery loop.                                  *)
LEMMA RecoverPreparationsOK ==
    ASSUME IInv, RecoverPreparations PROVE IInv'
<1> DEFINE i == recovery.node
           m == recovery.m
           hash == recovery.hash
           c == node[i]
           p == Primary(c)
           req == PrepareRequest(p, m.h, m.v, m.prep[p])
<1>1. recovery # None /\ recovery \in LoopType /\ RecoveryOK(m) /\ i \in Alive
  BY DEF RecoverPreparations, IInv, LoopOK
<1>2. i \in Validators /\ m \in Message /\ hash \in Payloads BY <1>1 DEF LoopType
<1>3. NodeInv(c, i, Sent) /\ c \in NodeType BY <1>2 DEF IInv, NodesOK
<1>4. CASE UNCHANGED node /\ recovery' = Loop(i, m, hash, "resp", {})
  <2>1. NodesOK' /\ Sent \subseteq Sent' BY <1>4 DEF IInv, NodesOK, Sent
  <2>2. LoopOK' BY <1>1, <1>2, <1>4, <2>1, NextPhaseOK
  <2> QED BY <2>1, <2>2 DEF IInv
<1>5. ASSUME NEW e \in Env(i), NEW d,
             \/ d = c
             \/ m.v = c.ViewNumber /\ m.isReq /\ d = OnReceive(c, i, req, e)
             \/ i = p /\ d = SendPrepareRequest(c, i, e),
             node' = [node EXCEPT ![i] = d],
             recovery' = Loop(i, m, hash, "resp", Todo(m, hash, "resp"))
      PROVE  IInv'
  <2>1. NodeInv(d, i, Sent) /\ c.sent \subseteq d.sent
    <3>1. CASE d = c BY <1>3, <3>1
    <3>2. CASE m.v = c.ViewNumber /\ m.isReq /\ d = OnReceive(c, i, req, e)
      <4>1. CASE m.h # c.BlockIndex
        <5>1. req.h = m.h BY DEF PrepareRequest
        <5>2. d = c BY <3>2, <4>1, <5>1 DEF OnReceive, IsCurrent
        <5> QED BY <3>1, <5>2
      <4>2. CASE m.h = c.BlockIndex
        <5>1. p = GetPrimaryIndex(m.h, m.v) BY <3>2, <4>2 DEF Primary
        <5>2. p \in Validators BY <1>3, PrimaryType DEF Primary, NodeType
        <5>3. Recoverable(Sent, m) BY <1>1 DEF RecoveryOK
        <5>4. m.prep[p] # None BY <3>2, <5>1, <5>3 DEF Recoverable
        <5>5. Vote(Sent, p, m.h, m.v, m.prep[p]) BY <5>2, <5>3, <5>4 DEF Recoverable
        <5>6. m.prep \in [Validators -> Payloads] /\ m.h \in Nat /\ m.v \in Nat
          BY <1>1, <1>2 DEF Message, RecoveryOK
        <5>7. m.prep[p] \in Block BY <5>2, <5>4, <5>6 DEF Payloads
        <5>8. Sent = Sent \cup c.sent BY <1>2 DEF Sent
        <5> HIDE DEF p, m, i, c
        <5>9. /\ req \in Message /\ req.type = "PrepareRequest" /\ req.from = p /\ req.h = m.h
              /\ req.v = m.v /\ req.b = m.prep[p]
          BY <5>2, <5>6, <5>7 DEF PrepareRequest, Message
        <5> HIDE DEF req
        <5>10. PayloadSound(Sent, req) BY <5>5, <5>9 DEF PayloadSound
        <5> QED BY <1>2, <1>3, <3>2, <5>8, <5>10, OnReceiveOK
      <4> QED BY <4>1, <4>2
    <3>3. CASE i = p /\ d = SendPrepareRequest(c, i, e)
      BY <1>2, <1>3, <3>3, SendPrepareRequestOK
    <3> QED BY <1>5, <3>1, <3>2, <3>3
  <2>2. NodesOK' /\ Sent \subseteq Sent' BY <1>1, <1>5, <2>1, NodeStep DEF IInv
  <2>3. LoopOK' BY <1>1, <1>2, <1>5, <2>2, NextPhaseOK
  <2> QED BY <2>2, <2>3 DEF IInv
<1>6. CASE m.v # c.ViewNumber \/ NotAcceptingPayloads(c, i) \/ CommitSent(c, i)
  BY <1>4, <1>6 DEF RecoverPreparations
<1>7. CASE ~(m.v # c.ViewNumber \/ NotAcceptingPayloads(c, i) \/ CommitSent(c, i))
  <2> DEFINE D(e) == IF RequestSentOrReceived(c) THEN c
                     ELSE IF m.isReq THEN OnReceive(c, i, req, e)
                     ELSE IF i = p THEN SendPrepareRequest(c, i, e)
                     ELSE c
  <2>1. PICK e \in Env(i) : node' = [node EXCEPT ![i] = D(e)]
    BY <1>7 DEF RecoverPreparations
  <2>2. recovery' = Loop(i, m, hash, "resp", Todo(m, hash, "resp")) BY <1>7 DEF RecoverPreparations
  <2>3. \/ D(e) = c
        \/ m.v = c.ViewNumber /\ m.isReq /\ D(e) = OnReceive(c, i, req, e)
        \/ i = p /\ D(e) = SendPrepareRequest(c, i, e)
    BY <1>7
  <2> HIDE DEF D, i, m, hash, c, p, req
  <2> QED BY <1>5, <2>1, <2>2, <2>3
<1> QED BY <1>6, <1>7

(* The commits of a recovery loop are next.                                *)
LEMMA RecoverCommitsOK ==
    ASSUME IInv, RecoverCommits PROVE IInv'
<1>1. UNCHANGED node /\ recovery # None BY DEF RecoverCommits
<1>2. NodesOK' /\ Sent \subseteq Sent' BY <1>1 DEF IInv, NodesOK, Sent
<1>3. recovery.node \in Alive /\ RecoveryOK(recovery.m) /\ recovery.hash \in Payloads
  BY <1>1 DEF IInv, LoopOK, LoopType
<1>4. \/ recovery' = None
      \/ recovery' = Loop(recovery.node, recovery.m, recovery.hash, "commit",
                          Todo(recovery.m, recovery.hash, "commit"))
  BY DEF RecoverCommits
<1>5. CASE recovery' = None BY <1>2, <1>5 DEF IInv, LoopOK
<1>6. CASE recovery' = Loop(recovery.node, recovery.m, recovery.hash, "commit",
                          Todo(recovery.m, recovery.hash, "commit"))
  BY <1>2, <1>3, <1>6, NextPhaseOK DEF IInv
<1> QED BY <1>4, <1>5, <1>6

(* A timeout changes the view only of a node that has not committed.       *)
LEMMA OnTimeoutOK ==
    ASSUME IInv, NEW i \in Validators, OnTimeout(i) PROVE IInv'
<1> DEFINE c == node[i]
           D(e) == IF i = Primary(c) /\ ~RequestSentOrReceived(c) THEN SendPrepareRequest(c, i, e)
                   ELSE IF CommitSent(c, i) THEN SendRecoveryMessage(c, i)
                   ELSE SendChangeView(c, i, e)
<1>1. PICK e \in Env(i) : node' = [node EXCEPT ![i] = D(e)] BY DEF OnTimeout
<1>2. NodeInv(c, i, Sent) /\ i \in Alive /\ recovery' = recovery
  BY DEF IInv, NodesOK, OnTimeout, Running
<1>3. NodeInv(D(e), i, Sent) /\ c.sent \subseteq D(e).sent
  <2>1. \/ i = Primary(c) /\ D(e) = SendPrepareRequest(c, i, e)
        \/ D(e) = SendRecoveryMessage(c, i)
        \/ c.cmt[i] = None /\ D(e) = SendChangeView(c, i, e)
    BY DEF CommitSent
  <2> HIDE DEF c, D
  <2>2. CASE i = Primary(c) /\ D(e) = SendPrepareRequest(c, i, e)
    BY <1>2, <2>2, SendPrepareRequestOK
  <2>3. CASE D(e) = SendRecoveryMessage(c, i) BY <1>2, <2>3, SendRecoveryMessageOK
  <2>4. CASE c.cmt[i] = None /\ D(e) = SendChangeView(c, i, e)
    BY <1>2, <2>4, SendChangeViewOK
  <2> QED BY <2>1, <2>2, <2>3, <2>4
<1> HIDE DEF D
<1>4. NodesOK' /\ Sent \subseteq Sent' BY <1>1, <1>2, <1>3, NodeStep DEF IInv
<1> QED BY <1>2, <1>4, LoopKept DEF IInv

(* A steady node never misses a transaction, so only the others get here.  *)
LEMMA OnTransactionOK ==
    ASSUME IInv, NEW i \in Validators, OnTransaction(i) PROVE IInv'
<1> DEFINE c == node[i]
           a == [c EXCEPT !.hasAll = TRUE]
           r(e) == Respond(a, i, e)
           D(e) == IF r(e).missing THEN [r(e) EXCEPT !.missing = FALSE] ELSE r(e)
<1>1. PICK e \in Env(i) : node' = [node EXCEPT ![i] = D(e)] BY DEF OnTransaction
<1>2. /\ NodeInv(c, i, Sent) /\ c \in NodeType /\ i \in Alive /\ recovery' = recovery
  BY DEF IInv, NodesOK, OnTransaction, Running
<1>3. c.missing /\ RequestSentOrReceived(c) BY DEF OnTransaction
<1>4. ~Steady(c, i) BY <1>2, <1>3 DEF NodeInv, Locked
<1> HIDE DEF c
<1>5. a \in NodeType BY <1>2 DEF NodeType
<1>6. /\ a.sent = c.sent /\ a.BlockIndex = c.BlockIndex /\ a.ViewNumber = c.ViewNumber
      /\ a.prep = c.prep /\ a.isReq = c.isReq /\ a.cmt = c.cmt /\ a.hasAll = TRUE
      /\ a.missing = c.missing /\ a.chain = c.chain /\ a.inc = c.inc
  BY <1>2 DEF NodeType
<1> HIDE DEF a
<1>7. NodeInv(a, i, Sent) BY <1>2, <1>5, <1>6, FrameOK
<1>8. RequestSentOrReceived(a) /\ ~Steady(a, i)
  BY <1>3, <1>4, <1>6 DEF RequestSentOrReceived, Primary, Steady
<1>9. NodeInv(r(e), i, Sent) /\ a.sent \subseteq r(e).sent
  BY <1>7, <1>8, RespondOK
<1>10. NodeInv(D(e), i, Sent) /\ D(e).sent = r(e).sent
  <2> DEFINE x == r(e)
             y == [x EXCEPT !.missing = FALSE]
  <2>1. D(e) = x \/ D(e) = y OBVIOUS
  <2>2. x \in NodeType /\ NodeInv(x, i, Sent) BY <1>9 DEF NodeInv, NodeOK
  <2> HIDE DEF x, D
  <2>3. y \in NodeType BY <2>2 DEF NodeType
  <2>4. /\ y.sent = x.sent /\ y.BlockIndex = x.BlockIndex /\ y.ViewNumber = x.ViewNumber
        /\ y.prep = x.prep /\ y.isReq = x.isReq /\ y.cmt = x.cmt /\ y.hasAll = x.hasAll
        /\ y.missing = FALSE /\ y.chain = x.chain /\ y.inc = x.inc
    BY <2>2 DEF NodeType
  <2> HIDE DEF y
  <2>5. NodeInv(y, i, Sent) BY <2>2, <2>3, <2>4, FrameOK
  <2>6. CASE D(e) = x BY <2>2, <2>6 DEF x
  <2>7. CASE D(e) = y BY <2>4, <2>5, <2>7 DEF x
  <2> QED BY <2>1, <2>6, <2>7
<1> HIDE DEF D, r
<1>11. node[i].sent \subseteq D(e).sent BY <1>6, <1>9, <1>10 DEF c
<1>12. NodesOK' /\ Sent \subseteq Sent' BY <1>1, <1>2, <1>10, <1>11, NodeStep DEF IInv
<1> QED BY <1>2, <1>12, LoopKept DEF IInv

(* A block from the network was accepted by another ledger.                *)
LEMMA SyncBlockOK ==
    ASSUME IInv, NEW i \in Validators, SyncBlock(i) PROVE IInv'
<1> DEFINE c == node[i]
           h == Len(c.chain) + 1
<1>1. /\ c \in NodeType /\ NodeInv(c, i, Sent) /\ node \in [Validators -> NodeType]
      /\ i \in Alive /\ recovery' = recovery
  BY DEF IInv, NodesOK, SyncBlock
<1>2. PICK j \in Validators :
        /\ Len(node[j].chain) > Len(c.chain)
        /\ node' = [node EXCEPT ![i].chain = Append(@, node[j].chain[Len(c.chain) + 1])]
  BY DEF SyncBlock
<1> DEFINE b == node[j].chain[h]
           d == [c EXCEPT !.chain = Append(c.chain, b)]
<1>3. node' = [node EXCEPT ![i] = d] BY <1>1, <1>2 DEF NodeType
<1>4. node[j].chain \in Seq(Block) /\ c.chain \in Seq(Block) BY <1>1 DEF NodeType
<1>5. h \in 1 .. Len(node[j].chain) BY <1>2, <1>4
<1>6. b \in Block BY <1>4, <1>5
<1>7. Sent = Sent \cup node[j].sent /\ Sent = Sent \cup c.sent BY DEF Sent
<1>8. ChainOK(node[j], Sent) BY <1>7 DEF IInv, NodesOK, NodeInv
<1>9. Accepted(Sent \cup c.sent, h, b) BY <1>5, <1>7, <1>8 DEF ChainOK
<1> HIDE DEF b, c
<1>10. NodeInv(d, i, Sent) /\ d.sent = c.sent
  <2>1. NodeInv(c, i, Sent) /\ Accepted(Sent \cup c.sent, Len(c.chain) + 1, b) BY <1>1, <1>9
  <2> HIDE DEF h, d
  <2>2. /\ NodeInv([c EXCEPT !.chain = Append(c.chain, b)], i, Sent)
        /\ [c EXCEPT !.chain = Append(c.chain, b)].sent = c.sent
    BY <1>6, <2>1, LedgerGrows, ZenonT(60)
  <2> QED BY <2>2 DEF d
<1> HIDE DEF d
<1>11. NodesOK' /\ Sent \subseteq Sent' BY <1>1, <1>3, <1>10, NodeStep DEF IInv, c
<1> QED BY <1>1, <1>11, LoopKept DEF IInv

(* The context is reset once the ledger is ahead of it.                    *)
LEMMA HandleChainBlockOK ==
    ASSUME IInv, NEW i \in Validators, HandleChainBlock(i) PROVE IInv'
<1> DEFINE c == node[i]
           d == Reset(c, i, 0)
<1>1. /\ NodeInv(c, i, Sent) /\ Len(c.chain) >= c.BlockIndex
      /\ i \in Alive /\ recovery' = recovery
  BY DEF IInv, NodesOK, HandleChainBlock
<1>2. node' = [node EXCEPT ![i] = d] BY DEF HandleChainBlock, InitializeConsensus
<1>3. 0 \in Nat OBVIOUS
<1>4. NodeInv(Reset(c, i, 0), i, Sent) /\ Reset(c, i, 0).sent = c.sent
  BY <1>1, <1>3, ResetOK
<1>5. NodesOK' /\ Sent \subseteq Sent' BY <1>1, <1>2, <1>4, NodeStep DEF IInv
<1> QED BY <1>1, <1>5, LoopKept DEF IInv

(* A restart is no step of a steady node.                                  *)
LEMMA RestartOK ==
    ASSUME IInv, NEW i \in Validators, Restart(i) PROVE IInv'
<1> DEFINE c == node[i]
           n == c.inc + 1
           d == Start(i, c.chain, n, c.sent)
<1>1. /\ c \in NodeType /\ NodeInv(c, i, Sent) /\ node \in [Validators -> NodeType]
      /\ i \in Alive /\ recovery' = recovery
  BY SetsAssumption DEF IInv, NodesOK, Restart
<1>2. node' = [node EXCEPT ![i] = d] BY <1>1 DEF Restart
<1>3. n \in Nat /\ n # 0 /\ n >= c.inc BY <1>1 DEF NodeType
<1>4. Own(c, i, Sent) /\ ChainOK(c, Sent \cup c.sent) /\ SentOK(c, i, Sent \cup c.sent)
  BY <1>1 DEF NodeInv
<1> HIDE DEF c, n
<1>5. NodeInv(d, i, Sent) /\ c.sent \subseteq d.sent BY <1>1, <1>3, <1>4, StartOK
<1>6. NodesOK' /\ Sent \subseteq Sent' BY <1>1, <1>2, <1>5, NodeStep DEF IInv, c
<1> QED BY <1>1, <1>6, LoopKept DEF IInv

-----------------------------------------------------------------------------

(* Every step keeps the invariant.                                         *)
LEMMA NextOK == IInv /\ [Next]_vars => IInv'
<1> SUFFICES ASSUME IInv, [Next]_vars PROVE IInv' OBVIOUS
<1>1. CASE UNCHANGED vars
  BY <1>1 DEF vars, IInv, NodesOK, LoopOK, Sent, RecoveryOK
<1>2. ASSUME NEW i \in Validators,
             \/ Receive(i) \/ OnRecoveryMessage(i)
             \/ OnTimeout(i) \/ OnTransaction(i)
             \/ SyncBlock(i) \/ HandleChainBlock(i) \/ Restart(i)
      PROVE  IInv'
  BY <1>2, ReceiveOK, OnRecoveryMessageOK, OnTimeoutOK, OnTransactionOK, SyncBlockOK,
     HandleChainBlockOK, RestartOK
<1>3. CASE RecoverPayload BY <1>3, RecoverPayloadOK
<1>4. CASE RecoverPreparations BY <1>4, RecoverPreparationsOK
<1>5. CASE RecoverCommits BY <1>5, RecoverCommitsOK
<1>6. CASE RecoverDone
  <2>1. UNCHANGED node /\ recovery' = None BY <1>6 DEF RecoverDone
  <2> QED BY <2>1 DEF IInv, NodesOK, LoopOK, Sent
<1> QED BY <1>1, <1>2, <1>3, <1>4, <1>5, <1>6 DEF Next

(* IInv is an inductive invariant of the consensus.                        *)
THEOREM Inductive == Spec => []IInv
BY InitOK, NextOK, PTL DEF Spec

(* Type correctness: for every number of validators, every choice of       *)
(* crashing, refusing and lagging ones and every bound, no handler stores  *)
(* or sends a nil payload, and no header without a proposal is signed.     *)
THEOREM TypeCorrect == Spec => []TypeOK
<1>1. IInv => TypeOK BY DEF IInv, NodesOK, LoopOK, TypeOK
<1> QED BY <1>1, Inductive, PTL

(* A validator that keeps its context and has the proposed transactions    *)
(* signs at most one block per height (makeCommit, onChangeView, reset).   *)
THEOREM OneCommit == Spec => []OneCommitPerHeight
<1>1. IInv => OneCommitPerHeight
  <2> SUFFICES ASSUME IInv, NEW i \in Validators, Steady(node[i], i),
                      NEW m1 \in Commits(i), NEW m2 \in Commits(i), m1.h = m2.h
               PROVE  m1.b = m2.b
    BY DEF OneCommitPerHeight
  <2>1. Locked(node[i], i) BY DEF IInv, NodesOK, NodeInv
  <2> QED BY <2>1 DEF Locked, Commits
<1> QED BY <1>1, Inductive, PTL

(* A message that is out was sent by the validator it names.               *)
LEMMA Sender ==
    ASSUME NodesOK, NEW m \in Sent
    PROVE  m.from \in Validators /\ m \in node[m.from].sent /\ m.from \in Alive
<1>1. PICK l \in Validators : m \in node[l].sent BY DEF Sent
<1>2. m.from = l BY <1>1 DEF NodesOK, NodeInv, SentOK
<1> QED BY <1>1, <1>2 DEF NodesOK

(* A node relies on what is out.                                           *)
LEMMA Relies ==
    ASSUME NodesOK, NEW i \in Validators
    PROVE  /\ PrepsOK(node[i], Sent) /\ CommitsOK(node[i], Sent)
           /\ ChainOK(node[i], Sent) /\ SentOK(node[i], i, Sent)
<1>1. Sent = Sent \cup node[i].sent BY DEF Sent
<1> QED BY <1>1 DEF NodesOK, NodeInv

(* A signature that is out.                                                *)
LEMMA SignedOut ==
    ASSUME NodesOK, NEW j, NEW h, NEW b, Signed(Sent, j, h, b)
    PROVE  j \in Alive /\ j \in Validators /\ SignedBy(j, h, b)
<1>1. PICK m \in Sent : m.type = "Commit" /\ m.from = j /\ m.h = h /\ m.b = b BY DEF Signed
<1> QED BY <1>1, Sender DEF SignedBy, Commits

(* Every commit a validator stores was signed, for that block and height,  *)
(* by the validator it is stored under, recovered payloads included.       *)
THEOREM StoredCommitsSigned == Spec => []CommitsSigned
<1>1. IInv => CommitsSigned
  <2> SUFFICES ASSUME IInv, NEW i \in Validators, NEW j \in Validators,
                      node[i].cmt[j] # None
               PROVE  SignedBy(j, node[i].BlockIndex, node[i].cmt[j].b)
    BY DEF CommitsSigned
  <2>1. NodesOK BY DEF IInv
  <2>2. Signed(Sent, j, node[i].BlockIndex, node[i].cmt[j].b) BY <2>1, Relies DEF CommitsOK
  <2> QED BY <2>1, <2>2, SignedOut
<1> QED BY <1>1, Inductive, PTL

(* A set that includes a quorum is large enough.                           *)
LEMMA QuorumIncluded ==
    ASSUME NEW Q \in Quorums, NEW S \in SUBSET Validators, Q \subseteq S
    PROVE  Cardinality(S) >= M
<1>1. IsFiniteSet(Validators) BY FS_Interval, NAssumption DEF Validators
<1>2. IsFiniteSet(S) BY <1>1, FS_Subset
<1>3. IsFiniteSet(Q) /\ Cardinality(Q) <= Cardinality(S) BY <1>2, FS_Subset
<1>4. Cardinality(Q) \in Nat /\ Cardinality(S) \in Nat BY <1>2, <1>3, FS_CardinalityType
<1> QED BY <1>3, <1>4, QuorumSize DEF Quorums

(* A proposal of a primary that never lost its context is the only one of  *)
(* its height and view.                                                    *)
LEMMA OnlyProposal ==
    ASSUME NodesOK, NEW b1 \in Block, NEW b2 \in Block, Proposed(Sent, b1), Proposed(Sent, b2),
           b1.h = b2.h, b1.v = b2.v, node[GetPrimaryIndex(b1.h, b1.v)].inc = 0
    PROVE  b1 = b2
<1> DEFINE p == GetPrimaryIndex(b1.h, b1.v)
<1>1. ASSUME NEW b \in Block, Proposed(Sent, b), b.h = b1.h, b.v = b1.v
      PROVE  b.n = 0
  <2>1. PICK m \in Sent : m.type = "PrepareRequest" /\ m.b = b /\ m.from = p
    BY <1>1 DEF Proposed
  <2>2. p \in Validators /\ m \in node[p].sent BY <2>1, Sender
  <2>3. MessageOK(Sent, node[p].inc, m) BY <2>2, Relies DEF SentOK
  <2>4. b.n \in Nat /\ b.n <= 0 BY <1>1, <2>1, <2>3 DEF MessageOK, Block
  <2> QED BY <2>4
<1>2. b1.n = 0 /\ b2.n = 0 BY <1>1
<1> QED BY <1>2 DEF Block

(* All but F validators signed at the height of a block of a ledger, and   *)
(* signed that block, unless its primary lost its context or a block of    *)
(* another view was signed at that height (checkCommit, the block queue).  *)
THEOREM AcceptedSigned == Spec => []AcceptedBacked
<1>1. IInv => AcceptedBacked
  <2> SUFFICES ASSUME IInv, NEW i \in Validators, NEW h \in DOMAIN node[i].chain
               PROVE  LET b == node[i].chain[h] IN
                 /\ Cardinality({j \in Validators : \E m \in Commits(j) : m.h = h}) >= N - F
                 /\ \/ FullySigned(h, b)
                    \/ node[GetPrimaryIndex(h, b.v)].inc # 0
                    \/ \E j \in Validators : \E m \in Commits(j) : m.h = h /\ m.b.v # b.v
    BY DEF AcceptedBacked
  <2> DEFINE b == node[i].chain[h]
             S == {j \in Validators : \E m \in Commits(j) : m.h = h}
             T == {j \in Validators : SignedBy(j, h, b)}
  <2>0. NodesOK BY DEF IInv
  <2>1. node[i].chain \in Seq(Block) BY DEF IInv, NodesOK, NodeType
  <2>2. h \in 1 .. Len(node[i].chain) /\ b \in Block BY <2>1
  <2>3. Accepted(Sent, h, b) BY <2>0, <2>2, Relies DEF ChainOK
  <2> HIDE DEF b
  <2>4. PICK Q \in Quorums : \A j \in Q : \E x \in Block : Signed(Sent, j, h, x)
    BY <2>3 DEF Accepted
  <2>5. \A j \in Q : j \in Validators /\ \E x \in Block : Signed(Sent, j, h, x) /\ SignedBy(j, h, x)
    BY <2>0, <2>4, SignedOut
  <2>6. Q \subseteq S BY <2>5 DEF SignedBy
  <2>7. S \in SUBSET Validators /\ T \in SUBSET Validators OBVIOUS
  <2> HIDE DEF S, T
  <2>8. Cardinality(S) >= N - F BY <2>4, <2>6, <2>7, QuorumIncluded DEF M
  <2>9. ASSUME node[GetPrimaryIndex(h, b.v)].inc = 0,
               \A j \in Validators : \A m \in Commits(j) : m.h = h => m.b.v = b.v
        PROVE  FullySigned(h, b)
    <3>1. ASSUME NEW j \in Q PROVE j \in T
      <4>1. PICK x \in Block : Signed(Sent, j, h, x) /\ SignedBy(j, h, x) BY <2>5
      <4>2. j \in Validators BY <2>5
      <4>3. PICK m \in Commits(j) : m.h = h /\ m.b = x BY <4>1 DEF SignedBy
      <4>4. MessageOK(Sent, node[j].inc, m) /\ m.type = "Commit"
        BY <2>0, <4>2, Relies DEF SentOK, Commits
      <4>5. Proposed(Sent, x) /\ x.h = h BY <4>3, <4>4 DEF MessageOK, Backed
      <4>6. x.v = b.v BY <2>9, <4>2, <4>3
      <4>7. b.h = h /\ Proposed(Sent, b) BY <2>3 DEF Accepted
      <4>8. x = b BY <2>0, <2>2, <2>9, <4>5, <4>6, <4>7, OnlyProposal
      <4> QED BY <4>1, <4>2, <4>8 DEF T
    <3>2. Cardinality(T) >= M BY <2>4, <2>7, <3>1, QuorumIncluded
    <3> QED BY <3>2 DEF FullySigned, M, T
  <2> QED BY <2>8, <2>9 DEF S, b
<1> QED BY <1>1, Inductive, PTL

(* A signed block was prepared by a quorum, as the block it is, if its     *)
(* primary never lost its context (checkPrepare, recoveryMessage).         *)
THEOREM CommitsPrepared == Spec => []CommitBacked
<1>1. IInv => CommitBacked
  <2> SUFFICES ASSUME IInv, NEW i \in Validators, NEW m \in Commits(i),
                      node[GetPrimaryIndex(m.b.h, m.b.v)].inc = 0
               PROVE  Cardinality({j \in Validators : \E p \in node[j].sent :
                        p.type \in {"PrepareRequest", "PrepareResponse"} /\ p.b = m.b}) >= M
    BY DEF CommitBacked
  <2> DEFINE S == {j \in Validators : \E p \in node[j].sent :
                     p.type \in {"PrepareRequest", "PrepareResponse"} /\ p.b = m.b}
  <2>0. NodesOK BY DEF IInv
  <2>1. m \in node[i].sent /\ m.type = "Commit" BY DEF Commits
  <2>2. m \in Message BY <2>0, <2>1 DEF NodesOK, NodeType
  <2>3. m.b \in Block BY <2>1, <2>2 DEF Message
  <2>4. Backed(Sent, m.b) BY <2>0, <2>1, Relies DEF SentOK, MessageOK
  <2>5. PICK Q \in Quorums : \A j \in Q : Prepared(Sent, j, m.b.h, m.b.v) BY <2>4 DEF Backed
  <2>6. Q \subseteq S
    <3> SUFFICES ASSUME NEW j \in Q PROVE j \in S OBVIOUS
    <3>1. PICK x \in Sent : /\ x.type \in {"PrepareRequest", "PrepareResponse"}
                            /\ x.from = j /\ x.h = m.b.h /\ x.v = m.b.v
      BY <2>5 DEF Prepared
    <3>2. j \in Validators /\ x \in node[j].sent BY <2>0, <3>1, Sender
    <3>3. x \in Message BY <2>0, <3>2 DEF NodesOK, NodeType
    <3>4. x.b \in Block BY <3>1, <3>3 DEF Message
    <3>5. MessageOK(Sent, node[j].inc, x) BY <2>0, <3>2, Relies DEF SentOK
    <3>6. Proposed(Sent, x.b) /\ x.b.h = m.b.h /\ x.b.v = m.b.v
      BY <3>1, <3>5 DEF MessageOK, Proposed
    <3>7. x.b = m.b BY <2>0, <2>3, <2>4, <3>4, <3>6, OnlyProposal DEF Backed
    <3> QED BY <3>1, <3>2, <3>7
  <2>7. S \in SUBSET Validators OBVIOUS
  <2> HIDE DEF S
  <2>8. Cardinality(S) >= M BY <2>5, <2>6, <2>7, QuorumIncluded
  <2> QED BY <2>8 DEF S
<1> QED BY <1>1, Inductive, PTL

(* Two quorums share a validator outside any set of at most F.             *)
LEMMA QuorumsMeet ==
    ASSUME NEW P \in Quorums, NEW Q \in Quorums, NEW B \in SUBSET Validators,
           Cardinality(B) <= F
    PROVE  \E k \in P \cap Q : k \notin B
<1>1. IsFiniteSet(Validators) /\ Cardinality(Validators) = N
  <2>1. N \in Nat /\ N - 1 \in Int /\ 0 \in Int BY NAssumption
  <2>2. /\ IsFiniteSet(0 .. (N - 1))
        /\ Cardinality(0 .. (N - 1)) = IF 0 > N - 1 THEN 0 ELSE (N - 1) - 0 + 1
    BY <2>1, FS_Interval
  <2> QED BY <2>1, <2>2, NAssumption DEF Validators
<1>2. P \subseteq Validators /\ Q \subseteq Validators /\ Cardinality(P) >= M /\ Cardinality(Q) >= M
  BY DEF Quorums
<1>3. IsFiniteSet(P) /\ IsFiniteSet(Q) /\ IsFiniteSet(B) BY <1>1, <1>2, FS_Subset
<1>4. /\ IsFiniteSet(P \cup Q) /\ IsFiniteSet(P \cap Q)
      /\ Cardinality(P \cup Q) = Cardinality(P) + Cardinality(Q) - Cardinality(P \cap Q)
  BY <1>3, FS_Union, FS_Intersection
<1>5. P \cup Q \subseteq Validators BY <1>2
<1>6. Cardinality(P \cup Q) <= N BY <1>1, <1>5, FS_Subset
<1>7. /\ Cardinality(P) \in Nat /\ Cardinality(Q) \in Nat /\ Cardinality(P \cap Q) \in Nat
      /\ Cardinality(B) \in Nat /\ Cardinality(P \cup Q) \in Nat
  BY <1>3, <1>4, FS_CardinalityType
<1>8. N \in Nat BY NAssumption
<1>9. Cardinality(P \cap Q) > F BY <1>2, <1>4, <1>6, <1>7, <1>8, QuorumSize
<1>10. ~(P \cap Q \subseteq B)
  <2> SUFFICES ASSUME P \cap Q \subseteq B PROVE FALSE OBVIOUS
  <2>1. Cardinality(P \cap Q) <= Cardinality(B) BY <1>3, FS_Subset
  <2> QED BY <1>7, <1>9, <2>1, QuorumSize
<1> QED BY <1>10

(* Two different blocks of a height are never both signed by all but F     *)
(* validators, while at most F of those that run lost their context or     *)
(* lacked transactions: the two sets of signers share a steady validator,  *)
(* and it signs one block per height (sendCommit, onChangeView).           *)
THEOREM LedgersAgree == Spec => []Agreement
<1>1. IInv => Agreement
  <2> DEFINE B == {i \in Alive : ~Steady(node[i], i)}
             S(h, b) == {j \in Validators : SignedBy(j, h, b)}
  <2> SUFFICES ASSUME IInv, Cardinality(B) <= F, NEW i \in Validators, NEW j \in Validators,
                      NEW m1 \in Commits(i), NEW m2 \in Commits(j), m1.h = m2.h,
                      FullySigned(m1.h, m1.b), FullySigned(m2.h, m2.b)
               PROVE  m1.b = m2.b
    BY DEF Agreement
  <2>0. NodesOK BY DEF IInv
  <2>1. S(m1.h, m1.b) \in Quorums /\ S(m1.h, m2.b) \in Quorums
    BY DEF Quorums, FullySigned, M
  <2>2. B \in SUBSET Validators BY SetsAssumption
  <2> HIDE DEF B
  <2>3. PICK k \in S(m1.h, m1.b) \cap S(m1.h, m2.b) : k \notin B BY <2>1, <2>2, QuorumsMeet
  <2>4. k \in Validators /\ SignedBy(k, m1.h, m1.b) /\ SignedBy(k, m1.h, m2.b) BY <2>3
  <2>5. PICK x \in node[k].sent : x.type = "Commit" /\ x.h = m1.h /\ x.b = m1.b
    BY <2>4 DEF SignedBy, Commits
  <2>6. k \in Alive
    <3>1. x \in Sent /\ x.from = k BY <2>0, <2>4, <2>5 DEF Sent, NodesOK, NodeInv, SentOK
    <3> QED BY <2>0, <3>1, Sender
  <2>7. Steady(node[k], k) BY <2>3, <2>6 DEF B
  <2>8. Locked(node[k], k) BY <2>0, <2>4, <2>7 DEF NodesOK, NodeInv
  <2> QED BY <2>4, <2>8 DEF SignedBy, Commits, Locked
<1> QED BY <1>1, Inductive, PTL

-----------------------------------------------------------------------------

(* A steady node that has signed at its height.                            *)
Committed(c, i, Sg) ==
    /\ NodeInv(c, i, Sg) /\ Steady(c, i)
    /\ c.cmt[i] # None /\ RequestSentOrReceived(c)

(* A step from c to d that does not leave the view before the block is in  *)
(* the ledger, unless the context is lost.                                 *)
Holds(c, d) ==
    \/ Len(d.chain) >= c.BlockIndex
    \/ d.inc # 0
    \/ /\ d.ViewNumber = c.ViewNumber /\ d.BlockIndex = c.BlockIndex
       /\ \A m \in d.sent \ c.sent : m.type # "ChangeView"

(* A recovery message is no ChangeView.                                    *)
LEMMA RecoveryMessageHolds ==
    ASSUME NEW c \in NodeType, NEW i \in Validators
    PROVE  Holds(c, SendRecoveryMessage(c, i))
<1> DEFINE m == RecoveryMessage(c, i)
           d == Broadcast(c, m)
<1>1. m.type = "RecoveryMessage" BY DEF RecoveryMessage
<1> HIDE DEF m
<1>2. d.sent = c.sent \cup {m} /\ d.ViewNumber = c.ViewNumber /\ d.BlockIndex = c.BlockIndex
  BY DEF Broadcast, NodeType
<1>3. SendRecoveryMessage(c, i) = c \/ SendRecoveryMessage(c, i) = d
  BY DEF SendRecoveryMessage, m
<1> HIDE DEF d
<1> QED BY <1>1, <1>2, <1>3 DEF Holds

(* checkCommit leaves the height with the block, or the context is lost.   *)
LEMMA CheckCommitHolds ==
    ASSUME NEW c \in NodeType, NEW i \in Validators, NEW e,
           RequestSentOrReceived(c), Len(c.chain) >= c.BlockIndex - 1
    PROVE  Holds(c, CheckCommit(c, i, e))
<1> DEFINE p == ProcessBlock(c, e)
           b == c.prep[Primary(c)]
<1>1. b \in Block BY PrimaryType DEF RequestSentOrReceived, NodeType, Payloads, Primary
<1>2. c.chain \in Seq(Block) /\ c.BlockIndex \in Nat /\ Len(c.chain) \in Nat /\ c.inc \in Nat
  BY DEF NodeType
<1>3. Len(Append(c.chain, b)) = Len(c.chain) + 1 BY <1>1, <1>2, AppendBlock
<1>4. \/ p = c /\ Len(c.chain) # c.BlockIndex - 1
      \/ p = [c EXCEPT !.chain = Append(@, b)] /\ Len(c.chain) = c.BlockIndex - 1
      \/ p = [c EXCEPT !.inc = @ + 1]
  BY DEF ProcessBlock
<1>5. Len(p.chain) >= c.BlockIndex \/ p.inc # 0
  <2> HIDE DEF b, p
  <2> QED BY <1>2, <1>3, <1>4 DEF NodeType
<1>6. /\ "chain" \in DOMAIN p /\ "inc" \in DOMAIN p
      /\ p.chain = Reset(p, i, 0).chain /\ p.inc = Reset(p, i, 0).inc
  <2>1. DOMAIN p = DOMAIN c BY DEF ProcessBlock
  <2> HIDE DEF p
  <2> QED BY <2>1 DEF Reset, NodeType
<1>7. CheckCommit(c, i, e) = c \/ CheckCommit(c, i, e) = Reset(p, i, 0)
  BY DEF CheckCommit, InitializeConsensus
<1> HIDE DEF p
<1>8. CASE CheckCommit(c, i, e) = c BY <1>8 DEF Holds
<1>9. CASE CheckCommit(c, i, e) = Reset(p, i, 0) BY <1>5, <1>6, <1>9 DEF Holds
<1> QED BY <1>7, <1>8, <1>9

(* No received payload makes a committed node change its view.             *)
LEMMA OnReceiveHolds ==
    ASSUME NEW c, NEW i \in Validators, NEW Sg, Committed(c, i, Sg), NEW e \in Env(i),
           NEW m \in Message, m.type # "RecoveryMessage"
    PROVE  Holds(c, OnReceive(c, i, m, e))
<1> DEFINE d == Seen(c, m)
           r == OnReceive(c, i, m, e)
<1>0. NodeInv(c, i, Sg) BY DEF Committed
<1>1. /\ NodeInv(d, i, Sg)
      /\ d.sent = c.sent /\ d.BlockIndex = c.BlockIndex /\ d.ViewNumber = c.ViewNumber
      /\ d.prep = c.prep /\ d.cmt = c.cmt /\ d.chain = c.chain /\ d.inc = c.inc
  BY <1>0, SeenOK
<1>2. m.type \in {"PrepareRequest", "PrepareResponse", "Commit", "ChangeView", "RecoveryRequest"}
  BY DEF Message
<1> HIDE DEF d
<1>3. d \in NodeType /\ Len(d.chain) >= d.BlockIndex - 1
  BY <1>1 DEF NodeInv, NodeOK, Committed, Steady, Locked
<1>4. CommitSent(d, i) /\ RequestSentOrReceived(d)
  BY <1>1 DEF Committed, CommitSent, RequestSentOrReceived, Primary
<1>5. ASSUME Holds(d, r) PROVE Holds(c, r) BY <1>1, <1>5 DEF Holds
<1>6. Holds(c, c) /\ Holds(d, d) BY DEF Holds
<1>7. CASE r = c BY <1>6, <1>7
<1>8. CASE r # c
  <2>1. IsCurrent(c, m) BY <1>8 DEF OnReceive
  <2>2. CASE m.type = "PrepareRequest"
    <3>1. r = OnPrepareRequest(d, i, m, e) BY <2>1, <2>2 DEF OnReceive, d
    <3>2. r = d BY <1>4, <3>1 DEF OnPrepareRequest
    <3> QED BY <1>5, <1>6, <3>2
  <2>3. CASE m.type = "PrepareResponse"
    <3> DEFINE u == [d EXCEPT !.up = FALSE]
               x == [d EXCEPT !.prep[m.from] = m.b]
    <3>1. r = OnPrepareResponse(d, i, m, e) BY <2>1, <2>3 DEF OnReceive, d
    <3>2. /\ x.cmt = d.cmt /\ x.sent = d.sent /\ x.ViewNumber = d.ViewNumber
          /\ x.BlockIndex = d.BlockIndex
          /\ u.sent = d.sent /\ u.ViewNumber = d.ViewNumber /\ u.BlockIndex = d.BlockIndex
      BY <1>3 DEF NodeType
    <3>3. CommitSent(x, i) BY <1>4, <3>2 DEF CommitSent
    <3>4. r = d \/ r = u \/ r = x BY <3>1, <3>3 DEF OnPrepareResponse
    <3> HIDE DEF u, x, r
    <3>5. Holds(d, r) BY <1>6, <3>2, <3>4 DEF Holds
    <3> QED BY <1>5, <3>5 DEF r
  <2>4. CASE m.type = "ChangeView"
    <3>1. r = OnChangeView(d, i, m) BY <2>1, <2>4 DEF OnReceive, d
    <3>2. r = OnRecoveryRequest(d, i, m.from) \/ r = SendRecoveryMessage(d, i)
      BY <1>4, <3>1 DEF OnChangeView
    <3>3. r = SendRecoveryMessage(d, i) BY <1>4, <3>2 DEF OnRecoveryRequest
    <3> QED BY <1>3, <1>5, <3>3, RecoveryMessageHolds
  <2>5. CASE m.type = "Commit"
    <3> DEFINE p == [v |-> m.v, b |-> m.b]
               cs == [d.cmt EXCEPT ![m.from] = p]
               x == [d EXCEPT !.cmt = cs]
    <3>1. r = OnCommit(d, i, m, e) BY <2>1, <2>5 DEF OnReceive, d
    <3>2. m.from \in Validators /\ p \in [v : Nat, b : Block] BY <2>5 DEF Message
    <3>3. cs \in [Validators -> CommitPayloads] BY <1>3, <3>2 DEF NodeType, CommitPayloads
    <3>4. x = [d EXCEPT !.cmt[m.from] = p] BY <1>3 DEF NodeType
    <3>5. r = d \/ r = x \/ r = CheckCommit(x, i, e) BY <3>1, <3>4 DEF OnCommit
    <3> HIDE DEF p, cs, r
    <3>6. x \in NodeType BY <1>3, <3>3 DEF NodeType
    <3>7. /\ x.sent = d.sent /\ x.ViewNumber = d.ViewNumber /\ x.BlockIndex = d.BlockIndex
          /\ x.prep = d.prep /\ x.chain = d.chain
      BY <1>3 DEF NodeType
    <3> HIDE DEF x
    <3>8. RequestSentOrReceived(x) BY <1>4, <3>7 DEF RequestSentOrReceived, Primary
    <3>9. Holds(x, CheckCommit(x, i, e)) BY <1>3, <3>6, <3>7, <3>8, CheckCommitHolds
    <3>10. Holds(d, r) BY <1>6, <3>5, <3>7, <3>9 DEF Holds
    <3> QED BY <1>5, <3>10 DEF r
  <2>6. CASE m.type = "RecoveryRequest"
    <3>1. r = OnRecoveryRequest(d, i, m.from) BY <2>1, <2>6 DEF OnReceive, d
    <3>2. r = SendRecoveryMessage(d, i) BY <1>4, <3>1 DEF OnRecoveryRequest
    <3> QED BY <1>3, <1>5, <3>2, RecoveryMessageHolds
  <2> QED BY <1>2, <2>2, <2>3, <2>4, <2>5, <2>6
<1> QED BY <1>7, <1>8

(* The context that a restart lost stays counted.                          *)
LEMMA StartLost ==
    ASSUME NEW i \in Validators, NEW chain, NEW n \in Nat, n # 0, NEW sent
    PROVE  Start(i, chain, n, sent).inc # 0
<1> DEFINE Lost(x) == {"inc", "sent", "cmt", "chain", "prep", "isReq", "hasAll"} \subseteq DOMAIN x
                        /\ x.inc \in Nat /\ x.inc # 0
           z == NewContext(chain, n, sent)
           e == [req |-> TRUE, blk |-> "accepted", tx |-> TRUE, add |-> TRUE]
<1>1. Lost(z) BY DEF NewContext
<1>2. ASSUME NEW x, Lost(x) PROVE Lost(Reset(x, i, 0)) BY <1>2 DEF Reset
<1>3. ASSUME NEW x, Lost(x) PROVE Lost(ProcessBlock(x, e)) BY <1>3 DEF ProcessBlock
<1>4. ASSUME NEW x, Lost(x) PROVE Lost(CheckCommit(x, i, e))
  <2>1. Lost(Reset(ProcessBlock(x, e), i, 0)) BY <1>2, <1>3, <1>4
  <2> QED BY <1>4, <2>1 DEF CheckCommit, InitializeConsensus
<1>5. ASSUME NEW x, Lost(x) PROVE Lost(SendCommit(x, i)) BY <1>5 DEF SendCommit, Broadcast
<1>6. ASSUME NEW x, Lost(x) PROVE Lost(CheckPrepare(x, i, e))
  <2>1. Lost(CheckCommit(SendCommit(x, i), i, e)) BY <1>4, <1>5, <1>6
  <2> QED BY <1>6, <2>1 DEF CheckPrepare
<1>7. ASSUME NEW x, Lost(x) PROVE Lost(SendPrepareRequest(x, i, e))
  <2> DEFINE b == [h |-> x.BlockIndex, v |-> x.ViewNumber, n |-> x.inc]
             y == [x EXCEPT !.prep[i] = b, !.isReq = TRUE, !.hasAll = TRUE]
             w == Broadcast(y, PrepareRequest(i, x.BlockIndex, x.ViewNumber, b))
  <2>1. Lost(w) BY <1>7 DEF Broadcast
  <2>2. SendPrepareRequest(x, i, e) = CheckPrepare(w, i, e) BY DEF SendPrepareRequest
  <2> QED BY <1>6, <2>1, <2>2
<1>8. Lost(Reset(z, i, 0)) BY <1>1, <1>2
<1>9. Lost(SendPrepareRequest(Reset(z, i, 0), i, e)) BY <1>7, <1>8
<1>10. \/ Start(i, chain, n, sent) = Reset(z, i, 0)
       \/ Start(i, chain, n, sent) = SendPrepareRequest(Reset(z, i, 0), i, e)
  BY DEF Start, InitializeConsensus
<1> QED BY <1>8, <1>9, <1>10

(* A step that changes at most node k.                                     *)
LEMMA StepHolds ==
    ASSUME NodesOK, NEW i \in Validators, NEW k \in Validators, NEW d,
           node' = [node EXCEPT ![k] = d], k = i => Holds(node[i], d)
    PROVE  Holds(node[i], node'[i])
<1>1. k = i => node'[i] = d BY DEF NodesOK
<1>2. k # i => node'[i] = node[i] BY DEF NodesOK
<1>3. Holds(node[i], node[i]) BY DEF Holds
<1> QED BY <1>1, <1>2, <1>3

(* No step of any kind makes a committed node change its view.             *)
LEMMA NextHolds ==
    ASSUME IInv, [Next]_vars, NEW i \in Validators, Committed(node[i], i, Sent)
    PROVE  Holds(node[i], node'[i]) \/ ~Steady(node'[i], i)
<1>0. NodesOK /\ node \in [Validators -> NodeType] BY DEF IInv, NodesOK
<1>1. CommitSent(node[i], i) /\ RequestSentOrReceived(node[i])
  BY DEF Committed, CommitSent
<1>2. Holds(node[i], node[i]) BY DEF Holds
<1>3. CASE UNCHANGED node BY <1>2, <1>3
<1>4. ASSUME NEW k \in Validators, Receive(k) PROVE Holds(node[i], node'[i])
  <2>1. PICK j \in Validators \ {k} : \E m \in node[j].sent, e \in Env(k) :
          m.type # "RecoveryMessage" /\ node' = [node EXCEPT ![k] = OnReceive(node[k], k, m, e)]
    BY <1>4 DEF Receive
  <2>2. PICK m \in node[j].sent, e \in Env(k) :
          m.type # "RecoveryMessage" /\ node' = [node EXCEPT ![k] = OnReceive(node[k], k, m, e)]
    BY <2>1
  <2>3. m \in Message BY <1>0 DEF NodeType
  <2>4. k = i => Holds(node[i], OnReceive(node[k], k, m, e))
    <3> SUFFICES ASSUME k = i PROVE Holds(node[i], OnReceive(node[i], i, m, e)) OBVIOUS
    <3>1. e \in Env(i) OBVIOUS
    <3> QED BY <2>2, <2>3, <3>1, OnReceiveHolds
  <2> QED BY <1>0, <2>2, <2>4, StepHolds
<1>5. ASSUME NEW k \in Validators, OnRecoveryMessage(k) PROVE Holds(node[i], node'[i])
  <2>1. PICK j \in Validators \ {k} : \E m \in node[j].sent :
          node' = [node EXCEPT ![k] = Seen(node[k], m)]
    BY <1>5 DEF OnRecoveryMessage
  <2>2. PICK m \in node[j].sent : node' = [node EXCEPT ![k] = Seen(node[k], m)] BY <2>1
  <2>3. m \in Message /\ NodeInv(node[k], k, Sent) BY <1>0 DEF NodeType, NodesOK
  <2> DEFINE d == Seen(node[k], m)
  <2>4. d.sent = node[k].sent /\ d.BlockIndex = node[k].BlockIndex
        /\ d.ViewNumber = node[k].ViewNumber
    BY <2>3, SeenOK
  <2> HIDE DEF d
  <2>5. Holds(node[k], d) BY <2>4 DEF Holds
  <2>6. node' = [node EXCEPT ![k] = d] BY <2>2 DEF d
  <2> QED BY <1>0, <2>5, <2>6, StepHolds
<1>6. CASE RecoverPayload
  <2> DEFINE k == recovery.node
  <2>1. PICK j \in recovery.todo, e \in Env(k) :
          node' = [node EXCEPT ![k] = OnReceive(@, k, Payload(recovery.m, recovery.hash, recovery.phase, j), e)]
    BY <1>6 DEF RecoverPayload
  <2> DEFINE m == Payload(recovery.m, recovery.hash, recovery.phase, j)
  <2>2. /\ recovery \in LoopType /\ RecoveryOK(recovery.m)
        /\ recovery.todo \subseteq Todo(recovery.m, recovery.hash, recovery.phase)
    BY <1>6 DEF RecoverPayload, IInv, LoopOK
  <2>3. /\ k \in Validators /\ recovery.phase \in {"cv", "resp", "commit"}
        /\ recovery.hash \in Payloads
    BY <2>2 DEF LoopType
  <2>4. PayloadSound(Sent, m) BY <2>2, <2>3, PayloadOK
  <2>5. node' = [node EXCEPT ![k] = OnReceive(node[k], k, m, e)] BY <1>0, <2>1, <2>3
  <2> HIDE DEF k, m
  <2>6. k = i => Holds(node[i], OnReceive(node[k], k, m, e))
    <3> SUFFICES ASSUME k = i PROVE Holds(node[i], OnReceive(node[i], i, m, e)) OBVIOUS
    <3>1. e \in Env(i) OBVIOUS
    <3>2. m \in Message /\ m.type # "RecoveryMessage" BY <2>4 DEF PayloadSound
    <3> QED BY <3>1, <3>2, OnReceiveHolds
  <2> QED BY <1>0, <2>3, <2>5, <2>6, StepHolds
<1>7. CASE RecoverPreparations
  <2> DEFINE k == recovery.node
  <2>1. k \in Validators BY <1>7 DEF RecoverPreparations, IInv, LoopOK, LoopType
  <2>2. CASE k = i
    <3>1. UNCHANGED node BY <1>1, <1>7, <2>2 DEF RecoverPreparations
    <3> QED BY <1>3, <3>1
  <2>3. CASE k # i
    <3>1. node'[i] = node[i] BY <1>0, <1>7, <2>1, <2>3 DEF RecoverPreparations
    <3> QED BY <1>2, <3>1
  <2> QED BY <2>2, <2>3
<1>8. CASE RecoverCommits \/ RecoverDone BY <1>3, <1>8 DEF RecoverCommits, RecoverDone
<1>9. ASSUME NEW k \in Validators, OnTimeout(k) PROVE Holds(node[i], node'[i])
  <2>1. CASE k = i
    <3>1. node' = [node EXCEPT ![i] = SendRecoveryMessage(node[i], i)]
      BY <1>1, <1>9, <2>1 DEF OnTimeout
    <3>2. Holds(node[i], SendRecoveryMessage(node[i], i)) BY <1>0, RecoveryMessageHolds
    <3> QED BY <1>0, <3>1, <3>2, StepHolds
  <2>2. CASE k # i
    <3>1. node'[i] = node[i] BY <1>0, <1>9, <2>2 DEF OnTimeout
    <3> QED BY <1>2, <3>1
  <2> QED BY <2>1, <2>2
<1>10. ASSUME NEW k \in Validators, OnTransaction(k) PROVE Holds(node[i], node'[i])
  <2>1. k # i BY <1>10 DEF OnTransaction, Committed, NodeInv, Locked
  <2>2. node'[i] = node[i] BY <1>0, <1>10, <2>1 DEF OnTransaction
  <2> QED BY <1>2, <2>2
<1>11. ASSUME NEW k \in Validators, SyncBlock(k) PROVE Holds(node[i], node'[i])
  <2>1. PICK j \in Validators : node' = [node EXCEPT ![k].chain =
                        Append(@, node[j].chain[Len(node[k].chain) + 1])]
    BY <1>11 DEF SyncBlock
  <2> DEFINE c == node[k]
             q == Append(c.chain, node[j].chain[Len(c.chain) + 1])
             d == [c EXCEPT !.chain = q]
  <2>2. c \in NodeType BY <1>0
  <2>3. node' = [node EXCEPT ![k] = d] BY <1>0, <2>1, <2>2 DEF NodeType
  <2> HIDE DEF c, q
  <2>4. d.sent = c.sent /\ d.ViewNumber = c.ViewNumber /\ d.BlockIndex = c.BlockIndex
    BY <2>2 DEF NodeType
  <2> HIDE DEF d
  <2>5. Holds(c, d) BY <2>4 DEF Holds
  <2> QED BY <1>0, <2>3, <2>5, StepHolds DEF c
<1>12. ASSUME NEW k \in Validators, HandleChainBlock(k) PROVE Holds(node[i], node'[i])
  <2> DEFINE d == Reset(node[k], k, 0)
  <2>1. node' = [node EXCEPT ![k] = d] /\ Len(node[k].chain) >= node[k].BlockIndex
    BY <1>12 DEF HandleChainBlock, InitializeConsensus
  <2>2. d.chain = node[k].chain BY <1>0 DEF Reset, NodeType
  <2> HIDE DEF d
  <2>3. Holds(node[k], d) BY <2>1, <2>2 DEF Holds
  <2> QED BY <1>0, <2>1, <2>3, StepHolds
<1>13. ASSUME NEW k \in Validators, Restart(k)
       PROVE  Holds(node[i], node'[i]) \/ ~Steady(node'[i], i)
  <2>1. CASE k # i
    <3>1. node'[i] = node[i] BY <1>0, <1>13, <2>1 DEF Restart
    <3> QED BY <1>2, <3>1
  <2>2. CASE k = i
    <3> DEFINE c == node[i]
               n == c.inc + 1
    <3>0. c \in NodeType BY <1>0
    <3>1. n \in Nat /\ n # 0 BY <3>0 DEF NodeType
    <3>2. node'[i] = Start(i, c.chain, n, c.sent)
      <4>1. node' = [node EXCEPT ![k] = Start(k, node[k].chain, node[k].inc + 1, node[k].sent)]
        BY <1>13 DEF Restart
      <4> QED BY <1>0, <2>2, <4>1, SMTT(60)
    <3> HIDE DEF n
    <3>3. Start(i, c.chain, n, c.sent).inc # 0 BY <3>1, StartLost
    <3> QED BY <3>2, <3>3 DEF Steady
  <2> QED BY <2>1, <2>2
<1> QED BY <1>3, <1>4, <1>5, <1>6, <1>7, <1>8, <1>9, <1>10, <1>11, <1>12, <1>13 DEF Next, vars

(* A validator that signed at its height stays in its view, whatever it    *)
(* receives, recovers or times out on, until its ledger holds a block of   *)
(* that height (onTimeout, onChangeView, onRecoveryMessage).               *)
THEOREM CommittedStays == Spec => CommitLock
<1> DEFINE A == \A i \in Validators :
             /\ Steady(node[i], i) /\ Steady(node'[i], i)
             /\ \E m \in Commits(i) : m.h = node[i].BlockIndex
             =>
                 \/ Len(node'[i].chain) >= node[i].BlockIndex
                 \/ /\ node'[i].ViewNumber = node[i].ViewNumber
                    /\ node'[i].BlockIndex = node[i].BlockIndex
                    /\ \A m \in node'[i].sent \ node[i].sent : m.type # "ChangeView"
<1>1. IInv /\ [Next]_vars => [A]_vars
  <2> SUFFICES ASSUME IInv, [Next]_vars, NEW i \in Validators,
                      Steady(node[i], i), Steady(node'[i], i),
                      NEW m \in Commits(i), m.h = node[i].BlockIndex
               PROVE  \/ Len(node'[i].chain) >= node[i].BlockIndex
                      \/ /\ node'[i].ViewNumber = node[i].ViewNumber
                         /\ node'[i].BlockIndex = node[i].BlockIndex
                         /\ \A x \in node'[i].sent \ node[i].sent : x.type # "ChangeView"
    OBVIOUS
  <2>1. NodeInv(node[i], i, Sent) BY DEF IInv, NodesOK
  <2>2. Locked(node[i], i) BY <2>1 DEF NodeInv
  <2>3. node[i].cmt[i] # None /\ RequestSentOrReceived(node[i]) BY <2>2 DEF Locked, Commits
  <2>4. Committed(node[i], i, Sent) BY <2>1, <2>3 DEF Committed
  <2>5. Holds(node[i], node'[i]) BY <2>4, NextHolds
  <2> QED BY <2>5 DEF Holds, Steady
<1> QED BY <1>1, Inductive, PTL DEF Spec, CommitLock
=============================================================================
