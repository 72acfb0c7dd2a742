# Verification of saiya-node

TLA+ models of the node in this repository (a dBFT consensus node with an EVM
ledger, derived from neo-go), their model-checking runs, and machine-checked
proofs. Modules model the code of `src/pkg`; `PROJECT.json` maps every
definition to the lines it stands for.

## 1. The system

| Component | State | Operations | Interacts with |
|---|---|---|---|
| dBFT consensus (`pkg/dbft`, `pkg/consensus`) | per height and view: preparations, commits, ChangeViews, last seen messages, missing transactions | one event loop: payloads, timer, transactions, chain blocks; sends to all validators | ledger (`AddBlock`, block events), pool (proposal, `verifyBlock`), network (broadcast) |
| Block synchronisation (`network/blockqueue.go`, `server.go`) | ring buffer, `lastQ`, wake-up channel, `lastRequestedBlock` | `putBlock` in every peer's handler, `run`, `requestBlocks`, `discard` | ledger, peers; consensus is a second source of blocks |
| Ledger and store (`core/blockchain.go`, `core/dao`, `core/storage`) | header hashes, heights, memory maps over the database | `AddHeaders`, `AddBlock`/`storeBlock`, timed `persist`, `Close`, `init` | everybody reads it; `addLock`, `lock`, `headerHashesLock` and the store's own lock |
| Transaction pool (`core/mempool`) | sorted list, map, fee account per sender | `Add` (replace, evict), `RemoveStale`, proposals | ledger state, consensus, relay |
| Events and shutdown (`notificationDispatcher`, `startServer`, `Shutdown`) | sets of subscriber channels, quit and stop channels | subscribe, unsubscribe, dispatch (blocking sends), start and stop of services | called from `storeBlock` under `addLock`; consensus, relay, RPC, state service read |
| State database (`core/statedb`, `core/interop`) | a stack of layers over the block's store, refunds, logs, access list | snapshot, revert, commit | EVM, natives |
| EVM (`pkg/vm`) | call frames; per frame stack, memory, gas, return data | calls, creations, the interpreter loop with its gas and memory tables, precompiled contracts | state database, natives |
| Native contracts (`core/native`) | roles, policy, balances, nonces, code, and caches of the first two | calls, `OnPersist`, `PostPersist` | storage, EVM, consensus (validators) |
| Trie and local roots (`core/mpt`, `core/stateroot`) | nodes with reference counts, the root of every height | batch per block, flush, collapse, garbage collection, queries, proofs, restoring | ledger, RPC, state sync |
| State service (`services/stateroot`) | votes and signatures per height | vote, sign, retry | ledger, network |
| Peers (`network/tcp_peer.go`, `discovery.go`, `server.go`) | the set of peers, handshake of each, four books of addresses, a pool of those to dial | register, handshake, disconnect, dial, retry | every handler |
| RPC (`pkg/rpc`) | websocket subscribers, their feeds and channels, a counter per kind of event, `subsLock` | subscribe, unsubscribe, disconnect, delivery, shutdown; the request handlers only read | events |

The behaviours that are hard here: the interleaving of several goroutines that
extend one ledger; flushes that are not synchronised with block additions;
crashes between them; consensus messages that are lost, repeated or come out of
order, and contexts lost at a restart; signals that must not be lost;
bookkeeping (fee accounts, `lastQ`, `storedHeaderCount`) that must agree with
what it counts; failures in the middle of nested calls; caches that are renewed
before what they cache is stored; arithmetic in 64 bits between code that chooses
the operands and slices that panic; nodes shared between tries and collected
while others are still read. `PROJECT.json` lists the hazards at their lines, with the
properties that cover them.

## 2. Modules

### DBFT: the consensus

A validator is a record: `BlockIndex`, `ViewNumber`, `prep` (the preparation
payloads by the proposal they are for; `isReq` says whether the primary's slot
holds a request), `cmt`, `cv` (new view asked for, 0 for none), `lastcv`,
`seen`, `hasAll`/`missing` (transactions), `block` (`CreateBlock` was called),
and outside the context `chain` (its ledger), `sent` (all it broadcast), `inc`
(contexts lost or started over) and `up`. Each function of `dbft.go`, `check.go`
and `send.go` is an operator on that record, so that calls nest as in Go: for
example `OnPrepareRequest` calls `Respond`, which calls `SendPrepareResponse`
and `CheckPrepare`, which calls `SendCommit` and `CheckCommit`. A message stays
in `sent` and may be received any number of times in any order or never, which
is loss, repetition and reordering in one. The actions are the inputs of the
event loop; `onRecoveryMessage`, one handler with three loops, is unrolled into
steps during which nothing else happens (`recovery`).

What the environment answers within a step (`VerifyPrepareRequest`,
`verifyBlock`, `getTx`, `AddBlock`) is chosen by `Env`, for the validators named
by `Rejecting`, `LackTx` and `Restarting`. Timers are not timed: they may fire
at any moment. Signatures are taken as unforgeable: a commit is
the block that was signed. Nodes are followed up to `MaxHeight` and `MaxRestarts`
lost contexts (`Running`).

A block enters a ledger without a look at its signatures: `getBlockWitness` takes
the commits that `checkCommit` counted, and `verifyHeaderWitness` compares the
address of the witness with that of the validators but drops the result of
`VerifyHashable`. So what `checkCommit` counts is what decides, and it counts two
kinds of commits that `onCommit` has not verified: those that came before the
request, and those of a recovery message, which `GetCommits` gives the view of that
message, whatever view they were signed in.

The responses of a recovery message share one hash. If the message carries the
request instead of the hash, `eventLoop` computes it for the primary of the view the
*receiver* is in (`PreparationHash`): of a message of another view that is the hash
of no proposal, or none, and the responses are useless or dropped. A proposal that
names other next validators is left without an answer (`otherNext` in `Env`).

### BlockSync: fetching blocks

`Request`/`SendRequest` are `requestBlocks` split at the read of the height,
`PutBlock`/`StoreBlock`/`Signal` are `putBlock` split where no lock is held,
`RunWake` to `RunClean` are `run` likewise. `ConsensusAdd` extends the ledger
behind their back, `Discard` is the shutdown. The buffer holds block indexes,
`wire` the blocks on their way. Answers may be lost.

### Ledger: headers, blocks and what survives a stop

The store has three layers: `disk`, `temp` (the maps being flushed) and `mem`.
A layer holds the keys that matter for recovery: current block, current header,
block or header by index, batches of hashes, the height of the contract storage,
local state roots. `addHeaders` is split at `headerHashesLock`, `storeBlock` at
the writes of its two private caches, `persist` at the write of the database.
`PersistSync` blocks the store. `Crash` may happen at any point, the disk may
refuse a flush, and `Start` is `NewBlockchain` with `init` on what is on disk.

### TxPool and MCTxPool: pooled transactions

A transaction has sender, nonce, gas price, gas, value, the fee per byte it pays,
and whether it creates a contract. `PoolTx`, `ReplaceTx` and `ReplaceRefused` are
`verifyAndPoolTx` with `Add`. `SharedSub` models what Go does with a copied
`big.Int`: the words are shared, the sign is not, so the account may or may not
change with its copy. `disturbed` is a history variable: the senders with a
replacement or an eviction since the pool was last filtered.

`AddBlock` verifies the transactions of a block with a pool of its own, but
`blockchain.go:531` heeds the result only if `VerifyTransactions` is set, and the
configurations for mainnet, testnet and privnet all set it to false (line 17). The
variable `VerifyTransactions` is that switch, chosen at the start and never changed.
Without it any block that the validators
signed is stored and executed, whatever the nonces and balances are; what keeps a
transaction from being executed early is then only that validators refuse such a
proposal (`VerifyBlock`, with `checked` for what this node has accepted at this
height). A node that follows relies on the signers. `Execute` is a transaction of
`storeBlock`: the value moves unless the execution fails, which it does unless the
sender has *more* than the value; a creation takes a nonce of its own beside that of
the transaction; and a charge that the sender cannot pay is refused as a whole, so
that a transaction no verification has seen may cost nothing. The receivers of
transfers and of fees are accounts outside the model. `GetVerifiedTx` and
`ApplyPolicyToTxSet` are the choice of a proposal: after a view change what is still
pooled of the last proposal, otherwise the head of the pool. The last proposal is a
hash list of another node, so it may be any list that is ordered as a pool is
(`Blocks`), and so may the transactions of a block. `MCTxPool` fixes the transactions.

### EventFlow: block events and the shutdown of a node

The goroutines that meet at the dispatcher: the block queue's, the consensus
loop, `relayBlocksLoop`, the state service, the one that starts the services,
the main one, and the dispatcher itself. `pc` holds where each is; the flags and
quit channels (`syncReached`, `started`, `discarded`, `srDone`, `consQuit`,
`quit`) follow from how far the others have come. A send on an unbuffered
channel and its receive are one step. `AddBlock` is split at `addLock` and at the
send of its event, `service.Start` between `dbft.Start` and the subscription, as
in the code; `Shutdown` to `RunExits` follow the order of `startServer` and
`network.Server.Shutdown`. The state service takes events also in the loop that
drains its channel after `done` (`StaterootDrained` is the end of that loop). The
process ends when `Close` returns. Only block
events are modelled, and `dbft.Start` adds no block, which it would do only as
the single validator. `got` and `told` are history variables.

### RPCEvents and MCRPCEvents: the feeds of websocket clients

For each client `handleWsReads` (requests), `handleWsWrites` and the channel
between them; for the server `handleSubEvents`, `subsLock`, one counter per kind
of event and `Shutdown`, which while it waits also receives from `executionCh`.
The dispatcher is external here: a block is the sequence of its events. A request
that changes a counter from or to zero waits for the dispatcher with `subsLock`
held. `overflow` is `overflown` with the goroutine that queues the message about
missed events. Filters and failures of JSON encoding are left out. `skipped` and
`last` are history variables: an event queued after others were skipped is a
`Jump`.

### StateDB, Natives, Execution and NestedCalls: the execution of blocks

`StateDB` is the stack of layers of one transaction over the store of its block:
`Snapshot` pushes a copy, `RevertToSnapshot` cuts the stack, `Commit` writes all
of it down. A layer holds items, the refund counter, logs and the access list.
`Natives` are the native contracts as functions on that state, with the caches of
Designate and Policy as a variable. An account is a tuple, a public key a number.
`Execution` is `storeBlock`: transactions one after the other, each a stack of
frames. The code of a contract is arbitrary: a frame may take any instruction
that touches the state, in any order, and may fail at any moment; every kind of
call and creation, its gas, its snapshot and what an error does to both follow
`evm.go`. A transaction need not be one that verification would pass: its sender may be unable
to pay, and the refused charge leaves its balance as it is.
Then fees, refund and nonce (`FinishTx`), `PostPersist` with the caches,
and the block is stored, fails to be stored (`StoreFails`), or the node restarts.

`NestedCalls` is the abstract specification: running code changes the state, a
frame that is opened remembers it, and a frame that fails brings it back.
`FramesAtomic` says that `Execution` implements it: the state of the abstract
machine is the state seen through all layers, and what it remembers for a frame is
what is seen through the layers below the frame's snapshot. Nonce and access list
changed by `create` before its snapshot are the one exception (`Prepared`).

### Opcodes, Precompiles, Interpreter: one frame

`Opcodes` is the jump table (pops, pushes, constant gas, flags) of the merge rules
that the node always uses, from the rows of `newFrontierInstructionSet` and the
changes later rules make. `Interpreter` is the loop of `EVMInterpreter.Run`: stack
check, constant gas, size of memory, dynamic gas, resize, execution, program
counter. Words have 12 bits in 4 bytes and a uint64 has 10 bits, scaled together
with memory and gas. The subtraction in `callGas` wraps in the run (calls with less
gas than their base cost, in frames with 16 to 70 gas); the sum of the gas of a call
with its base cost does not overflow, neither here nor in Go: `ConstantsAssumption`
states what the scaled constants keep of the real ones, and it excludes that
overflow. The contents of memory, storage and input are arbitrary words; lengths are
exact. A slice out of range, a missing stack item or a nil function is the status
`panic`. The bitmap of `codeBitmap` is the set of bits that the calls of `set1`,
`setN`, `set8` and `set16` leave (`SetBits`: first byte or-ed, further bytes
assigned), with its length; `OnInstruction` compares it with where instructions begin.

SSTORE panics if its contract is not in the access list (`SstorePanics`).
`storeBlock` prepares the list, `GetTestVM`, on which `eth_call` and the gas
estimations run, does not: `prepared` tells the two apart. `NoPanic` says that this
panic happens only in a test run, and `SelfListed` of `Execution` that in a block the
list holds the address of every open frame. In a test run it does happen, although
the message of the panic calls the case impossible: a contract that stores to a slot
it has not read reaches the status `sstore canary` in `Interpreter_frame`.

`Precompiles` has gas and the sizes of
what the contracts build; results of cryptography are success or failure.

### Trie and StateRoots: the state trie over its life

`Trie` is `pkg/core/mpt`: every function that changes a trie returns the new node
and the references it added, removed and loaded, in their order. A hash is the
node it is the hash of, so that a stored node that was collected is really gone.
`StateRoots` is the trie of the node: a batch per block, `Flush` with the cached
counts, `Collapse`, the cached store and its flush, `tryRunGC` (the height is read
before the flush, the collection runs after it), crashes and `Init`, in the modes
all, latest and gc. `Put` and `Delete` of single keys, which the node does not
call but exports, are actions too. `StartRestore`/`Restore` fill a `Billet` with
the nodes of a trie in any order, as state synchronisation does. `contents` is a
history variable.

### Peers and MCPeers: connections and addresses

`Server.run` (which alone adds and removes peers), for every connection a reader
and a handler, and `DefaultDiscovery.run` with the goroutines that dial. A
connection is a slot; `reg` says whether `Server.run` has it, `drop` why it was
disconnected, `handler` where `handleVersionCmd` is: it checks the version,
registers the address, and looks for duplicates in three steps. `Server.run` receives
a connection (`Register`) before it makes it a peer (`AddPeer`), and the handler may
run in between; a dial that failed frees the address (`DialFails`) before the failure
is registered (`RegisterFailure`) and another dial is asked for (`TakeAsk`). The handler may
work on messages that were read before the connection was closed (one in the
channel and one in the reader's hand). The goroutine that drops a peer above
`MaxPeers` acts at once or later. Remote nodes refuse, call, stop talking and
close as they like. `EmptyPool` puts the seeds back in the order of the
configuration, which the model leaves open (`Orders`), and what does not fit into the
pool is dropped.

`MinPeers` may be 0, as in `protocol.privnet.yml`: then `Server.run` asks for no
connections, and `KeepsDialling` says nothing. Two simplifications: a node tells in its
version the port at which it can be dialled (if it told another one, the connection
would be registered under that address and the dialled one would stay unconnected),
and the address of a caller without a version is never dialled.

## 3. Runs

All runs pass; the last column is the number of distinct states.

| Run | Question | Bounds | Size |
|---|---|---|---|
| `DBFT_views` | quorums and agreement over a view change | 4 validators, one down, one may lack transactions; views 0 and 1, one height | 160,454 states |
| `DBFT_restart` | recovery, restarts, refusals, the commit lock | 2 validators, both may lose their context once, one may reject; one recovery message per node, views 0 and 1 | 633,387 states |
| `BlockSync_safe` | races of handler, `run`, consensus, shutdown | buffer of 2, 3 blocks, one refused block | 2,487,014 states |
| `BlockSync_live` | are all blocks fetched? | buffer of 3, 3 blocks, one refused block, lost answers | 261,156 states |
| `Ledger_store` | headers, blocks and persisted heights over stops | 4 blocks, batches of 2 hashes, 2 traceable blocks, 2 stops, 1 failed flush | 1,031,734 states |
| `TxPool_pool` | fee accounts, own proposals, order of nonces, with and without `VerifyTransactions` | 7 transactions of 2 senders, pool of 3, any blocks of 2, 2 heights | 15,535 states |
| `EventFlow_stop` | delivery of events, returns of `AddBlock`, shutdown | 3 blocks, channels of 1, a consensus node | 268,742 states |
| `RPCEvents_clients` | counters, missed events, progress of the dispatcher | 2 clients, 2 kinds of events, a block of up to 2 transactions, 2 requests of one client and 1 of the other, 2 feeds each, channel of 1 | 661,864 states |
| `Execution_calls` | nested calls, static calls, supply, access list, caches of roles | one contract and those it creates, 2 transactions in up to 3 blocks, one of them a contract's with gas for some five steps, depth 2, committee of 2 of 3 keys | 302,445 states |
| `Interpreter_frame` | panics, jumps, memory and gas of a frame | every opcode on operands at and around 0, the memory limit and 64 bits; all codes of up to 4 bytes of jumps, targets and data; every PUSH at every alignment, cut off and whole; calls with gas around their base cost; SSTORE with and without an access list; a full stack | 330,792 states |
| `StateRoots_trie` | canonical roots, reference counts, queries | 4 keys (a prefix, two equal tails), 2 values, 5 heights, collapse at depth 1, one traceable block, 3 modes | 16,901 states |
| `Peers_book` | books of addresses against connections | a seed that also calls, and either 2 connections, or 1 connection and peers that tell the node its own address; at most 1 peer, 2 retries, 2 failed dials at a time, pool of 2 | 1,317,129 states |

Why the bounds are enough for the cases of interest: with one of four
validators down the quorum of three needs every other one, so that missing
transactions decide whether the view changes; two validators have F = 0
and M = 2, the smallest group in which a recovery message re-attributes a
foreign commit and a primary that lost its context proposes twice in a view; a buffer smaller than the chain makes slots wrap around and be
contended; batches of two hashes with four blocks give stops before, between and
after batches; a pool of three with seven transactions overflows, and four
transactions of one nonce make chains of replacements. The channel of
`relayBlocksLoop` (2) and those of the clients are scaled down to one element
so that the limit is reached with few blocks; the channel of the consensus
service really has one. Two clients are needed for a counter that stays above
zero when one leaves or unsubscribes; three events of one block are what it
takes to queue one, skip one and queue the next; and the two kinds are the one
that `Shutdown` receives (`execution`) and one that it does not. In
`Execution_calls` the depth of 2 lets a frame fail below and above one that
succeeded; gas is small, but a frame may run out of it anywhere. The keys of
`StateRoots_trie` make every kind of node, shared subtries, and branches that
shrink to an extension whose child is only a hash. Two connections are what
duplicates need, and a limit of one peer makes each of them be dropped for the
limit too. A node that calls itself needs one connection for the peer that tells it the
address and, later, for the call; the two cases are the `Scopes` of `MCPeers`, and a
behaviour keeps the one it starts with.

`CHECK_DEADLOCK FALSE` in all runs but `Peers_book`: heights, views, restarts and blocks are
bounded, a frame ends, and a node may be shut down, so every model stops.
In `Peers` a node always has something it may do.

Fairness is used where liveness is checked. In `BlockSync` weak fairness of
`run`, of a peer's requests (the protocol timer repeats them) and of the steps
of `putBlock` is the scheduling of goroutines. Strong fairness of an answered
request for each height that keeps being possible, and of taking each delivered
block, stands for the random choice of the height in `getRequestBlocksPayload`
and for a connection that does not lose every answer; without it no property of
delivery can hold. In `EventFlow` the queue, the consensus loop and the other
goroutines are each weakly fair, which is the scheduling of goroutines; `OnQuit`
is strongly fair because a Go `select` picks at random among the cases that are
ready, so a loop that has always something else to do still takes the closed
channel. In `RPCEvents` every goroutine takes finitely many steps within the
bounds, so weak fairness of all of them together (`Server`) is enough. In `Peers`
only the goroutine of discovery is weakly fair. No fairness is assumed of the
environment: new blocks, requests, the signal to stop, remote nodes, and not of
the execution of blocks.

### Circles of waiting goroutines

The liveness properties of `EventFlow` and `RPCEvents` hold up to named circles,
and say that there are no others. All of them are reachable:

* `ConsensusWedge`: the queue and consensus add blocks faster than the loop reads
  its channel of one; the loop then waits in `AddBlock` for a dispatcher that
  waits for the loop. From then on the node adds no block and cannot be closed.
* `LateStartWedge`: the services start while the node shuts down, so that the
  state service is subscribed after it was unsubscribed, and never reads.
* `RelayWedge`: `relayBlocksLoop` unsubscribes with its channel full while the
  dispatcher sends to it. Needs as many undelivered blocks as the channel holds.
* `RequestWedge`: a request holds `subsLock` and waits for the dispatcher, which
  waits for `handleSubEvents`, which waits for `subsLock`.
* `StopWedge`: `handleSubEvents` has stopped receiving and unsubscribes while the
  dispatcher sends to it.

### What the properties leave out, and what the models show there

Properties that hold only up to something name it, and the rest was seen while
modelling. Each of these is behaviour of the code:

* `AcceptedBacked` has two exceptions, the cases in which a commit is counted for a
  block its validator did not sign: two proposals of one primary in one view, and
  commits of several views at one height. The first is reached in `DBFT_restart`.
  The second takes a validator that is handed the commits of a view whose request
  it has refused, and a third one in another view: more validators than that run
  has. In both the ledger takes the block all the same. That is why `Agreement` speaks of blocks
  with the signatures of all but F validators, and not of any two ledgers.
* `FetchedUnlessGap`: a queued block that the ledger refuses is dropped, and
  requests start above `lastQ`, so it is never requested again.
* `SplitAtMostOne`: `persist` may flush between the two writes of `storeBlock`; a
  crash then leaves a current block without state root, and the node does not
  start. The damage is bounded to one block, and an orderly `Close` never leaves it.
* `NeverEarly` is about blocks that this node has verified: those its `verifyBlock`
  accepted, and with `VerifyTransactions` all. Without the switch `AddBlock` executes
  whatever order of nonces a signed block has. With it one kind of late transaction
  gets through: of two pooled transactions of one nonce the second is confirmed
  without verification after the first, with a nonce its sender has passed.
* `FeesExact` and `ProposalVerified` exempt senders with a replacement or an eviction
  since the last block, whose accounts are wrong until `RemoveStale`.
* `StopsUnlessWedged`: `StopWedge` also on SIGHUP, in a node that goes on, where it
  stops the dispatcher and with it every later `AddBlock`.
* `ConnectedHasPeer`, `KeepsDialling`: a version that is handled after
  `Server.run` has dropped the connection registers an address that nobody
  unregisters. If it was the last seed, the node stays alone.
* `NotForgotten`: when a connection is dropped before its version, its address
  still counts as unconnected, `BackFill` skips it, and only the seeds come back;
  and a full pool drops an address that may be in no other list.
* `CommitsSigned`, `AcceptedBacked`: what a restarted validator signed before is lost
  with its context, and `OneCommitPerHeight` and `Agreement` exempt it.
* `NotBehind`: until its first event consensus may work on the height that `dbft.Start`
  read, which blocks added before the subscription have overtaken.
* `SupplyIsSum` holds because the supply follows every single change; the sum
  itself is not constant: SELFDESTRUCT adds the balance to the beneficiary without
  taking it from the contract (whose code `Destroy` then deletes under another
  address, so that it stays), and a refund is given back to the sender while
  the committee is paid in full.
* `NoPanic` exempts SSTORE in a test run, which has no access list, and BLOCKHASH of
  a recent block, which calls `GetHash`, a field that `newEVMBlockContext` leaves nil.
* `RootCanonical` and the others of `StateRoots` exempt a node that stopped at height
  0 (`forgotten`): `Init` starts it from an empty trie.
* `CommitteeAgrees` is about roles. The gas price in the cache is ahead of the
  store after a block that failed to be stored.
* `AddMPTBatch` copies the trie but shares the map of counts, so a block that
  fails after it leaves its changes there; `AddStateRoot` sets the validated height
  also to a lower one. Neither is modelled yet.

## 4. Proofs

Eight modules hold proofs, for every value of the constants that the named
assumptions allow. `PROJECT.json` lists the theorems; the others are lemmas. In
every module the argument is the same: `Init` implies an inductive invariant, every
action keeps it, and it implies the property; an action property follows from the
invariant and one step. The invariants of `Execution` and `TxPool` were also
model-checked on the bounds of their runs, before they were proved.

### DBFTProofs

For any number of validators, any choice of those that fail, any bounds
(`NAssumption`, `SetsAssumption`, `BoundsAssumption`, `NoneAssumption`):

| Theorem | Property | |
|---|---|---|
| `Inductive` | `IInv` | the invariant below |
| `TypeCorrect` | `TypeOK`, in no run | contexts, messages and recovery loops are well formed |
| `OneCommit` | `OneCommitPerHeight` | a steady validator signs one block per height |
| `StoredCommitsSigned` | `CommitsSigned` | a stored commit was signed by the validator it is stored under |
| `CommitsPrepared` | `CommitBacked` | a signed block was prepared by M validators |
| `AcceptedSigned` | `AcceptedBacked` | what stands behind a block of a ledger |
| `LedgersAgree` | `Agreement` | one block per height with the signatures of all but F |
| `CommittedStays` | `CommitLock` | a commit locks the view |

`IInv` is stated node by node (`NodeInv`), over the set of all messages sent:
the record has its type, and a request only in the primary's slot (`NodeOK`);
a validator whose preparation is stored prepared something in that view, and the slot of
the primary holds a proposal of the view (`PrepsOK` with `Vote`; what the others
prepared need not be what is stored, because the responses of a recovery message share
one hash, and that may be the hash of no proposal at all); stored commits are
signed (`CommitsOK`); at the height of every block of the ledger a quorum signed,
and the block was proposed (`ChainOK`); what a node sent is as sound as what it
stores (`SentOK`, needed because a recovery message outlives the context it was
made from); and a steady node that has signed at its height still holds that commit
and the request (`Locked`, needed because `sendCommit` sends again whatever is
stored, so that uniqueness follows from what is stored and not from a guard).
`LoopOK` says the same of the recovery loop in progress. There is one lemma per
handler: it keeps `NodeInv` and withdraws nothing that was sent; a handler that
calls another cites its lemma. `NodeStep` lifts this to the system: messages are
never withdrawn, so a step of one node keeps the invariant of the others.

`OnlyProposal` turns "prepared in that view" into "prepared that block" when the
primary has never lost its context, which is the condition in `CommitBacked` and in
`AcceptedBacked`. `QuorumsMeet` is the counting argument: two sets of N - F
validators have more than F in common, so one of them is steady, and its commits of
a height agree. `Steady` means: runs, never lost its context by a restart or a
refused block, and does not lack transactions. A node that restarts has no memory
of its signature; for one that lacks transactions `sendRecoveryRequest` can
complete a proposal without clearing the list of the missing ones, and the proof
covers no such node (`DBFT_views` runs with one).

### BlockSyncProofs

`SlotsFree` and `WakeupsKept`, for all sizes of the buffer and of the chain
(`SizesAssumption`). Besides the two properties the invariant says that a handler
works with a height that the ledger had (`HeightRead`: the bound it checks a block
against is not too high when it stores the block), and that `run` has missed nothing
already when it breaks off and not only when it waits (`Awake`).

### EventFlowProofs

`EventsDelivered` and `ConsensusUpToDate`, for all capacities of the channels
(`Parameters`). Who waits for the dispatcher holds `addLock`, and its block is the
top of the chain (`Lock`), so at most one event is under way; each channel
continues what its subscriber has received, and the event in hand continues the
channel (`Exact`); a subscription is made once and on an empty channel (`Fresh`).

### LedgerProofs

`HeadersAreChain`, `HeadersSurvive`, `BlocksStay`, `SplitBounded`,
`PersistedNeverLost` and `FlushesUnseen`, for any number of blocks, peers and stops
and any size of a batch of hashes (`LedgerAssumption`). The invariant relates three
views of the store: the disk (`DiskInv`: empty, or a snapshot that `init` can
rebuild the header list from, not older than what was reported), what a flush makes
of the disk (`FlushInv`), and what the node reads (`ViewInv`), and says how far the
block being added has come (`AddInv`). `HeadersRestored` is the lemma about `init`:
from a consistent disk the batches and the walk give the list without a gap.
`FlushesUnseen` says that a flush, done, refused or over, changes nothing that
readers see.

### RPCEventsProofs

`CountersExact` and `MissedTold`, for every finite set of clients
(`ClientsAssumption`; the names of the other holders of `subsLock` are no clients)
and all bounds (`Parameters`). A request that waits for the dispatcher has its feed
in the slot but not in the counter, so the counters are exact only while
`subsLock` is free; `Counted` says by how much they differ otherwise, `Waiting` what
the waiting request will do, `Lock` who holds the lock. For the missed events,
`Stream` follows what is on its way to a client: an event after skipped ones
(`Jump`) comes only behind the message about them, and that message is the last
one queued as long as the overflow goroutine has not gone on.

### PeersProofs

`ConnectedKeepPeers` and `UnconnectedKept`, for all nodes, seeds and limits
(`PeersAssumption`; the seeds of a configuration are finitely many). The
invariant says that a version that was accepted is another node's (`ConnOK`) and
that no address is connected and unconnected at once (`BookOK`). A connection that
`Server.run` has received but not yet made a peer counts as one that has a peer
(`Received`), and a failed dial that is not yet registered as underway. `Keeps` is what
every operation on the book does for the addresses it is not about.

### TxPoolProofs

For any senders, transactions, capacity and bounds (`TxsAssumption`,
`PoolAssumption`; `NoneAssumption` says that `None` is neither a transaction nor an
entry):

| Theorem | Property | |
|---|---|---|
| `FeesAreExact` | `FeesExact` | the fee account of an undisturbed sender is the cost of its pooled transactions, and its balance covers it |
| `ProposalsPass` | `ProposalVerified` | what a node proposes is in no block, and passes its own `verifyBlock` if no sender is disturbed |
| `NoneEarly` | `NeverEarly` | a block this node has accepted as a validator executes nothing before its turn; with `VerifyTransactions` no block does, and what comes after its turn was pooled in turn |

The theorems hold for both values of `VerifyTransactions`. `PoolInv` says that list and
map hold the same transactions, each once; that a pooled transaction pays at least the
gas price, is in no block, and is next or was overtaken (`InTurn`; with
`VerifyTransactions` by another of its sender: this makes `NeverEarly` an invariant of
the pool and no longer of histories); that the transactions of a block which
`verifyBlock` has accepted at this height are in turn, which lasts until the height
grows; that its sender has an account; that accounts of undisturbed senders are
`Exact`; and that no balance is negative, also after blocks nobody here has verified,
because a charge above the balance is refused (`ExecuteIs`, `RunIs`).
`FilterClean` is one iteration of `RemoveStale`, `Filtering` the whole loop:
whatever it is given, it leaves accounts that are exact. For a proposal the sum
over places in the list becomes one over a set of pooled transactions
(`SumImage`), which is at most the account (`SumMore`).

### ExecutionProofs

For any contracts, depth, gas and amounts (`ContractsAssumption`,
`AmountsAssumption`, `NativesAssumption`):

| Theorem | Property | |
|---|---|---|
| `CallsAtomic` | `FramesAtomic` | `Execution` implements `NestedCalls`: a call that fails leaves the state of the moment of the call |
| `StaticCallsWriteNothing` | `StaticWritesNothing` | while a static call is open nothing stored changes |
| `CachesAgree` | `CommitteeAgrees` | the caches answer as the store does, at every moment of a block |
| `SupplyExact` | `SupplyIsSum` | the supply is the sum of the balances, in nested calls, after reverts and between blocks |

`FrameInv` ties the frames to the layers: the snapshots of open frames are layers,
in order, so that what an open call would go back to is below everything the
frames above it write (`FramesOn`); the read-only flag is set just while a static
call is open, by the outermost one, and the layers above its snapshot hold no
writes (`StaticOn`). Every operation of the
state database and of the natives is then a write to the top layer or a return to a
snapshot (`Wrote`, `Above`), which is all that the refinement needs. `CacheInv` says
that a cached role that is in force is the one of the store, and that between
`PostPersist` and the writing of the block the caches hold what the block will
write; designations are for later heights only (`FreshRoles`), so a block that
fails to be stored takes nothing back that was in force. `SupplyInv` says that
what is seen through *each* layer, not only through the top one, is balanced
(`Fine`): a revert shows a lower layer. Amounts of gas and prices are integers,
which is what fees and refunds add and subtract.

### Sums and loops

What a fold computes needs induction over data, and the library's induction
theorems cannot be instantiated. Sums over finite sets and loops over sequences
are therefore unfolded from `MapThenSumSet` and `FoldLeft` by hand: a set of
naturals has a least element (`LeastIs`, from the well-foundedness of `<`), so among
the sets or places where a claim about the fold fails there is a smallest one, and
it is refuted from the one before (`SummerIs`, `LoopIs` for the existence of the
function that the fold chooses; `SumOut`: any summand may be taken out first).
`ExecutionProofs` and `TxPoolProofs` each hold the lemmas they need.

### Only model-checked

* Liveness: `FetchedUnlessGap`, `AddReturns`, `Stops`, `BlocksGetThrough`,
  `StopsUnlessWedged` and `KeepsDialling` need fairness and `ENABLED`, which are
  outside the prover.
* `StateRoots`: `RootCanonical`, `CountsExact` and `QueriesRight` are about tries,
  which `Trie` builds and walks with recursive operators.
* `SelfListed`: it needs an invariant on the access list of every layer, not only of
  the one that is seen.
* `Interpreter`: `NoPanic`, `OnInstruction`, `MemoryPaid` and `GasShrinks`; the
  module computes with `Bitwise`, which is recursive too.

## 5. Not modelled

The components with status `not_modelled` in `PROJECT.json`, with reasons.
Within the modelled parts: byte-sized view numbers, watch-only nodes, the cache
of early consensus messages (emptied before it is read), the encodings, metrics
and logging, the seek iterators of the store, and the reader interface of the
ledger; the results of 256-bit arithmetic and of cryptography in the EVM, its
tracers, and the ABI of native contracts; the shutdown of the network, pings and
their timeout, the count of `getaddr`, and the send queues of peers.

## 6. Plan

1. `StateService`: votes, signatures and retries of the state service,
   `AddStateRoot` and the validated height; `ExtPool` with the relay of
   transactions and extensible payloads.
2. The rest of `Peers`: pings and their timeout, send queues, shutdown.
3. An abstract ledger (a growing sequence of blocks) that `DBFT`, `BlockSync`
   and `Ledger` implement; composition of `BlockSync` with `Ledger`.
4. Questions that are understood but have no run of their own: commits that come
   before the request are never verified (`updateExistingPayloads` runs before the
   request is stored), `ConsensusWedge` against what `Close` says about blocks
   being processed, and a failed block between `AddMPTBatch` and
   `UpdateCurrentLocal`.
5. Proofs about one frame of the interpreter, for which the bitwise operations
   would have to be left uninterpreted.
