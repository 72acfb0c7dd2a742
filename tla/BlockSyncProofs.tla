-------------------------- MODULE BlockSyncProofs --------------------------
(***************************************************************************)
(* Proofs about BlockSync: what the ring buffer of the block queue holds,  *)
(* and that its goroutine is never left asleep with work to do.            *)
(***************************************************************************)
EXTENDS BlockSync, TLAPS

(* Types of the state the two properties are about.  lastQ and the         *)
(* requests do not matter to them.                                         *)
RunPcs == {"wait", "height", "take", "break", "add", "clean", "stopped"}
TypeInv ==
    /\ height \in Nat
    /\ queue \in [Slots -> Nat]
    /\ checkBlocks \in {"empty", "full", "closed"}
    /\ run \in [pc : RunPcs, h : Nat, b : Nat, lastHeight : Nat]
    /\ put \in [Peers -> [pc : {"idle", "store", "signal"}, h : Nat, i : Nat]]
    /\ wire \subseteq Nat

(* A handler works with a height that the ledger had: the bound it checks  *)
(* a block against is at most the one that holds when it stores the block. *)
HeightRead == \A p \in Peers : put[p].h <= height

(* Between its last look at the queue and its wait, run has missed nothing *)
(* for which no signal is under way.                                       *)
Awake ==
    /\ run.pc \in {"wait", "break"} /\ checkBlocks = "empty"
    /\ \A p \in Peers : put[p].pc # "signal"
    => queue[IndexToPosition(run.lastHeight + 1)] # run.lastHeight + 1

IInv == TypeInv /\ HeightRead /\ NextSlotFree /\ Awake

(* The slot of an index is a slot.                                         *)
LEMMA PositionIsSlot == \A i \in Nat : IndexToPosition(i) \in Slots
  BY SizesAssumption DEF IndexToPosition, Slots

LEMMA InitIInv == Init => IInv
  BY PositionIsSlot, SizesAssumption
  DEF Init, IInv, TypeInv, HeightRead, NextSlotFree, Awake, RunPcs, Slots

LEMMA NextIInv == IInv /\ [Next]_vars => IInv'
  <1> SUFFICES ASSUME IInv, [Next]_vars
               PROVE  IInv'
    OBVIOUS
  <1> USE PositionIsSlot, SizesAssumption DEF IInv
  <1>1. ASSUME NEW p \in Peers, Request(p)
        PROVE  IInv'
    BY <1>1 DEF Request, TypeInv, HeightRead, NextSlotFree, Awake, chainVars, queueVars
  <1>2. ASSUME NEW p \in Peers, NEW r, NEW answered \in BOOLEAN, SendRequest(p, r, answered)
        PROVE  IInv'
    <2>1. wire' \subseteq Nat
      <3>1. \A start, count : Answer(start, count) \subseteq Indexes
        BY Zenon DEF Answer
      <3>2. Indexes \subseteq Nat
        BY DEF Indexes
      <3>3. QED
        BY <1>2, <3>1, <3>2 DEF SendRequest, TypeInv
    <2>2. QED
      BY <1>2, <2>1 DEF SendRequest, TypeInv, HeightRead, NextSlotFree, Awake, chainVars, queueVars
  <1>3. ASSUME NEW p \in Peers, NEW i \in wire, PutBlock(p, i)
        PROVE  IInv'
    BY <1>3 DEF PutBlock, TypeInv, HeightRead, NextSlotFree, Awake, chainVars, queueVars
  <1>4. ASSUME NEW p \in Peers, StoreBlock(p)
        PROVE  IInv'
    <2> DEFINE i == put[p].i
               pos == IndexToPosition(i)
    <2>1. pos \in Slots /\ i \in Nat /\ put[p].h <= height /\ put[p].h \in Nat
      BY DEF TypeInv, HeightRead
    <2>2. CASE i <= put[p].h \/ put[p].h + BlockCacheSize < i
      BY <1>4, <2>2 DEF StoreBlock, TypeInv, HeightRead, NextSlotFree, Awake, chainVars, queueVars
    <2>3. CASE ~(i <= put[p].h \/ put[p].h + BlockCacheSize < i)
      <3>1. /\ put' = [put EXCEPT ![p].pc = "signal"]
            /\ queue' = [queue EXCEPT ![pos] = i] \/ queue' = queue
            /\ UNCHANGED <<chainVars, checkBlocks, run, wire>>
        BY <1>4, <2>3 DEF StoreBlock, queueVars
      <3>2. TypeInv' /\ HeightRead'
        BY <2>1, <3>1 DEF TypeInv, HeightRead, chainVars
      <3>3. NextSlotFree'
        BY <2>1, <2>3, <3>1 DEF TypeInv, NextSlotFree, chainVars
      <3>4. Awake'
        BY <3>1 DEF TypeInv, Awake
      <3>5. QED
        BY <3>2, <3>3, <3>4
    <2>4. QED
      BY <2>2, <2>3
  <1>5. ASSUME NEW p \in Peers, Signal(p)
        PROVE  IInv'
    BY <1>5 DEF Signal, TypeInv, HeightRead, NextSlotFree, Awake, chainVars, queueVars
  <1>6. CASE Announce
    BY <1>6 DEF Announce, TypeInv, HeightRead, NextSlotFree, Awake, chainVars, queueVars
  <1>7. CASE RunWake
    BY <1>7 DEF RunWake, TypeInv, RunPcs, HeightRead, NextSlotFree, Awake, chainVars, queueVars
  <1>8. CASE RunHeight
    BY <1>8 DEF RunHeight, TypeInv, RunPcs, HeightRead, NextSlotFree, Awake, chainVars, queueVars
  <1>9. CASE RunTake
    <2>1. /\ queue' \in [Slots -> Nat]
          /\ \A s \in Slots : queue'[s] = queue[s] \/ queue'[s] = 0
      BY <1>9 DEF RunTake, TypeInv
    <2>2. UNCHANGED <<chainVars, checkBlocks, put, wire>>
      BY <1>9 DEF RunTake
    <2>3. /\ run' \in [pc : RunPcs, h : Nat, b : Nat, lastHeight : Nat]
          /\ run'.pc \in {"break", "add"} /\ run'.lastHeight = run.h
          /\ run'.pc = "break" => queue[IndexToPosition(run.h + 1)] = 0
      <3> DEFINE b == queue[IndexToPosition(run.h + 1)]
      <3>1. run.h \in Nat /\ IndexToPosition(run.h + 1) \in Slots
        BY DEF TypeInv
      <3>2. b \in Nat
        BY <3>1 DEF TypeInv
      <3>3. run' = IF b = 0 THEN [pc |-> "break", h |-> 0, b |-> 0, lastHeight |-> run.h]
                   ELSE [run EXCEPT !.pc = "add", !.b = b, !.lastHeight = run.h]
        BY <1>9 DEF RunTake
      <3> HIDE DEF b
      <3>4. QED
        BY <3>1, <3>2, <3>3 DEF TypeInv, RunPcs, b
    <2>4. TypeInv' /\ HeightRead' /\ NextSlotFree'
      BY <2>1, <2>2, <2>3 DEF TypeInv, HeightRead, NextSlotFree, chainVars
    <2>5. Awake'
      BY <2>1, <2>3 DEF TypeInv, Awake
    <2>6. QED
      BY <2>4, <2>5
  <1>10. CASE RunBreak
    BY <1>10 DEF RunBreak, TypeInv, RunPcs, HeightRead, NextSlotFree, Awake, chainVars, queueVars
  <1>11. CASE RunAdd
    BY <1>11 DEF RunAdd, TypeInv, RunPcs, HeightRead, NextSlotFree, Awake, chainVars, queueVars
  <1>12. CASE RunClean
    BY <1>12 DEF RunClean, TypeInv, RunPcs, HeightRead, NextSlotFree, Awake, chainVars
  <1>13. CASE ConsensusAdd
    BY <1>13 DEF ConsensusAdd, TypeInv, HeightRead, NextSlotFree, Awake, queueVars
  <1>14. CASE Discard
    BY <1>14 DEF Discard, TypeInv, HeightRead, NextSlotFree, Awake, chainVars
  <1>15. CASE UNCHANGED vars
    BY <1>15 DEF vars, TypeInv, HeightRead, NextSlotFree, Awake
  <1>16. QED
    BY <1>1, <1>2, <1>3, <1>4, <1>5, <1>6, <1>7, <1>8, <1>9, <1>10, <1>11, <1>12, <1>13,
       <1>14, <1>15
    DEF Next, Run

(* Whatever handlers, consensus and shutdown do in between, a block is in  *)
(* the slot of its index and at most one round ahead of the ledger         *)
(* (putBlock, run), for every size of the buffer.                          *)
THEOREM SlotsFree == Spec => []NextSlotFree
  <1>1. IInv => NextSlotFree
    BY DEF IInv
  <1>2. QED
    BY <1>1, InitIInv, NextIInv, PTL DEF Spec

(* run never sleeps on a block it should take without a signal under way,  *)
(* for every number of peers (putBlock, run).                              *)
THEOREM WakeupsKept == Spec => []NoLostWakeup
  <1>1. IInv => NoLostWakeup
    BY DEF IInv, Awake, NoLostWakeup
  <1>2. QED
    BY <1>1, InitIInv, NextIInv, PTL DEF Spec
=============================================================================
