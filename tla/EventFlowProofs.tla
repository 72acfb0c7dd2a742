-------------------------- MODULE EventFlowProofs --------------------------
(***************************************************************************)
(* Proofs about EventFlow: the dispatcher delivers the blocks to every     *)
(* subscriber in order and without a gap, and consensus is never behind    *)
(* what it has been told, for all capacities of the channels.              *)
(***************************************************************************)
EXTENDS EventFlow, FiniteSetTheorems, TLAPS

Procs == {"queue", "consensus", "relay", "stateroot", "starter", "main", "dispatcher"}
Labels == {"off", "start", "wait", "lock", "send", "relay", "starting", "select", "drain",
           "init", "run", "unsubscribe", "stateroot", "dbft", "subscribe", "consensus",
           "finished", "close", "exit", "closed", "done"}

TypeInv ==
    /\ height \in Nat /\ event \in Nat /\ dbftIndex \in Nat
    /\ feed \subseteq Subscribers /\ left \subseteq feed
    /\ event = 0 <=> left = {}
    /\ buf \in [Subscribers -> Seq(Nat)]
    /\ pc \in [Procs -> Labels]
    /\ want \in [Adders -> Nat]
    /\ got \in [Subscribers -> Nat]
    /\ told \in BOOLEAN

(* Who waits for the dispatcher holds addLock, and its block is the top of *)
(* the chain: at most one event is under way to the dispatcher.            *)
Lock == \A p \in Adders : At(p, "send") => addLock = p /\ want[p] = height /\ height > 0

Sending == \E p \in Adders : At(p, "send")

(* Every subscription is made once, on an empty channel.                   *)
Fresh ==
    /\ buf["stateroot"] = <<>>
    /\ At("relay", "start") => buf["relay"] = <<>> /\ "relay" \notin feed
    /\ ~At("starter", "done") => buf["consensus"] = <<>> /\ "consensus" \notin feed
    /\ ~At("starter", "done") => At("consensus", "off")
    /\ ~At("consensus", "off") => "consensus" \in feed
    /\ told => ~At("consensus", "off")

(* The last block whose event the dispatcher has taken.                    *)
Published == IF Sending THEN height - 1 ELSE height

(* The sequence counts on from n.                                          *)
Counts(q, n) == \A i \in 1 .. Len(q) : q[i] = n + i

(* What is in the channel of a subscriber follows what it has received,    *)
(* the event under way follows the channel, and nothing is missing then.   *)
Exact(s) ==
    /\ Counts(buf[s], got[s])
    /\ s \in left => event = got[s] + Len(buf[s]) + 1 /\ event = Published
    /\ s \notin left => got[s] + Len(buf[s]) = Published

AllExact == \A s \in feed : Exact(s)

IInv == TypeInv /\ Lock /\ Fresh /\ AllExact /\ NotBehind

LEMMA CountsTail ==
  ASSUME NEW q \in Seq(Nat), NEW n \in Nat, Counts(q, n), q # <<>>
  PROVE  /\ Head(q) = n + 1 /\ Len(Tail(q)) = Len(q) - 1
         /\ Counts(Tail(q), n + 1)
  <1>1. /\ Len(Tail(q)) = Len(q) - 1 /\ Len(q) \in Nat \ {0} /\ Head(q) = q[1]
        /\ \A i \in 1 .. Len(Tail(q)) : Tail(q)[i] = q[i + 1]
    OBVIOUS
  <1>2. Head(q) = n + 1
    BY <1>1 DEF Counts
  <1>3. ASSUME NEW i \in 1 .. Len(Tail(q))
        PROVE  Tail(q)[i] = n + 1 + i
    <2>1. Tail(q)[i] = q[i + 1] /\ i + 1 \in 1 .. Len(q)
      BY <1>1
    <2>2. QED
      BY <2>1 DEF Counts
  <1>4. QED
    BY <1>1, <1>2, <1>3 DEF Counts

LEMMA CountsAppend ==
  ASSUME NEW q \in Seq(Nat), NEW n \in Nat, Counts(q, n)
  PROVE  /\ Append(q, n + Len(q) + 1) \in Seq(Nat)
         /\ Len(Append(q, n + Len(q) + 1)) = Len(q) + 1
         /\ Counts(Append(q, n + Len(q) + 1), n)
  <1> DEFINE e == n + Len(q) + 1
  <1>1. /\ Append(q, e) \in Seq(Nat) /\ Len(Append(q, e)) = Len(q) + 1 /\ Len(q) \in Nat
        /\ \A i \in 1 .. Len(q) : Append(q, e)[i] = q[i]
        /\ Append(q, e)[Len(q) + 1] = e
    OBVIOUS
  <1> HIDE DEF e
  <1>2. ASSUME NEW i \in 1 .. Len(Append(q, e))
        PROVE  Append(q, e)[i] = n + i
    BY <1>1 DEF Counts, e
  <1>3. QED
    BY <1>1, <1>2 DEF Counts, e

LEMMA InitIInv == Init => IInv
  <1> SUFFICES ASSUME Init PROVE IInv
    OBVIOUS
  <1>1. pc = [p \in Procs |-> IF p = "queue" THEN "wait" ELSE IF p = "relay" THEN "start"
              ELSE IF p \in {"main", "dispatcher"} THEN "run" ELSE "off"]
    BY DEF Init, Procs
  <1>2. TypeInv
    <2>1. pc \in [Procs -> Labels]
      BY <1>1 DEF Labels
    <2>2. buf \in [Subscribers -> Seq(Nat)]
      BY DEF Init
    <2>3. QED
      BY <2>1, <2>2 DEF Init, TypeInv
  <1>3. Lock /\ Fresh /\ NotBehind
    BY <1>1 DEF Init, Lock, Fresh, NotBehind, At, Procs, Subscribers, Adders
  <1>4. AllExact
    BY DEF Init, AllExact
  <1>5. QED
    BY <1>2, <1>3, <1>4 DEF IInv

(* A step that neither adds nor moves an event, and takes no goroutine     *)
(* past a label the invariant speaks of.                                   *)
Quiet ==
    /\ UNCHANGED <<chain, feed, event, left, buf, history, dbftIndex>>
    /\ pc' \in [Procs -> Labels] /\ want' \in [Adders -> Nat]
    /\ \A p \in Adders : /\ At(p, "send")' <=> At(p, "send")
                         /\ At(p, "send") => want'[p] = want[p]
    /\ At("relay", "start")' => At("relay", "start")
    /\ At("starter", "done")' <=> At("starter", "done")
    /\ At("consensus", "off")' <=> At("consensus", "off")
    /\ At("consensus", "init") => At("consensus", "init")'

(* Only the pieces of state that Exact reads matter to it.                 *)
LEMMA ExactKept ==
  ASSUME AllExact, UNCHANGED <<feed, event, left, buf, got>>, Published' = Published
  PROVE  AllExact'
  BY DEF AllExact, Exact

LEMMA QuietStep == ASSUME IInv, Quiet PROVE IInv'
  <1>1. TypeInv'
    BY DEF IInv, Quiet, TypeInv, chain, history
  <1>2. Lock'
    BY DEF IInv, Quiet, Lock, chain
  <1>3. Fresh'
    BY DEF IInv, Quiet, Fresh, history
  <1>4. NotBehind'
    BY DEF IInv, Quiet, NotBehind, chain, history
  <1>5. Published' = Published
    BY DEF Quiet, Published, Sending, chain
  <1>6. AllExact'
    BY <1>5, ExactKept DEF IInv, Quiet, history
  <1>7. QED
    BY <1>1, <1>2, <1>3, <1>4, <1>6 DEF IInv

LEMMA NextIInv == IInv /\ [Next]_vars => IInv'
  <1> SUFFICES ASSUME IInv, [Next]_vars
               PROVE  IInv'
    OBVIOUS
  <1>0. TypeInv /\ Lock /\ Fresh /\ AllExact /\ NotBehind
    BY DEF IInv
  <1> USE DEF At, Go, Procs, Labels, Adders, Subscribers, chain, disp, history
  <1>1. ASSUME NEW p \in Adders, AddBlock(p)
        PROVE  IInv'
    <2>1. TypeInv'
      BY <1>0, <1>1 DEF AddBlock, TypeInv
    <2>2. Lock'
      BY <1>0, <1>1 DEF AddBlock, TypeInv, Lock
    <2>3. Fresh'
      BY <1>0, <1>1 DEF AddBlock, TypeInv, Fresh
    <2>4. NotBehind'
      BY <1>0, <1>1 DEF AddBlock, TypeInv, NotBehind
    <2>5. Published' = Published
      BY <1>0, <1>1 DEF AddBlock, TypeInv, Lock, Published, Sending
    <2>6. AllExact'
      BY <1>0, <1>1, <2>5, ExactKept DEF AddBlock
    <2>7. QED
      BY <2>1, <2>2, <2>3, <2>4, <2>6 DEF IInv
  <1>2. ASSUME NEW p \in Adders, AddBlockFails(p)
        PROVE  IInv'
    BY <1>0, <1>2, QuietStep DEF AddBlockFails, Return, TypeInv, Quiet
  <1>3. ASSUME NEW p \in Adders, TakeEvent(p)
        PROVE  IInv'
    <2>1. TypeInv'
      BY <1>0, <1>3 DEF TakeEvent, Return, TypeInv, Lock
    <2>2. Lock'
      BY <1>0, <1>3 DEF TakeEvent, Return, TypeInv, Lock
    <2>3. Fresh'
      BY <1>0, <1>3 DEF TakeEvent, Return, TypeInv, Fresh
    <2>4. NotBehind'
      BY <1>0, <1>3 DEF TakeEvent, Return, TypeInv, NotBehind
    <2>5. Published = height - 1 /\ Published' = height
      BY <1>0, <1>3 DEF TakeEvent, Return, TypeInv, Lock, Published, Sending
    <2>6. AllExact'
      <3> SUFFICES ASSUME NEW s \in feed PROVE Exact(s)'
        BY <1>3 DEF TakeEvent, AllExact
      <3>1. s \notin left /\ want[p] = height /\ Exact(s)
        BY <1>0, <1>3 DEF TakeEvent, Selecting, TypeInv, Lock, AllExact
      <3>2. left' = feed /\ event' = height /\ buf' = buf /\ got' = got
        BY <1>3, <3>1 DEF TakeEvent
      <3>3. got[s] \in Nat /\ Len(buf[s]) \in Nat /\ height \in Nat
        BY <1>0 DEF TypeInv
      <3>4. Counts(buf'[s], got'[s])
        BY <3>1, <3>2 DEF Exact
      <3>5. event' = got'[s] + Len(buf'[s]) + 1 /\ event' = Published'
        BY <2>5, <3>1, <3>2, <3>3 DEF Exact
      <3>6. QED
        BY <3>2, <3>4, <3>5 DEF Exact
    <2>7. QED
      BY <2>1, <2>2, <2>3, <2>4, <2>6 DEF IInv
  <1>4. CASE QueueExit \/ QueueRelayed \/ QueueStarted \/ QueueNext
    BY <1>0, <1>4, QuietStep
    DEF QueueExit, QueueRelayed, QueueStarted, QueueNext, TypeInv, Quiet
  <1>5. CASE StartByQueue \/ StartByPeer
    BY <1>0, <1>5, QuietStep
    DEF StartByQueue, StartByPeer, TryStartServices, syncReached, TypeInv, Quiet
  <1>6. CASE InitializeConsensus
    <2>1. TypeInv'
      BY <1>0, <1>6 DEF InitializeConsensus, TypeInv
    <2>2. Lock'
      BY <1>0, <1>6 DEF InitializeConsensus, TypeInv, Lock
    <2>3. Fresh'
      BY <1>0, <1>6 DEF InitializeConsensus, TypeInv, Fresh
    <2>4. NotBehind'
      <3>1. "consensus" \in feed
        BY <1>0, <1>6 DEF InitializeConsensus, Fresh
      <3>2. Exact("consensus")
        BY <1>0, <3>1 DEF AllExact
      <3>3. got["consensus"] \in Nat /\ Len(buf["consensus"]) \in Nat /\ height \in Nat
        BY <1>0 DEF TypeInv
      <3>4. got["consensus"] <= height
        BY <3>2, <3>3 DEF Exact, Published
      <3>5. QED
        BY <1>6, <3>3, <3>4 DEF InitializeConsensus, NotBehind
    <2>5. Published' = Published
      BY <1>0, <1>6 DEF InitializeConsensus, TypeInv, Published, Sending
    <2>6. AllExact'
      BY <1>0, <1>6, <2>5, ExactKept DEF InitializeConsensus
    <2>7. QED
      BY <2>1, <2>2, <2>3, <2>4, <2>6 DEF IInv
  <1>7. ASSUME NEW l, NEW next, HandleChainBlock(l, next),
               <<l, next>> \in {<<"select", "drain">>, <<"drain", "select">>}
        PROVE  IInv'
    <2> DEFINE q == buf["consensus"]
    <2>0. /\ At("consensus", l) /\ l \in {"select", "drain"}
          /\ next \in {"select", "drain"} /\ Go("consensus", next)
          /\ q # <<>> /\ q \in Seq(Nat) /\ Head(q) \in Nat /\ Tail(q) \in Seq(Nat)
          /\ "consensus" \in feed
      <3>1. l \in {"select", "drain"} /\ next \in {"select", "drain"}
        BY <1>7
      <3>2. q # <<>> /\ q \in Seq(Nat)
        BY <1>0, <1>7 DEF HandleChainBlock, TypeInv
      <3>3. Head(q) \in Nat /\ Tail(q) \in Seq(Nat)
        BY <3>2
      <3>4. QED
        BY <1>0, <1>7, <3>1, <3>2, <3>3 DEF HandleChainBlock, Fresh
    <2>1. TypeInv'
      BY <1>0, <1>7, <2>0 DEF HandleChainBlock, TypeInv
    <2>2. Lock'
      BY <1>0, <1>7, <2>0 DEF HandleChainBlock, TypeInv, Lock
    <2>3. Fresh'
      BY <1>0, <1>7, <2>0 DEF HandleChainBlock, TypeInv, Fresh
    <2>e. /\ Exact("consensus") /\ got["consensus"] \in Nat /\ Len(q) \in Nat /\ height \in Nat
          /\ Head(q) = got["consensus"] + 1 /\ Len(q) >= 1
      <3>1. Exact("consensus") /\ got["consensus"] \in Nat /\ Len(q) \in Nat /\ height \in Nat
        BY <1>0, <2>0 DEF TypeInv, AllExact
      <3>2. Len(q) >= 1
        BY <2>0
      <3>3. QED
        BY <2>0, <3>1, <3>2, CountsTail DEF Exact
    <2>4. NotBehind'
      <3>1. Head(q) <= height
        BY <2>e DEF Exact, Published
      <3>2. dbftIndex' = (IF Head(q) >= dbftIndex THEN height + 1 ELSE dbftIndex)
            /\ got'["consensus"] = Head(q) /\ height' = height /\ dbftIndex \in Nat
        BY <1>0, <1>7 DEF HandleChainBlock, TypeInv
      <3>3. Head(q) \in Nat
        BY <2>0
      <3> HIDE DEF q
      <3>4. dbftIndex <= height + 1
        BY <1>0 DEF NotBehind
      <3>5. QED
        BY <2>e, <3>1, <3>2, <3>3, <3>4 DEF NotBehind
    <2>5. Published' = Published
      BY <1>0, <1>7, <2>0 DEF HandleChainBlock, TypeInv, Published, Sending
    <2>6. AllExact'
      <3> SUFFICES ASSUME NEW s \in feed PROVE Exact(s)'
        BY <1>7 DEF HandleChainBlock, AllExact
      <3>1. CASE s # "consensus"
        BY <1>0, <1>7, <2>5, <3>1 DEF HandleChainBlock, TypeInv, AllExact, Exact
      <3>2. CASE s = "consensus"
        <4>1. /\ buf'[s] = Tail(q) /\ got'[s] = got[s] + 1 /\ left' = left /\ event' = event
          BY <1>0, <1>7, <2>e, <3>2 DEF HandleChainBlock, TypeInv
        <4>2. Len(Tail(q)) = Len(q) - 1 /\ Counts(Tail(q), got[s] + 1)
          BY <2>0, <2>e, <3>2, CountsTail DEF Exact
        <4>3. Counts(buf'[s], got'[s])
          BY <4>1, <4>2
        <4>4. got'[s] + Len(buf'[s]) = got[s] + Len(q)
          BY <2>e, <3>2, <4>1, <4>2
        <4>5. QED
          BY <2>e, <2>5, <3>2, <4>1, <4>3, <4>4 DEF Exact
      <3>3. QED
        BY <3>1, <3>2
    <2>7. QED
      BY <2>1, <2>2, <2>3, <2>4, <2>6 DEF IInv
  <1>8. CASE DrainNone \/ OnMessage \/ OnLastCommit \/ OnQuit
    BY <1>0, <1>8, QuietStep DEF DrainNone, OnMessage, OnLastCommit, OnQuit, TypeInv, Quiet
  <1>9. ASSUME NEW s \in Subscribers, SendBuffered(s)
        PROVE  IInv'
    <2>0. s \in left /\ s \in feed /\ event \in Nat /\ buf[s] \in Seq(Nat)
      BY <1>0, <1>9 DEF SendBuffered, Sent, TypeInv
    <2>1. TypeInv'
      <3>1. /\ left' \subseteq feed /\ feed' = feed /\ (event' = 0 <=> left' = {})
            /\ event' \in Nat
        BY <1>0, <1>9, <2>0 DEF SendBuffered, Sent, TypeInv
      <3>2. buf' \in [Subscribers -> Seq(Nat)]
        BY <1>0, <1>9, <2>0 DEF SendBuffered, TypeInv
      <3>3. QED
        BY <1>0, <1>9, <3>1, <3>2 DEF SendBuffered, TypeInv
    <2>2. Lock'
      BY <1>0, <1>9 DEF SendBuffered, Sent, Lock
    <2>3. Fresh'
      <3>1. s # "stateroot"
        BY <1>0, <1>9 DEF SendBuffered, Fresh, Cap
      <3>2. QED
        BY <1>0, <1>9, <2>0, <3>1 DEF SendBuffered, Sent, TypeInv, Fresh
    <2>4. NotBehind'
      BY <1>0, <1>9 DEF SendBuffered, Sent, NotBehind
    <2>5. Published' = Published
      BY <1>9 DEF SendBuffered, Published, Sending
    <2>6. AllExact'
      <3> SUFFICES ASSUME NEW t \in feed PROVE Exact(t)'
        BY <1>9 DEF SendBuffered, Sent, AllExact
      <3>0. /\ event' = event \/ left' = {}
            /\ left' = left \ {s} /\ got' = got
        BY <1>9 DEF SendBuffered, Sent
      <3>1. CASE t # s
        BY <1>0, <1>9, <2>5, <3>0, <3>1 DEF SendBuffered, TypeInv, AllExact, Exact
      <3>2. CASE t = s
        <4>1. buf'[s] = Append(buf[s], event)
          BY <1>0, <1>9 DEF SendBuffered, TypeInv
        <4>2. /\ Counts(buf[s], got[s]) /\ got[s] \in Nat /\ Len(buf[s]) \in Nat
              /\ event = got[s] + Len(buf[s]) + 1 /\ event = Published
          BY <1>0, <2>0 DEF TypeInv, AllExact, Exact
        <4>3. Len(buf'[s]) = Len(buf[s]) + 1 /\ Counts(buf'[s], got[s])
          BY <2>0, <4>1, <4>2, CountsAppend
        <4>5. got'[s] + Len(buf'[s]) = Published' /\ s \notin left'
          BY <2>5, <3>0, <4>2, <4>3
        <4>6. QED
          BY <3>0, <3>2, <4>3, <4>5 DEF Exact
      <3>3. QED
        BY <3>1, <3>2
    <2>7. QED
      BY <2>1, <2>2, <2>3, <2>4, <2>6 DEF IInv
  <1>10. CASE SendStateroot
    <2>0. "stateroot" \in left /\ "stateroot" \in feed /\ event \in Nat /\ buf["stateroot"] = <<>>
      BY <1>0, <1>10 DEF SendStateroot, Sent, TypeInv, Fresh
    <2>1. TypeInv'
      BY <1>0, <1>10, <2>0 DEF SendStateroot, Sent, TypeInv
    <2>2. Lock'
      BY <1>0, <1>10 DEF SendStateroot, Sent, Lock
    <2>3. Fresh'
      BY <1>0, <1>10 DEF SendStateroot, Sent, Fresh
    <2>4. NotBehind'
      BY <1>0, <1>10 DEF SendStateroot, Sent, TypeInv, NotBehind
    <2>5. Published' = Published
      BY <1>10 DEF SendStateroot, Published, Sending
    <2>6. AllExact'
      <3> SUFFICES ASSUME NEW t \in feed PROVE Exact(t)'
        BY <1>10 DEF SendStateroot, Sent, AllExact
      <3>0. /\ event' = event \/ left' = {}
            /\ left' = left \ {"stateroot"} /\ buf' = buf
        BY <1>10 DEF SendStateroot, Sent
      <3>1. CASE t # "stateroot"
        BY <1>0, <1>10, <2>5, <3>0, <3>1 DEF SendStateroot, TypeInv, AllExact, Exact
      <3>2. CASE t = "stateroot"
        <4>1. got'[t] = event
          BY <1>0, <1>10, <3>2 DEF SendStateroot, TypeInv
        <4>2. Exact(t) /\ Len(buf[t]) = 0
          BY <1>0, <2>0, <3>2 DEF AllExact
        <4>3. QED
          BY <2>0, <2>5, <3>0, <3>2, <4>1, <4>2 DEF Exact, Counts
      <3>3. QED
        BY <3>1, <3>2
    <2>7. QED
      BY <2>1, <2>2, <2>3, <2>4, <2>6 DEF IInv
  <1>11. CASE DispatcherReturn
    BY <1>0, <1>11, QuietStep DEF DispatcherReturn, TypeInv, Quiet
  <1>12. ASSUME NEW s \in Subscribers, NEW p, NEW l, NEW next,
                Subscribe(p, l, s, next), UNCHANGED <<chain, buf, want>>, buf[s] = <<>>,
                \A a \in Adders : At(a, "send")' <=> At(a, "send")
         PROVE  /\ AllExact' /\ Lock'
                /\ got' \in [Subscribers -> Nat] /\ \A t \in Subscribers \ {s} : got'[t] = got[t]
                /\ feed' = feed \cup {s} /\ event' = event /\ left' = left
    <2> DEFINE senders == {a \in Adders : At(a, "send")}
    <2>1. /\ feed' = feed \cup {s} /\ event' = event /\ left' = left /\ left = {}
          /\ got' = [got EXCEPT ![s] = height - Cardinality(senders)]
      BY <1>0, <1>12 DEF Subscribe, Selecting, TypeInv
    <2>2. height - Cardinality(senders) = Published /\ Published \in Nat
      <3>1. CASE Sending
        <4>1. PICK a \in Adders : At(a, "send")
          BY <3>1 DEF Sending
        <4>2. senders = {a}
          BY <1>0, <4>1 DEF Lock
        <4>3. Cardinality(senders) = 1
          BY <4>2, FS_Singleton
        <4> HIDE DEF senders
        <4>4. QED
          BY <1>0, <3>1, <4>1, <4>3 DEF TypeInv, Lock, Published
      <3>2. CASE ~Sending
        <4>1. senders = {}
          BY <3>2 DEF Sending
        <4>2. Cardinality(senders) = 0
          BY <4>1, FS_EmptySet
        <4> HIDE DEF senders
        <4>3. QED
          BY <1>0, <3>2, <4>2 DEF TypeInv, Published
      <3>3. QED
        BY <3>1, <3>2
    <2>3. Published' = Published
      BY <1>12 DEF Published, Sending
    <2>4. got' = [got EXCEPT ![s] = Published]
      BY <2>1, <2>2
    <2> HIDE DEF senders
    <2>5. got' \in [Subscribers -> Nat] /\ \A t \in Subscribers \ {s} : got'[t] = got[t]
      BY <1>0, <2>2, <2>4 DEF TypeInv
    <2>6. AllExact'
      <3> SUFFICES ASSUME NEW t \in feed \cup {s} PROVE Exact(t)'
        BY <2>1 DEF AllExact
      <3>1. CASE t # s
        BY <1>0, <1>12, <2>1, <2>3, <2>4, <3>1 DEF TypeInv, AllExact, Exact
      <3>2. CASE t = s
        BY <1>0, <1>12, <2>1, <2>2, <2>3, <2>4, <3>2 DEF TypeInv, Exact, Counts
      <3>3. QED
        BY <3>1, <3>2
    <2>7. Lock'
      BY <1>0, <1>12 DEF Lock
    <2>8. QED
      BY <2>1, <2>5, <2>6, <2>7
  <1>13. CASE StartStateroot
    <2>1. /\ AllExact' /\ Lock'
          /\ got' \in [Subscribers -> Nat] /\ got'["consensus"] = got["consensus"]
          /\ feed' = feed \cup {"stateroot"} /\ event' = event /\ left' = left
      BY <1>0, <1>12, <1>13 DEF StartStateroot, Subscribe, TypeInv, Fresh
    <2>2. TypeInv'
      BY <1>0, <1>13, <2>1 DEF StartStateroot, Subscribe, TypeInv
    <2>3. Fresh' /\ NotBehind'
      BY <1>0, <1>13, <2>1 DEF StartStateroot, Subscribe, TypeInv, Fresh, NotBehind
    <2>4. QED
      BY <2>1, <2>2, <2>3 DEF IInv
  <1>14. CASE StartConsensus
    <2>1. /\ AllExact' /\ Lock'
          /\ got' \in [Subscribers -> Nat]
          /\ feed' = feed \cup {"consensus"} /\ event' = event /\ left' = left
      BY <1>0, <1>12, <1>14 DEF StartConsensus, Subscribe, TypeInv, Fresh
    <2>2. TypeInv'
      BY <1>0, <1>14, <2>1 DEF StartConsensus, Subscribe, TypeInv
    <2>3. Fresh' /\ NotBehind'
      BY <1>0, <1>14, <2>1 DEF StartConsensus, Subscribe, TypeInv, Fresh, NotBehind
    <2>4. QED
      BY <2>1, <2>2, <2>3 DEF IInv
  <1>15. CASE RelaySubscribe
    <2>1. /\ AllExact' /\ Lock'
          /\ got' \in [Subscribers -> Nat] /\ got'["consensus"] = got["consensus"]
          /\ feed' = feed \cup {"relay"} /\ event' = event /\ left' = left
      BY <1>0, <1>12, <1>15 DEF RelaySubscribe, Subscribe, TypeInv, Fresh
    <2>2. TypeInv'
      BY <1>0, <1>15, <2>1 DEF RelaySubscribe, Subscribe, TypeInv
    <2>3. Fresh' /\ NotBehind'
      BY <1>0, <1>15, <2>1 DEF RelaySubscribe, Subscribe, TypeInv, Fresh, NotBehind
    <2>4. QED
      BY <2>1, <2>2, <2>3 DEF IInv
  <1>16. CASE StartDbft
    <2>1. TypeInv' /\ Lock'
      BY <1>0, <1>16 DEF StartDbft, TypeInv, Lock
    <2>2. Fresh' /\ NotBehind'
      BY <1>0, <1>16 DEF StartDbft, TypeInv, Fresh, NotBehind
    <2>3. Published' = Published
      BY <1>0, <1>16 DEF StartDbft, TypeInv, Published, Sending
    <2>4. AllExact'
      BY <1>0, <1>16, <2>3, ExactKept DEF StartDbft
    <2>5. QED
      BY <2>1, <2>2, <2>4 DEF IInv
  <1>17. CASE RelayBlock
    <2> DEFINE q == buf["relay"]
    <2>1. q # <<>> /\ q \in Seq(Nat) /\ Head(q) \in Nat /\ Tail(q) \in Seq(Nat)
      <3>1. q # <<>> /\ q \in Seq(Nat)
        BY <1>0, <1>17 DEF RelayBlock, TypeInv
      <3>2. QED
        BY <3>1
    <2>2. TypeInv' /\ Lock'
      BY <1>0, <1>17, <2>1 DEF RelayBlock, TypeInv, Lock
    <2>3. Fresh' /\ NotBehind'
      BY <1>0, <1>17, <2>1 DEF RelayBlock, TypeInv, Fresh, NotBehind
    <2>4. Published' = Published
      BY <1>17 DEF RelayBlock, Published, Sending
    <2>5. AllExact'
      <3> SUFFICES ASSUME NEW s \in feed PROVE Exact(s)'
        BY <1>17 DEF RelayBlock, AllExact
      <3>1. CASE s # "relay"
        BY <1>0, <1>17, <2>4, <3>1 DEF RelayBlock, TypeInv, AllExact, Exact
      <3>2. CASE s = "relay"
        <4>1. Exact(s) /\ got[s] \in Nat /\ Len(q) \in Nat /\ s \in Subscribers
          BY <1>0, <3>2 DEF TypeInv, AllExact
        <4>2. Head(q) = got[s] + 1 /\ Len(Tail(q)) = Len(q) - 1 /\ Counts(Tail(q), got[s] + 1)
          BY <2>1, <3>2, <4>1, CountsTail DEF Exact
        <4>3. buf'[s] = Tail(q) /\ got'[s] = got[s] + 1 /\ left' = left /\ event' = event
          BY <1>0, <1>17, <3>2, <4>2 DEF RelayBlock, TypeInv
        <4>4. Counts(buf'[s], got'[s])
          BY <4>2, <4>3
        <4>5. got'[s] + Len(buf'[s]) = got[s] + Len(q)
          BY <4>1, <4>2, <4>3
        <4>6. QED
          BY <2>4, <3>2, <4>1, <4>3, <4>4, <4>5 DEF Exact
      <3>3. QED
        BY <3>1, <3>2
    <2>6. QED
      BY <2>2, <2>3, <2>5 DEF IInv
  <1>18. CASE RelayQuit \/ StaterootDone \/ StaterootDrained \/ Shutdown \/ ShutdownConsensus \/ ConsensusFinished
              \/ RunExits
    <2>1. CASE RelayQuit \/ StaterootDone \/ StaterootDrained
      BY <1>0, <2>1, QuietStep DEF RelayQuit, StaterootDone, StaterootDrained, TypeInv, Quiet
    <2>2. CASE ShutdownConsensus
      <3>1. PICK l \in {"finished", "close"} : pc' = [pc EXCEPT !["main"] = l]
        BY <2>2 DEF ShutdownConsensus
      <3>2. QED
        BY <1>0, <2>2, <3>1, QuietStep DEF ShutdownConsensus, TypeInv, Quiet
    <2>3. CASE Shutdown \/ ConsensusFinished \/ RunExits
      BY <1>0, <2>3, QuietStep DEF Shutdown, ConsensusFinished, RunExits, TypeInv, Quiet
    <2>4. QED
      BY <1>18, <2>1, <2>2, <2>3
  <1>19. ASSUME NEW s \in {"relay", "stateroot"}, NEW p \in {"relay", "main"}, NEW l, NEW next,
                Unsubscribe(p, l, s), Go(p, next), p = "relay" => next = "done",
                p = "main" => next = "consensus", l # "send",
                UNCHANGED <<chain, buf, want, dbftIndex>>
         PROVE  IInv'
    <2>1. TypeInv' /\ Lock'
      BY <1>0, <1>19 DEF Unsubscribe, Selecting, TypeInv, Lock
    <2>2. Fresh' /\ NotBehind'
      BY <1>0, <1>19 DEF Unsubscribe, TypeInv, Fresh, NotBehind
    <2>3. Published' = Published
      BY <1>0, <1>19 DEF TypeInv, Published, Sending
    <2>4. AllExact'
      BY <1>0, <1>19, <2>3 DEF Unsubscribe, TypeInv, AllExact, Exact
    <2>5. QED
      BY <2>1, <2>2, <2>4 DEF IInv
  <1>20. CASE Close
    <2>1. TypeInv' /\ Lock'
      BY <1>0, <1>20 DEF Close, TypeInv, Lock
    <2>2. Fresh' /\ NotBehind'
      BY <1>0, <1>20 DEF Close, TypeInv, Fresh, NotBehind
    <2>3. Published' = Published
      BY <1>0, <1>20 DEF Close, TypeInv, Published, Sending
    <2>4. AllExact'
      BY <1>0, <1>20, <2>3, ExactKept DEF Close
    <2>5. QED
      BY <2>1, <2>2, <2>4 DEF IInv
  <1>21. CASE UNCHANGED vars
    BY <1>0, <1>21, QuietStep DEF vars, TypeInv, Quiet
  <1>22. QED
    <2>1. RelayUnsubscribe \/ ShutdownStateroot => IInv'
      BY <1>19 DEF RelayUnsubscribe, ShutdownStateroot
    <2>2. OnBlockEvent \/ DrainEvent => IInv'
      BY <1>7 DEF OnBlockEvent, DrainEvent
    <2>3. \A p \in Adders : Adding(p) => IInv'
      BY <1>1, <1>2, <1>3 DEF Adding
    <2>4. Queue \/ QueueNext \/ StartByPeer => IInv'
      BY <1>4, <1>5, <2>3 DEF Queue
    <2>5. Consensus \/ OnQuit => IInv'
      BY <1>6, <1>8, <2>2, <2>3 DEF Consensus, Drain
    <2>6. Others \/ Shutdown => IInv'
      BY <1>9, <1>10, <1>11, <1>13, <1>14, <1>15, <1>16, <1>17, <1>18, <1>20, <2>1 DEF Others
    <2>7. QED
      BY <1>21, <2>4, <2>5, <2>6 DEF Next, Running

(* The blocks on their way to a subscriber count on from the last one it   *)
(* has received.                                                           *)
LEMMA ExactComing ==
  ASSUME IInv, NEW s \in feed
  PROVE  got[s] + Len(Coming(s)) = height /\ Counts(Coming(s), got[s])
  <1> DEFINE q == buf[s]
             r == q \o (IF s \in left THEN <<event>> ELSE <<>>)
  <1>1. /\ q \in Seq(Nat) /\ got[s] \in Nat /\ height \in Nat /\ Len(q) \in Nat
        /\ Exact(s) /\ Published = IF Sending THEN height - 1 ELSE height
    BY DEF IInv, TypeInv, AllExact, Published, Subscribers
  <1>2. r \in Seq(Nat) /\ Counts(r, got[s]) /\ got[s] + Len(r) = Published
    <2>1. CASE s \in left
      <3>1. r = Append(q, got[s] + Len(q) + 1)
        BY <1>1, <2>1 DEF Exact
      <3> HIDE DEF r
      <3>2. r \in Seq(Nat) /\ Len(r) = Len(q) + 1 /\ Counts(r, got[s])
        BY <1>1, <3>1, CountsAppend DEF Exact
      <3>3. got[s] + Len(q) + 1 = Published
        BY <1>1, <2>1 DEF Exact
      <3> HIDE DEF q
      <3>4. QED
        BY <1>1, <3>2, <3>3
    <2>2. CASE s \notin left
      <3>1. r = q
        BY <1>1, <2>2
      <3>2. QED
        BY <1>1, <2>2, <3>1 DEF Exact
    <2>3. QED
      BY <2>1, <2>2
  <1>3. Coming(s) = r \o (IF Sending THEN <<height>> ELSE <<>>)
    BY DEF Coming, Sending
  <1> HIDE DEF r
  <1>4. CASE Sending
    <2>1. height = got[s] + Len(r) + 1
      BY <1>1, <1>2, <1>4
    <2>2. Coming(s) = Append(r, got[s] + Len(r) + 1)
      BY <1>1, <1>2, <1>3, <1>4, <2>1
    <2>3. QED
      BY <1>1, <1>2, <2>1, <2>2, CountsAppend
  <1>5. CASE ~Sending
    BY <1>1, <1>2, <1>3, <1>5
  <1>6. QED
    BY <1>4, <1>5

(* Whoever adds blocks and however slow a subscriber is, it receives every *)
(* block after its subscription, once and in order                         *)
(* (notificationDispatcher, storeBlock), for all capacities.               *)
THEOREM EventsDelivered == Spec => []NothingLost
  <1>1. ASSUME IInv PROVE NothingLost
    <2> SUFFICES ASSUME NEW s \in feed
                 PROVE  /\ got[s] + Len(Coming(s)) = height
                        /\ \A i \in DOMAIN Coming(s) : Coming(s)[i] = got[s] + i
      BY DEF NothingLost
    <2>1. Coming(s) \in Seq(Nat)
      BY <1>1 DEF IInv, TypeInv, Coming
    <2>2. QED
      BY <1>1, <2>1, ExactComing DEF Counts
  <1>2. QED
    BY <1>1, InitIInv, NextIInv, PTL DEF Spec

(* dbft never works on a block it has been told the chain has, however     *)
(* its own blocks and the queue's interleave with the events               *)
(* (handleChainBlock, InitializeConsensus).                                *)
THEOREM ConsensusUpToDate == Spec => []NotBehind
  <1>1. IInv => NotBehind
    BY DEF IInv
  <1>2. QED
    BY <1>1, InitIInv, NextIInv, PTL DEF Spec
=============================================================================
