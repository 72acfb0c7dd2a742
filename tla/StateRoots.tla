----------------------------- MODULE StateRoots -----------------------------
(***************************************************************************)
(* The trie of the local state roots over its life: the batch of every     *)
(* block, reference counts and their flush, the write-cached store, its    *)
(* persistence, garbage collection and restarts (pkg/core/mpt/trie.go,     *)
(* pkg/core/stateroot/module.go, Run and tryRunGC in                       *)
(* pkg/core/blockchain.go).                                                *)
(***************************************************************************)
EXTENDS Trie

CONSTANTS
    Keys, Values,          \* storage keys, as sequences of nibbles, and values
    Modes,                 \* of "all", "latest" and "gc"
    BatchesAt,             \* bound: the changes that the block of a height may make
    MaxHeight,             \* bound: of the chain
    RestoreHeight,         \* bound: the height whose trie is restored elsewhere
    CollapseDepth,         \* storeBlock: 10
    MaxTraceableBlocks, GarbageCollectionPeriod

VARIABLES
    mode,          \* Trie.mode
    root,          \* Trie.root
    refcount,      \* Trie.refcount: changes, and the cached count of the store
    mem, disk,     \* what the cached store and the database hold for a hash
    height,        \* of the chain, -1 before the genesis block
    saved,         \* the height of the database
    roots,         \* local state roots, by height + 1
    gcFrom,        \* the height before persist while tryRunGC is due, else -1
    collected,     \* the highest height that GC was run for
    broken,        \* an operation failed or panicked
    contents,      \* the key-value pairs of every height
    forgotten,     \* Init at height 0 has dropped the genesis trie; followed no further
    billet         \* a copy that is restored: root, counts, nodes to come, leaves

vars == <<mode, root, refcount, mem, disk, height, saved, roots, gcFrom, collected, broken, contents, forgotten, billet>>

RC == mode \in {"latest", "gc"}
GC == mode = "gc"
NoEntry == [active |-> FALSE, n |-> -1]
NoBillet == [state |-> "none"]

---------------------------------------------------------------------------
(* The store *)

Stored(h) == IF h \in DOMAIN mem THEN mem[h] ELSE IF h \in DOMAIN disk THEN disk[h] ELSE NoEntry
Hashes == {h \in DOMAIN mem \cup DOMAIN disk : Stored(h) # NoEntry}

\* getFromStore finds nothing inactive when garbage is collected; the tries that
\* answer queries are opened without that flag.
Loadable == {h \in Hashes : GC => Stored(h).active}

\* addRef, removeRef, and what getFromStore notes in passing.
Note(refs, entry) ==
    LET h == entry[2]
        Change(d) == IF h \in DOMAIN refs THEN [refs EXCEPT ![h].change = @ + d]
                     ELSE refs @@ (h :> [change |-> d, initial |-> 0])
    IN  CASE entry[1] = "add" -> Change(1)
          [] entry[1] = "remove" -> Change(-1)
          [] entry[1] = "load" -> IF RC /\ h \in DOMAIN refs /\ h \in Hashes
                                  THEN [refs EXCEPT ![h].initial = Stored(h).n] ELSE refs

Noted(log) == FoldLeft(Note, refcount, log)
LoadsFail(log) == \E i \in DOMAIN log : log[i][1] = "load" /\ log[i][2] \notin Loadable

\* updateRefCount: the cached count, or that of the store.
NewCount(refs, h) ==
    LET known == IF refs[h].initial # 0 THEN refs[h].initial
                 ELSE IF h \in Loadable THEN Stored(h).n ELSE 0
    IN  known + refs[h].change

\* What updateRefCount leaves in the store.
NewEntry(refs, h, index) ==
    CASE ~RC -> [active |-> TRUE, n |-> 0]
      [] RC /\ NewCount(refs, h) > 0 -> [active |-> TRUE, n |-> NewCount(refs, h)]
      [] GC /\ NewCount(refs, h) <= 0 -> [active |-> FALSE, n |-> index]
      [] OTHER -> NoEntry

\* Flush
Written(refs) == {h \in DOMAIN refs : IF RC THEN refs[h].change # 0 ELSE refs[h].change > 0}
Flushed(refs, index) == [h \in Written(refs) |-> NewEntry(refs, h, index)] @@ mem
KeptRefs(refs) ==
    LET kept == {h \in DOMAIN refs : refs[h].change # 0 /\ (RC => NewCount(refs, h) # 0)}
    IN  [h \in kept |-> [change |-> 0, initial |-> IF RC THEN NewCount(refs, h) ELSE refs[h].initial]]
FlushPanics(refs) == RC /\ \E h \in Written(refs) : NewCount(refs, h) < 0

---------------------------------------------------------------------------
(* Blocks *)

Current == IF height = -1 THEN << >> ELSE contents[height + 1]
Apply(pairs, changes) ==
    LET now == changes @@ pairs IN [k \in {k \in DOMAIN now : now[k] # Nil} |-> now[k]]

\* AddMPTBatch with the result r of changing the trie, then what storeBlock does.
\* A trie is never empty after a block: the native contracts have records in it.
Store(r, changes) ==
    LET refs == Noted(r.log)
        collapses == Max({saved, 0}) = height
    IN  /\ ~broken /\ ~forgotten /\ billet = NoBillet
        /\ DOMAIN Apply(Current, changes) # {}
        /\ broken' = (LoadsFail(r.log) \/ FlushPanics(refs))
        /\ IF broken' THEN UNCHANGED <<root, refcount, mem, height, roots, contents>>
           ELSE /\ mem' = Flushed(refs, height + 1)
                /\ root' = IF collapses THEN Collapse(CollapseDepth, r.node) ELSE r.node
                /\ refcount' = IF collapses THEN << >> ELSE KeptRefs(refs)
                /\ height' = height + 1
                /\ roots' = Append(roots, HashOf(r.node))
                /\ contents' = Append(contents, Apply(Current, changes))
        /\ UNCHANGED <<mode, disk, saved, gcFrom, collected, forgotten, billet>>

Block(changes) == Store(PutBatch(root, changes), changes)

\* Put and Delete, in place of a batch of one.
Put(k, v) == (k :> v) \in BatchesAt[height + 1] /\ Store(PutIntoNode(root, k, Leaf(v)), k :> v)
Delete(k) == (k :> Nil) \in BatchesAt[height + 1] /\ Store(DeleteFromNode(root, k), k :> Nil)

---------------------------------------------------------------------------
(* Persistence, garbage and restarts *)

\* persist, in Run: the cached store goes to the database, deletions included.
Persist ==
    LET all == mem @@ disk
    IN  /\ ~broken /\ height > saved /\ gcFrom = -1 /\ billet = NoBillet
        /\ disk' = [h \in Hashes |-> all[h]]
        /\ mem' = << >> /\ saved' = height
        /\ gcFrom' = IF GC THEN Max({saved, 0}) ELSE -1
        /\ UNCHANGED <<mode, root, refcount, height, roots, collected, broken, contents, forgotten, billet>>

\* tryRunGC
Target == ((saved - MaxTraceableBlocks) \div GarbageCollectionPeriod) * GarbageCollectionPeriod
Due == Target > GarbageCollectionPeriod
           /\ gcFrom \div GarbageCollectionPeriod # saved \div GarbageCollectionPeriod

\* Mutant: one height too many.
Garbage_OffByOne(h) == ~disk[h].active /\ disk[h].n <= Target + 1

\* Module.GC
Garbage(h) == ~disk[h].active /\ disk[h].n <= Target

\* It works on the database, below the cached store, while blocks are added.
TryRunGC ==
    /\ gcFrom # -1 /\ gcFrom' = -1
    /\ disk' = IF Due THEN [h \in {h \in DOMAIN disk : ~Garbage(h)} |-> disk[h]] ELSE disk
    /\ collected' = IF Due THEN Max({collected, Target}) ELSE collected
    /\ UNCHANGED <<mode, root, refcount, mem, height, saved, roots, broken, contents, forgotten, billet>>

\* A crash and Module.Init: at height 0 it starts from an empty trie.
Restart ==
    /\ saved >= 0 /\ ~broken /\ billet = NoBillet
    /\ mem' = << >> /\ refcount' = << >> /\ gcFrom' = -1
    /\ height' = saved
    /\ roots' = SubSeq(roots, 1, saved + 1) /\ contents' = SubSeq(contents, 1, saved + 1)
    /\ root' = IF saved = 0 THEN Empty ELSE NewHashNode(roots[saved + 1])
    /\ forgotten' = (forgotten \/ saved = 0)
    /\ UNCHANGED <<mode, disk, saved, collected, broken, billet>>

---------------------------------------------------------------------------
(* A copy of the trie restored node by node, in any order *)

StartRestore ==
    /\ RC /\ height = RestoreHeight /\ ~forgotten /\ billet = NoBillet
    /\ billet' = [state |-> "run", root |-> NewHashNode(Last(roots)), counts |-> << >>,
                  pending |-> {<< << >>, Last(roots) >>}, leaves |-> << >>]
    /\ UNCHANGED <<mode, root, refcount, mem, disk, height, saved, roots, gcFrom, collected, broken, contents, forgotten>>

\* RestoreHashNode with incrementRefAndStore, for one node that is wanted.
Restore(path, h) ==
    LET n == Decode(h)
        r == RestoreInto(billet.root, path, n)
        count == IF h \in DOMAIN billet.counts THEN billet.counts[h] + 1 ELSE 1
    IN  /\ billet.state = "run" /\ <<path, h>> \in billet.pending
        /\ IF r = Failed THEN broken' = TRUE /\ UNCHANGED billet
           ELSE /\ UNCHANGED broken
                /\ billet' = [billet EXCEPT
                       !.root = r, !.counts = (h :> count) @@ @,
                       !.pending = (@ \ {<<path, h>>}) \cup ChildrenPaths(path, n),
                       !.leaves = IF n.type = "leaf" THEN (path :> n.value) @@ @ ELSE @]
        /\ UNCHANGED <<mode, root, refcount, mem, disk, height, saved, roots, gcFrom, collected, contents, forgotten>>

Init ==
    /\ mode \in Modes
    /\ root = Empty /\ refcount = << >> /\ mem = << >> /\ disk = << >>
    /\ height = -1 /\ saved = -1 /\ roots = << >> /\ gcFrom = -1 /\ collected = 0
    /\ broken = FALSE /\ contents = << >> /\ forgotten = FALSE /\ billet = NoBillet

Next ==
    \/ height < MaxHeight /\ \E changes \in BatchesAt[height + 1] : Block(changes)
    \/ height < MaxHeight /\ \E k \in Keys, v \in Values : Put(k, v)
    \/ height < MaxHeight /\ \E k \in Keys : Delete(k)
    \/ Persist
    \/ TryRunGC
    \/ Restart
    \/ StartRestore
    \/ billet.state = "run" /\ \E want \in billet.pending : Restore(want[1], want[2])

Spec == Init /\ [][Next]_vars

---------------------------------------------------------------------------
(* Properties *)

\* The trie of a set of pairs, from its definition: the nodes that their keys share.
RECURSIVE TrieOf(_)
TrieOf(pairs) ==
    LET pref == LongestCommonPrefix(DOMAIN pairs)
        below == [k \in DOMAIN pairs |-> Drop(k, Len(pref))]
        Part(c) == {k \in DOMAIN pairs : ChildIndex(below[k]) = c}
        Under(c) == [p \in {Rest(below[k]) : k \in Part(c)} |->
                        pairs[CHOOSE k \in Part(c) : Rest(below[k]) = p]]
        node == IF Cardinality(DOMAIN pairs) = 1 THEN Leaf(pairs[pref])
                ELSE Branch([c \in 0..LastChild |-> TrieOf(Under(c))])
    IN  IF pairs = << >> THEN Empty
        ELSE IF pref = << >> THEN node ELSE Extension(pref, node)

\* The nodes of a trie, each as often as a path leads to it.
RECURSIVE Occurrences(_)
Occurrences(n) ==
    CASE n.type = "empty" -> << >>
      [] n.type = "leaf" -> << n >>
      [] n.type = "extension" -> << n >> \o Occurrences(n.next)
      [] n.type = "branch" -> << n >> \o FlattenSeq([i \in 1..(LastChild + 1) |-> Occurrences(n.children[i - 1])])

Count(n) == LET all == Occurrences(n) IN [h \in ToSet(all) |-> Len(SelectSeq(all, LAMBDA x : x = h))]

\* The root of a block is a function of the state and not of how it came about:
\* which batches, single changes, collapsed parts, crashes and restarts led to it,
\* so that nodes that took different ways agree on it.
RootCanonical ==
    /\ ~broken
    /\ ~forgotten /\ height >= 0 => Last(roots) = TrieOf(Current) /\ HashOf(root) = Last(roots)

\* Reference counts are exact: a node of the present trie is active in the store
\* with the number of paths that lead to it, all others are inactive or gone; and a
\* copy that was restored in any order ends with the same counts and all leaves.
CountsExact ==
    /\ RC /\ ~broken /\ ~forgotten /\ height >= 0 =>
           LET count == Count(Last(roots))
           IN  {h \in Hashes : Stored(h).active} = DOMAIN count
                   /\ \A h \in DOMAIN count : Stored(h).n = count[h]
    /\ billet.state = "run" /\ billet.pending = {} =>
           billet.root = Hash(Last(roots), TRUE) /\ billet.counts = Count(Last(roots)) /\ billet.leaves = Current

\* The heights whose tries can be queried.
Readable == IF mode = "latest" THEN {height} ELSE collected..height

\* Every readable root answers for its own state, whatever was written, collected or
\* lost since: values, proofs, which show what is there and nothing else, and the
\* search from a key on, which misses and repeats nothing.
QueriesRight ==
    ~broken /\ ~forgotten /\ height >= 0 => \A i \in Readable :
        LET h == roots[i + 1]
            pairs == contents[i + 1]
            Value(k) == IF k \in DOMAIN pairs THEN pairs[k] ELSE NotFound
            Found(prefix, start) ==
                LET found == Find(h, prefix, start, Hashes)
                    wanted == {k \in DOMAIN pairs : IsPrefix(prefix, k)
                                                       /\ (start # << >> => Less(prefix \o start[1], k))}
                IN  /\ Len(found) = Cardinality(wanted)
                    /\ ToSet(found) = {<<Drop(k, Len(prefix)), pairs[k]>> : k \in wanted}
        IN  /\ \A k \in Keys :
                   LET proof == Proof(NewHashNode(h), k, Hashes)
                   IN  /\ Get(NewHashNode(h), k, Hashes) = Value(k)
                       /\ VerifyProof(h, k, proof) = Value(k)
                       /\ (Empty \in proof) = (k \notin DOMAIN pairs)
            /\ \A prefix \in {<< >>} \cup {SubSeq(k, 1, 2) : k \in Keys} : \A start \in {<< >>, << << >> >>}
                   \cup {<< Drop(k, Len(prefix)) >> : k \in {k \in Keys : IsPrefix(prefix, k)}} : Found(prefix, start)
=============================================================================
