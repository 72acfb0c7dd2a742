-------------------------------- MODULE Trie --------------------------------
(***************************************************************************)
(* The nodes of the Merkle-Patricia trie and the operations on them        *)
(* (pkg/core/mpt).  A hash is taken to be injective: the hash of a node is *)
(* the node with all its descendants, so that what a hash stands for can   *)
(* be read from it, whether the store has it or not.  An operation returns *)
(* the new node and, in their order, the references it added and removed   *)
(* and the hashes it loaded from the store.                                *)
(***************************************************************************)
EXTENDS Integers, SequencesExt

CONSTANT LastChild          \* lastChild: 16, after the nibbles 0 .. LastChild - 1

Nil == 0               \* a nil value; others are positive
NotFound == -1

Empty == [type |-> "empty"]
Leaf(v) == [type |-> "leaf", value |-> v]
Extension(key, next) == [type |-> "extension", key |-> key, next |-> next]
Branch(children) == [type |-> "branch", children |-> children]
Hash(h, collapsed) == [type |-> "hash", hash |-> h, collapsed |-> collapsed]
NewHashNode(h) == Hash(h, FALSE)
NewBranch == [i \in 0..LastChild |-> Empty]

\* getHash over encodeBinaryAsChild: children are encoded as their hashes.
RECURSIVE HashOf(_)
HashOf(n) ==
    CASE n.type = "hash" -> n.hash
      [] n.type = "extension" -> Extension(n.key, HashOf(n.next))
      [] n.type = "branch" -> Branch([i \in 0..LastChild |-> HashOf(n.children[i])])
      [] OTHER -> n

\* DecodeBinary: children are hash nodes, or empty.
Decode(h) ==
    LET Child(c) == IF c = Empty THEN Empty ELSE NewHashNode(c)
    IN  CASE h.type = "extension" -> Extension(h.key, Child(h.next))
          [] h.type = "branch" -> Branch([i \in 0..LastChild |-> Child(h.children[i])])
          [] OTHER -> h

\* splitPath and the slices around it.
Drop(path, n) == SubSeq(path, n + 1, Len(path))
ChildIndex(path) == IF path = << >> THEN LastChild ELSE Head(path)
Rest(path) == IF path = << >> THEN << >> ELSE Tail(path)

\* bytes.Compare(a, b) < 0
Less(a, b) ==
    \E i \in 1..Len(b) : /\ i <= Len(a) + 1
                        /\ SubSeq(a, 1, i - 1) = SubSeq(b, 1, i - 1)
                        /\ (i = Len(a) + 1 \/ a[i] < b[i])

Result(node, log) == [node |-> node, log |-> log]
AddRef(n) == << <<"add", HashOf(n)>> >>
RemoveRef(n) == << <<"remove", HashOf(n)>> >>
Load(n) == << <<"load", n.hash>> >>
Then(log, result) == Result(result.node, log \o result.log)

Children(b) == {i \in 0..LastChild : b[i] # Empty}

---------------------------------------------------------------------------
(* Put and Delete (trie.go) *)

NewSubTrie(path, val, newVal) ==
    LET added == IF newVal THEN AddRef(val) ELSE << >>
    IN  IF path = << >> THEN Result(val, added)
        ELSE Result(Extension(path, val), added \o AddRef(Extension(path, val)))

PutIntoLeaf(curr, path, val) ==
    LET sub == NewSubTrie(Tail(path), val, TRUE)
        b == Branch([NewBranch EXCEPT ![Head(path)] = sub.node, ![LastChild] = curr])
    IN  IF path = << >> THEN Result(val, RemoveRef(curr) \o AddRef(val))
        ELSE Result(b, sub.log \o AddRef(b))

\* The case of putIntoExtension in which the path leaves the key.
SplitExtension(curr, path, val) ==
    LET pref == LongestCommonPrefix({curr.key, path})
        keyTail == Drop(curr.key, Len(pref))
        pathTail == Drop(path, Len(pref))
        s1 == NewSubTrie(Tail(keyTail), curr.next, FALSE)
        s2 == NewSubTrie(Rest(pathTail), val, TRUE)
        b == Branch([NewBranch EXCEPT ![Head(keyTail)] = s1.node, ![ChildIndex(pathTail)] = s2.node])
        log == s1.log \o s2.log \o AddRef(b)
    IN  IF pref = << >> THEN Result(b, log)
        ELSE Result(Extension(pref, b), log \o AddRef(Extension(pref, b)))

RECURSIVE PutIntoNode(_, _, _)
PutIntoNode(curr, path, val) ==
    CASE curr.type = "leaf" -> PutIntoLeaf(curr, path, val)
      [] curr.type = "empty" -> NewSubTrie(path, val, TRUE)
      [] curr.type = "hash" -> Then(Load(curr), PutIntoNode(Decode(curr.hash), path, val))
      [] curr.type = "branch" ->
            LET i == ChildIndex(path)
                r == PutIntoNode(curr.children[i], Rest(path), val)
                b == Branch([curr.children EXCEPT ![i] = r.node])
            IN  Result(b, RemoveRef(curr) \o r.log \o AddRef(b))
      [] curr.type = "extension" ->
            IF IsPrefix(curr.key, path)
            THEN LET r == PutIntoNode(curr.next, Drop(path, Len(curr.key)), val)
                     e == Extension(curr.key, r.node)
                 IN  Result(e, RemoveRef(curr) \o r.log \o AddRef(e))
            ELSE Then(RemoveRef(curr), SplitExtension(curr, path, val))

\* The end of deleteFromBranch, for a branch that has one child left.
Shorten(index, child) ==
    LET load == IF child.type = "hash" THEN Load(child) ELSE << >>
        c == IF child.type = "hash" THEN Decode(child.hash) ELSE child
        e == IF c.type = "extension" THEN Extension(<<index>> \o c.key, c.next) ELSE Extension(<<index>>, c)
    IN  IF index = LastChild THEN Result(child, << >>)
        ELSE Result(e, load \o (IF c.type = "extension" THEN RemoveRef(c) ELSE << >>) \o AddRef(e))

DeleteFromBranchEnd(curr, i, r) ==
    LET b == [curr.children EXCEPT ![i] = r.node]
        log == r.log \o RemoveRef(curr)
    IN  IF Cardinality(Children(b)) > 1 THEN Result(Branch(b), log \o AddRef(Branch(b)))
        ELSE LET index == CHOOSE c \in Children(b) : TRUE IN Then(log, Shorten(index, b[index]))

\* The end of deleteFromExtension.
DeleteFromExtensionEnd(curr, r) ==
    LET joins == r.node.type = "extension"
        e == IF joins THEN Extension(curr.key \o r.node.key, r.node.next) ELSE Extension(curr.key, r.node)
        log == r.log \o RemoveRef(curr)
    IN  IF r.node = Empty THEN Result(Empty, log)
        ELSE Result(e, log \o (IF joins THEN RemoveRef(r.node) ELSE << >>) \o AddRef(e))

RECURSIVE DeleteFromNode(_, _)
DeleteFromNode(curr, path) ==
    CASE curr.type = "leaf" -> IF path = << >> THEN Result(Empty, RemoveRef(curr)) ELSE Result(curr, << >>)
      [] curr.type = "empty" -> Result(curr, << >>)
      [] curr.type = "hash" -> Then(Load(curr), DeleteFromNode(Decode(curr.hash), path))
      [] curr.type = "branch" ->
            DeleteFromBranchEnd(curr, ChildIndex(path), DeleteFromNode(curr.children[ChildIndex(path)], Rest(path)))
      [] curr.type = "extension" ->
            IF ~IsPrefix(curr.key, path) THEN Result(curr, << >>)
            ELSE DeleteFromExtensionEnd(curr, DeleteFromNode(curr.next, Drop(path, Len(curr.key))))

---------------------------------------------------------------------------
(* PutBatch (batch.go): kv is sorted by key, and a nil value deletes. *)

StripPrefix(n, kv) == [i \in DOMAIN kv |-> [kv[i] EXCEPT !.key = Drop(@, n)]]
LcpMany(kv) == LongestCommonPrefix({kv[i].key : i \in DOMAIN kv})
At(c, kv) == SelectSeq(kv, LAMBDA e : ChildIndex(e.key) = c)

\* Mutant: an extension below a prefix is kept beside the joined one.
MergeLoaded_NoRemove(prefix, n) ==
    CASE n.type = "extension" -> Result(Extension(prefix \o n.key, n.next), AddRef(Extension(prefix \o n.key, n.next)))
      [] n.type = "empty" \/ prefix = << >> -> Result(n, << >>)
      [] OTHER -> Result(Extension(prefix, n), AddRef(Extension(prefix, n)))

\* Mutant: extensions are put one after the other instead of being joined.
MergeLoaded_NoJoin(prefix, n) ==
    IF n.type = "empty" \/ prefix = << >> THEN Result(n, << >>)
    ELSE Result(Extension(prefix, n), AddRef(Extension(prefix, n)))

\* mergeExtension of a node that is not a hash.
MergeLoaded(prefix, n) ==
    CASE n.type = "extension" ->
            LET e == Extension(prefix \o n.key, n.next) IN Result(e, RemoveRef(n) \o AddRef(e))
      [] n.type = "empty" \/ (n.type # "extension" /\ prefix = << >>) -> Result(n, << >>)
      [] OTHER -> Result(Extension(prefix, n), AddRef(Extension(prefix, n)))

MergeExtension(prefix, sub) ==
    IF sub.type = "hash" THEN Then(Load(sub), MergeLoaded(prefix, Decode(sub.hash))) ELSE MergeLoaded(prefix, sub)

StripBranch(b) ==
    LET index == CHOOSE c \in Children(b) : TRUE
    IN  CASE Children(b) = {} -> Result(Empty, << >>)
          [] Cardinality(Children(b)) = 1 ->
                IF index # LastChild THEN MergeExtension(<<index>>, b[index]) ELSE Result(b[index], << >>)
          [] OTHER -> Result(Branch(b), AddRef(Branch(b)))

RECURSIVE PutBatchIntoNode(_, _)

\* addToBranch with iterateBatch: every child gets its part of the batch.
AddToBranch(b, kv) ==
    LET parts == [c \in 0..LastChild |->
                     IF At(c, kv) = << >> THEN Result(b[c], << >>)
                     ELSE PutBatchIntoNode(b[c], StripPrefix(IF c = LastChild THEN 0 ELSE 1, At(c, kv)))]
        log == FlattenSeq([i \in 1..(LastChild + 1) |-> parts[i - 1].log])
    IN  Then(log, StripBranch([c \in 0..LastChild |-> parts[c].node]))

RECURSIVE NewSubTrieMany(_, _, _)
NewSubTrieMany(prefix, kv, value) ==
    LET here == kv[1].key = << >>
        kept == IF here THEN kv[1].value ELSE value
        b == IF kept = Nil THEN NewBranch ELSE [NewBranch EXCEPT ![LastChild] = Leaf(kept)]
        r == AddToBranch(b, kv)
    IN  IF here /\ kv[1].value = Nil
        THEN IF Len(kv) = 1 THEN Result(Empty, << >>) ELSE NewSubTrieMany(prefix, Tail(kv), Nil)
        ELSE IF here /\ Len(kv) = 1 THEN NewSubTrie(prefix, Leaf(kept), TRUE)
        ELSE Then((IF kept = Nil THEN << >> ELSE AddRef(Leaf(kept))) \o r.log, MergeExtension(prefix, r.node))

PutBatchIntoExtensionNoPrefix(key, next, kv) ==
    LET s == IF Len(key) > 1 THEN NewSubTrie(Tail(key), next, FALSE) ELSE Result(next, << >>)
    IN  Then(s.log, AddToBranch([NewBranch EXCEPT ![Head(key)] = s.node], kv))

PutBatchIntoExtension(curr, kv) ==
    LET pref == LongestCommonPrefix({LcpMany(kv), curr.key})
        rest == StripPrefix(Len(pref), kv)
        r == IF pref = curr.key THEN PutBatchIntoNode(curr.next, rest)
             ELSE PutBatchIntoExtensionNoPrefix(Drop(curr.key, Len(pref)), curr.next, rest)
    IN  IF pref = << >> THEN Then(RemoveRef(curr), r)
        ELSE Then(RemoveRef(curr) \o r.log, MergeExtension(pref, r.node))

PutBatchIntoNode(curr, kv) ==
    CASE curr.type = "leaf" -> Then(RemoveRef(curr), NewSubTrieMany(<< >>, kv, curr.value))
      [] curr.type = "branch" -> Then(RemoveRef(curr), AddToBranch(curr.children, kv))
      [] curr.type = "extension" -> PutBatchIntoExtension(curr, kv)
      [] curr.type = "hash" -> Then(Load(curr), PutBatchIntoNode(Decode(curr.hash), kv))
      [] curr.type = "empty" -> NewSubTrieMany(LcpMany(kv), StripPrefix(Len(LcpMany(kv)), kv), Nil)

\* MapToMPTBatch and PutBatch.
PutBatch(root, changes) ==
    LET keys == SetToSortSeq(DOMAIN changes, Less)
        kv == [i \in DOMAIN keys |-> [key |-> keys[i], value |-> changes[keys[i]]]]
    IN  IF kv = << >> THEN Result(root, << >>) ELSE PutBatchIntoNode(root, kv)

\* Collapse
RECURSIVE Collapse(_, _)
Collapse(depth, n) ==
    CASE n.type \in {"hash", "empty"} -> n
      [] n.type \notin {"hash", "empty"} /\ depth = 0 -> NewHashNode(HashOf(n))
      [] n.type = "branch" /\ depth > 0 -> Branch([i \in 0..LastChild |-> Collapse(depth - 1, n.children[i])])
      [] n.type = "extension" /\ depth > 0 -> Extension(n.key, Collapse(depth - 1, n.next))
      [] OTHER -> n

---------------------------------------------------------------------------
(* Queries, where have is the set of hashes that the store can load. *)

\* getWithPath, strict, and Get.
RECURSIVE Get(_, _, _)
Get(n, path, have) ==
    CASE n.type = "leaf" -> IF path = << >> THEN n.value ELSE NotFound
      [] n.type = "branch" -> Get(n.children[ChildIndex(path)], Rest(path), have)
      [] n.type = "hash" /\ n.hash \in have -> Get(Decode(n.hash), path, have)
      [] n.type = "extension" ->
            IF IsPrefix(n.key, path) THEN Get(n.next, Drop(path, Len(n.key)), have) ELSE NotFound
      [] OTHER -> NotFound

\* getWithPath, not strict: the node at a path or at the nearest one below it, and
\* the path to that; << >> when there is none.
RECURSIVE Locate(_, _, _, _)
Locate(n, path, walked, have) ==
    CASE n.type = "leaf" -> IF path = << >> THEN << n, walked >> ELSE << >>
      [] n.type = "branch" ->
            IF path = << >> THEN << n, walked >>
            ELSE Locate(n.children[Head(path)], Tail(path), Append(walked, Head(path)), have)
      [] n.type = "hash" /\ n.hash \in have -> Locate(Decode(n.hash), path, walked, have)
      [] n.type = "extension" ->
            IF path # << >> /\ IsPrefix(n.key, path)
            THEN Locate(n.next, Drop(path, Len(n.key)), walked \o n.key, have)
            ELSE IF IsPrefix(path, n.key) THEN << n.next, walked \o n.key >> ELSE << >>
      [] OTHER -> << >>

\* Billet.traverse: the leaves below n from a path on, as pairs of path and value.
\* The value of a branch comes after its children.
RECURSIVE Traverse(_, _, _, _)
Traverse(n, path, from, have) ==
    CASE n.type = "leaf" -> IF from = << >> THEN << <<path, n.value>> >> ELSE << >>
      [] n.type = "empty" -> << >>
      [] n.type = "hash" -> IF n.hash \in have THEN Traverse(Decode(n.hash), path, from, have)
                            ELSE << <<path, NotFound>> >>
      [] n.type = "branch" ->
            LET start == IF from = << >> THEN 0 ELSE Head(from)
                stop == IF from = << >> THEN LastChild ELSE LastChild - 1
                Part(i) == Traverse(n.children[i], IF i = LastChild THEN path ELSE Append(path, i),
                                    IF i = start THEN Rest(from) ELSE << >>, have)
            IN  FlattenSeq([k \in 1..(stop - start + 1) |-> Part(start + k - 1)])
      [] n.type = "extension" ->
            IF from # << >> /\ IsPrefix(n.key, from)
            THEN Traverse(n.next, path \o n.key, Drop(from, Len(n.key)), have)
            ELSE IF from = << >> \/ Less(from, n.key) THEN Traverse(n.next, path \o n.key, << >>, have)
            ELSE << >>

\* Find: what is left of the start below the node that was located.
FindFrom(path, from) == IF IsPrefix(path, from) THEN Drop(from, Len(path)) ELSE << >>

\* Find without its limit; start is << >> for nil, else a sequence with the path.
Find(h, prefix, start, have) ==
    LET at == Locate(NewHashNode(h), prefix, << >>, have)
        path == Drop(at[2], Len(prefix))
        from == IF start = << >> THEN << >> ELSE start[1]
        found == Traverse(at[1], path, FindFrom(path, from), have)
    IN  IF at = << >> THEN << >>
        ELSE IF Less(path, from) /\ ~IsPrefix(path, from) THEN << >>
        ELSE SelectSeq(found, LAMBDA e : start = << >> \/ e[1] # from)

\* getProof: the nodes from the root to a key, as the hashes of what is returned,
\* or NotFound among them.
RECURSIVE Proof(_, _, _)
Proof(n, path, have) ==
    CASE n.type = "leaf" -> {IF path = << >> THEN n ELSE Empty}
      [] n.type = "branch" -> {HashOf(n)} \cup Proof(n.children[ChildIndex(path)], Rest(path), have)
      [] n.type = "extension" ->
            IF IsPrefix(n.key, path) THEN {HashOf(n)} \cup Proof(n.next, Drop(path, Len(n.key)), have) ELSE {Empty}
      [] n.type = "hash" -> IF n.hash \in have THEN Proof(Decode(n.hash), path, have) ELSE {Empty}
      [] OTHER -> {Empty}

\* VerifyProof: the proof is all that the store of the checking trie holds.
VerifyProof(h, key, proof) == Get(NewHashNode(h), key, proof)

---------------------------------------------------------------------------
(* Billet.RestoreHashNode (billet.go); a refusal or a panic is Failed. *)

Failed == [type |-> "failed"]

\* tryCollapseLeaf, tryCollapseExtension and tryCollapseBranch
TryCollapse(n) ==
    LET Done(c) == c.type = "hash" /\ c.collapsed
    IN  IF \/ n.type = "leaf"
           \/ n.type = "extension" /\ Done(n.next)
           \/ n.type = "branch" /\ \A i \in Children(n.children) : Done(n.children[i])
        THEN Hash(HashOf(n), TRUE) ELSE n

RECURSIVE RestoreInto(_, _, _)
RestoreInto(curr, path, val) ==
    CASE curr.type \in {"leaf", "empty"} -> Failed
      [] curr.type = "branch" ->
            LET i == ChildIndex(path)
                r == RestoreInto(curr.children[i], Rest(path), val)
            IN  IF (path = << >> /\ HashOf(curr) = HashOf(val)) \/ r = Failed THEN Failed
                ELSE TryCollapse(Branch([curr.children EXCEPT ![i] = r]))
      [] curr.type = "extension" ->
            LET r == RestoreInto(curr.next, Drop(path, Len(curr.key)), val)
            IN  IF path = << >> \/ ~IsPrefix(curr.key, path) \/ r = Failed THEN Failed
                ELSE TryCollapse(Extension(curr.key, r))
      [] curr.type = "hash" ->
            IF path # << >> \/ HashOf(val) # curr.hash \/ curr.collapsed THEN Failed
            ELSE IF val.type = "leaf" THEN TryCollapse(val) ELSE val

\* GetChildrenPaths: pairs of a path and the hash to be found there.
ChildrenPaths(path, n) ==
    CASE n.type = "branch" -> {<<IF i = LastChild THEN path ELSE Append(path, i), n.children[i].hash>> :
                                   i \in {i \in 0..LastChild : n.children[i].type = "hash"}}
      [] n.type = "extension" -> {<<path \o n.key, n.next.hash>>}
      [] OTHER -> {}
=============================================================================
