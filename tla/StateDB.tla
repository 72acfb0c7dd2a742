------------------------------ MODULE StateDB ------------------------------
(***************************************************************************)
(* The state database of a block (pkg/core/statedb): layers of uncommitted *)
(* writes over the store of the ledger.  db[1] is ps, the store of the     *)
(* block; db[i+1] is memStores[i-1].  A layer holds the items written      *)
(* since its snapshot and whole copies of the refund counter, the logs     *)
(* and the access list.                                                    *)
(***************************************************************************)
EXTENDS Integers, Sequences, FiniteSetsExt

CONSTANT None      \* an item that is not there, or was deleted

VARIABLES
    disk,          \* the items of the ledger (bc.dao)
    db             \* the layers

\* NewStateDB
EmptyStore == [dao |-> << >>, fund |-> 0, logs |-> << >>, access |-> {}]

\* MemStore.clone: a private layer without writes, and copies of the rest.
Clone(m) == [m EXCEPT !.dao = << >>]

\* CurrentStore
Current(d) == d[Len(d)]

\* What a read through the first n layers finds (dao.GetStorageItem).
ItemAt(d, n, key) ==
    LET writers == {i \in 1..n : key \in DOMAIN d[i].dao}
    IN  CASE writers # {} -> d[Max(writers)].dao[key]
          [] writers = {} /\ key \in DOMAIN disk -> disk[key]
          [] OTHER -> None

Item(d, key) == ItemAt(d, Len(d), key)

\* A map with one more entry, or one entry overwritten.
With(items, key, val) == [k \in DOMAIN items \cup {key} |-> IF k = key THEN val ELSE items[k]]

\* PutStorageItem, DeleteStorageItem (val = None), on the current store
Put(d, key, val) == [d EXCEPT ![Len(d)].dao = With(@, key, val)]

\* Snapshot, and the id it returns: the index of the layer it adds.
Snapshot(d) == Append(d, Clone(Current(d)))
SnapshotId(d) == Len(d) - 1

\* Mutant: the layer of the snapshot stays.
RevertToSnapshot_KeepsOne(d, revid) == SubSeq(d, 1, IF revid + 2 > Len(d) THEN Len(d) ELSE revid + 2)

\* RevertToSnapshot.  It panics for an id that is not there.
RevertToSnapshot(d, revid) == SubSeq(d, 1, revid + 1)

AddRefund(d, amount) == [d EXCEPT ![Len(d)].fund = @ + amount]
AddLog(d, log) == [d EXCEPT ![Len(d)].logs = Append(@, log)]
AddToAccessList(d, entries) == [d EXCEPT ![Len(d)].access = @ \cup entries]
InAccessList(d, entry) == entry \in Current(d).access

\* PrepareAccessList: a new list for the transaction, in the current store.
PrepareAccessList(d, entries) == [d EXCEPT ![Len(d)].access = entries]

\* The keys written in some layer.
Written(d) == UNION {DOMAIN d[i].dao : i \in 1..Len(d)}

\* Commit: every layer is persisted into the one below it.  Logs, refund and
\* access list of the layers go with them.
Commit(d) == << [d[1] EXCEPT !.dao = [key \in Written(d) |-> Item(d, key)]] >>

\* The items that a reader of the first n layers finds.
Items(d, n) ==
    LET keys == DOMAIN disk \cup UNION {DOMAIN d[i].dao : i \in 1..n}
    IN  [key \in {k \in keys : ItemAt(d, n, k) # None} |-> ItemAt(d, n, key)]

\* What is left to write when storeBlock persists the block.
Merged(d) == Items(d, Len(d))

\* The state as the code running on the first n layers sees it.
Seen(d, n) == [items |-> Items(d, n), fund |-> d[n].fund, logs |-> d[n].logs, access |-> d[n].access]
=============================================================================
