---------------------------- MODULE MCStateRoots ----------------------------
(* Keys of one and two bytes over two nibbles: one is a prefix of another, and
   two end alike, so that their subtries can be shared. *)
EXTENDS StateRoots

MCKeys == { <<0, 0>>, <<0, 0, 1, 0>>, <<0, 1, 1, 0>>, <<1, 1>> }

\* All keys get one value, some of them another one, or are deleted.
Uniform(v, size) == {[k \in ks |-> v] : ks \in {ks \in SUBSET MCKeys : Cardinality(ks) <= size}}
Mixed == {(k :> Nil) @@ (l :> 1) : k, l \in MCKeys}
MCBatchesAt ==
    ( 0 :> {[k \in ks |-> 1] : ks \in {MCKeys, {<<0, 0>>}, {<<0, 0, 1, 0>>, <<0, 1, 1, 0>>}, {<<0, 0>>, <<1, 1>>}}} ) @@
    ( 1 :> Uniform(Nil, 3) \cup Uniform(1, 2) \cup Uniform(2, 1) \cup Mixed ) @@
    ( 2 :> {<<0, 0>> :> Nil, <<1, 1>> :> 2} ) @@
    ( 3 :> {<< >>, <<0, 0, 1, 0>> :> Nil} ) @@
    ( 4 :> {[k \in MCKeys |-> 1]} )
=============================================================================
