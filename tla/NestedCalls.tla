---------------------------- MODULE NestedCalls ----------------------------
(***************************************************************************)
(* What a caller may rely on in nested calls: a call that fails leaves the *)
(* state as it was when the call was made, whatever ran inside it, and no  *)
(* code can touch what an open call would go back to.                      *)
(***************************************************************************)
EXTENDS Naturals, Sequences

\* What the machine may do to the state before it opens a frame.
CONSTANT Prepared(_, _)

VARIABLES
    cur,       \* the state that running code reads and writes
    saved,     \* for every open frame, the state its failure brings back
    result     \* the result the last finished call gave its caller

vars == <<cur, saved, result>>

Init == saved = << >> /\ result = "none"

\* Running code, or the node between two transactions, changes the state.
Change == result' = "none" /\ saved' = saved

\* A frame is opened; what it is opened on is the state, apart from what the
\* creation of a contract does beforehand (nonce and access list).
Open ==
    /\ result' = "none"
    /\ Len(saved') = Len(saved) + 1
    /\ SubSeq(saved', 1, Len(saved)) = saved
    /\ Prepared(cur, saved'[Len(saved')])

\* A call that is refused, or fails within one step, changes nothing.
Refuse == result' = "err" /\ saved' = saved /\ Prepared(cur, cur')

\* A call that opens no frame succeeds.
Direct == result' = "ok" /\ saved' = saved

\* The last instruction of a frame may still change the state.
Succeed ==
    /\ result' = "ok"
    /\ saved # << >>
    /\ saved' = SubSeq(saved, 1, Len(saved) - 1)

Fail ==
    /\ result' = "err"
    /\ saved # << >>
    /\ saved' = SubSeq(saved, 1, Len(saved) - 1)
    /\ cur' = saved[Len(saved)]

Next == Change \/ Open \/ Refuse \/ Direct \/ Succeed \/ Fail

Spec == Init /\ [][Next]_vars
=============================================================================
