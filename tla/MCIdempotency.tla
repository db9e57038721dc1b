--------------------------- MODULE MCIdempotency ---------------------------
(* Instance of Idempotency for TLC: one key, and operations that differ    *)
(* from the first in exactly one of tool, caller and input.                *)
EXTENDS Idempotency, TLC

CONSTANTS r1, r2, r3, k1

MCReqs2 == {r1, r2}
MCReqs3 == {r1, r2, r3}
MCKeys == {k1}
MCTools == {"t1", "t2"}
MCCallers == {"c1", "c2"}
MCInputs == {"i1", "i2"}

BaseOp == [tool |-> "t1", caller |-> "c1", input |-> "i1"]
OneOp == {BaseOp}
NearOps == {BaseOp, [BaseOp EXCEPT !.tool = "t2"],
            [BaseOp EXCEPT !.caller = "c2"], [BaseOp EXCEPT !.input = "i2"]}

\* One call is of the first operation and at most one other operation is called:
\* two others are told apart from the first, and from each other, the same way.
PairInit ==
    /\ Init
    /\ \E r \in Reqs : OpOf(r) = BaseOp
    /\ Cardinality({OpOf(r) : r \in Reqs}) <= 2

PairSpec == PairInit /\ [][Next]_vars

Symmetry3 == Permutations(MCReqs3)
=============================================================================
