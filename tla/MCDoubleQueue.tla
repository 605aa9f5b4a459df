--------------------------- MODULE MCDoubleQueue ---------------------------
(***************************************************************************)
(* Small instances of DoubleQueue for TLC.                                 *)
(***************************************************************************)
EXTENDS DoubleQueue

CONSTANTS p1, p2, w1, w2, r1, v1, v2, n1, n2

(* Adders, one thread that polls and asks for the length, one waiter. *)
MixedCalls ==
    ({p1, p2} \X {"add"}) \cup ({r1} \X {"remove", "length"}) \cup {<<w1, "wait_remove">>}

(* One adder, two waiters. *)
TwoWaitersCalls == {<<p1, "add">>} \cup ({w1, w2} \X {"wait_remove"})
=============================================================================
