--------------------------- MODULE MCLinkedList ---------------------------
(***************************************************************************)
(* Four payloads, two of which compare equal, on four nodes.               *)
(***************************************************************************)
EXTENDS LinkedList, TLC

CONSTANTS a1, a2, b, c

TwoEqual == a1 :> 1 @@ a2 :> 1 @@ b :> 2 @@ c :> 3
=============================================================================
