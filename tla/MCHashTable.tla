---------------------------- MODULE MCHashTable ----------------------------
(***************************************************************************)
(* A table of one bucket and four keys, whose fourth pair makes it grow to *)
(* nine: 0 and 9 stay together, 1 goes next to them and 5 further off.     *)
(***************************************************************************)
EXTENDS HashTable

CONSTANTS v1, v2
=============================================================================
