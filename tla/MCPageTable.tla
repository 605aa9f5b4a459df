---------------------------- MODULE MCPageTable ----------------------------
(***************************************************************************)
(* Three pages, two slots.  The addresses are the first and the last of a  *)
(* page and two more pages.                                                *)
(***************************************************************************)
EXTENDS PageTable

ThreePages == {0, 4095, 4096, 8192}
=============================================================================
