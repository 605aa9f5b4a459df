-------------------------- MODULE MCNumbersProgram --------------------------
(***************************************************************************)
(* Small inputs for NumbersProgram.                                        *)
(***************************************************************************)
EXTENDS NumbersProgram

CONSTANTS n1, n2, n3

(* Seven numbers: the window of five slides twice. *)
LongInput == <<3, NL, 1, 2, NL, 5, 4, NL, 1, 2>>

(* Bad words before, between and after numbers, an empty line, no newline  *)
(* at the end, and nothing at all.                                         *)
LongInputs ==
    {LongInput, <<Bad, 7, NL, NL, 1, Bad, 7, NL, 2>>, <<1, Bad>>, << >>}
=============================================================================
