------------------------ MODULE MCBufferedFileReader ------------------------
(***************************************************************************)
(* A buffer of three characters and all files of one to five characters    *)
(* over a letter, a space and a newline, with the lengths chosen per run.  *)
(***************************************************************************)
EXTENDS BufferedFileReader

CONSTANTS a, sp, nl

Texts(lengths) == UNION {[1..n -> {a, sp, nl}] : n \in lengths}

(* The byte 0xFF alone, first, in the middle, and last before a refill. *)
WithByteFF == {<<EOF>>, <<EOF, a>>, <<a, EOF, sp, nl>>, <<a, sp, EOF, a, a>>}

(* The end of the file is inside a buffer.  An empty file is left out: tell *)
(* is negative there.                                                      *)
InsideFiles ==
    Texts({1, 2, 4}) \cup {<<a, sp, a, a, nl>>, <<a, a, a, a, a>>} \cup WithByteFF

(* The end of the file is the end of a buffer. *)
BoundaryFiles == Texts({3})

(* A newline that is a delimiter (the default) and one that is not. *)
Delimiters == {{sp, nl}, {sp}}
=============================================================================
