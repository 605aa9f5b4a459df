-------------------------- MODULE SimpleFileReader --------------------------
(***************************************************************************)
(* The unbuffered reader of "hw1 -- File Readers": every character is a    *)
(* read(2) of its own, so the descriptor's offset is the position of the   *)
(* reader.  An operation is one step.  It is also the abstract             *)
(* specification of BufferedFileReader, which has to look like it.         *)
(***************************************************************************)
EXTENDS Integers, Sequences, FiniteSetsExt

CONSTANTS
    Bytes,          \* the characters of files
    Files,          \* the contents of the files opened
    NUL,            \* the character that ends a C string
    EOF,
    Closed,         \* no file open: fd_ = -1
    MaxChars        \* bound: the largest n of get_chars

VARIABLES
    file, offset,   \* the open file and the offset of its descriptor
    good_,
    char_,          \* what get_char returned last
    chars_,         \* what get_chars returned last
    exited

vars == <<file, offset, good_, char_, chars_, exited>>

Init ==
    /\ file \in Files /\ offset = 0 /\ good_ = TRUE
    /\ char_ = EOF /\ chars_ = << >>
    /\ exited = FALSE

(* Closes the file that is open, if one is, and opens f. *)
OpenFile(f) ==
    /\ file' = f /\ offset' = 0 /\ good_' = TRUE
    /\ UNCHANGED <<char_, chars_, exited>>

CloseFile ==
    /\ file # Closed
    /\ file' = Closed /\ offset' = 0 /\ good_' = FALSE
    /\ UNCHANGED <<char_, chars_, exited>>

GetChar ==
    /\ file # Closed /\ offset < Len(file)
    /\ char_' = file[offset + 1]
    /\ offset' = offset + 1
    /\ good_' = TRUE
    /\ UNCHANGED <<file, chars_, exited>>

(* At the end, or without a file. *)
GetCharNone ==
    /\ file # Closed => offset = Len(file)
    /\ char_' = EOF
    /\ good_' = FALSE
    /\ UNCHANGED <<file, offset, chars_, exited>>

(* read was interrupted by a signal: get_char does not repeat it, and      *)
(* returns a variable nothing was written to.                              *)
GetCharInterrupted ==
    /\ file # Closed
    /\ char_' \in Bytes \cup {EOF}
    /\ good_' = TRUE
    /\ UNCHANGED <<file, offset, chars_, exited>>

(* The string is built from a char array, up to the first NUL in it. *)
AsString(text) ==
    LET ends == {i \in 1..Len(text) : text[i] = NUL} \cup {Len(text) + 1}
    IN  SubSeq(text, 1, Min(ends) - 1)

GetChars(n) ==
    /\ file # Closed
    /\ LET text == SubSeq(file, offset + 1, Min({offset + n, Len(file)}))
       IN  /\ chars_' = AsString(text)
           /\ offset' = offset + Len(text)
           /\ good_' = IF n = 0 THEN good_ ELSE Len(text) = n
    /\ UNCHANGED <<file, char_, exited>>

Rewind ==
    /\ offset' = 0 /\ good_' = TRUE
    /\ UNCHANGED <<file, char_, chars_, exited>>

(* open or read fails, or get_chars is called without a file. *)
Exit ==
    /\ exited' = TRUE /\ good_' = FALSE
    /\ UNCHANGED <<file, offset, char_, chars_>>

Uninterrupted ==
    /\ ~exited
    /\ \/ \E f \in Files : OpenFile(f)
       \/ CloseFile
       \/ GetChar \/ GetCharNone
       \/ \E n \in 0..MaxChars : GetChars(n)
       \/ Rewind
       \/ Exit

Next == Uninterrupted \/ (~exited /\ GetCharInterrupted)

Spec == Init /\ [][Next]_vars

(* What a caller sees whose reads no signal interrupts. *)
UninterruptedSpec == Init /\ [][Uninterrupted]_vars

Tell == offset
=============================================================================
