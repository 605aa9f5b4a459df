------------------------- MODULE SequentialNumbers -------------------------
(***************************************************************************)
(* sequential_numbers.cc: what one thread prints for a given standard      *)
(* input.  The input is a sequence of tokens: a number, a newline NL, or   *)
(* Bad, a word operator>> cannot read as a double.                         *)
(***************************************************************************)
EXTENDS Integers, Sequences, SequencesExt, FiniteSetsExt

CONSTANTS NL, Bad

(* The array holds the last five numbers ("Last five"). *)
Window == 5

(* Shift with its bound off by one: for the properties to refuse. *)
ShiftLate(nums) == IF Len(nums) > Window + 1 THEN Tail(nums) ELSE nums

Shift(nums) == IF Len(nums) > Window THEN Tail(nums) ELSE nums

(* What print_nums writes for the array; the average is sum / len. *)
Statistics(nums) ==
    [max |-> Max({nums[i] : i \in DOMAIN nums}),
     min |-> Min({nums[i] : i \in DOMAIN nums}),
     sum |-> FoldLeft(LAMBDA a, b : a + b, 0, nums),
     last |-> nums]

(* The numbers operator>> delivers: after a bad word the rest of its line  *)
(* is thrown away, end of file ends the loop.                              *)
Numbers(tokens) ==
    FoldLeft(LAMBDA s, x :
               IF x = NL THEN [s EXCEPT !.skip = FALSE]
               ELSE IF x = Bad THEN [s EXCEPT !.skip = TRUE]
               ELSE IF s.skip THEN s
               ELSE [s EXCEPT !.nums = Append(@, x)],
             [skip |-> FALSE, nums |-> << >>], tokens).nums

(* The output of the program: one block of statistics per number. *)
Output(tokens) ==
    FoldLeft(LAMBDA s, x :
               LET nums == Shift(Append(s.nums, x))
               IN  [nums |-> nums, printed |-> Append(s.printed, Statistics(nums))],
             [nums |-> << >>, printed |-> << >>], Numbers(tokens)).printed
=============================================================================
