---------------------------- MODULE BlurParallel ----------------------------
(***************************************************************************)
(* blur_parallel.cc: a thread per band of columns, all of them reading one *)
(* image and writing another one without a lock.  A step of a thread is    *)
(* one pixel: what it reads is never written.                              *)
(*                                                                         *)
(* A pthread_create that fails is reported and ignored: its band is never  *)
(* blurred and stays black in the file, and the join waits for an id that  *)
(* was never set, which may return or crash.                               *)
(*                                                                         *)
(* ColumnsRoundedUp and LastBandLikeTheOthers are mistakes in the          *)
(* definition that follows each: nothing uses them.                        *)
(***************************************************************************)
EXTENDS Integers

CONSTANTS
    Images,         \* the images blurred: [width, height, pixels]
    BoxSizes,       \* the third argument
    ThreadCounts,   \* the fourth one
    Colours,        \* the values of a pixel
    Black           \* a pixel of the new image before it is written

ASSUME BlurAssumption ==
    /\ \A im \in Images : im.width \in Nat \ {0} /\ im.height \in Nat \ {0}
    /\ BoxSizes \subseteq Nat
    /\ ThreadCounts \subseteq Nat \ {0}     \* 0 divides by zero
    /\ Black \in Colours

Sequential == INSTANCE SequentialBlur

(* The average of pixels is a pixel. *)
ASSUME ColoursAssumption ==
    \A im \in Images : \A box \in (SUBSET Sequential!Pixels(im)) \ {{}} :
        Sequential!Average(im, box) \in Colours

VARIABLES
    image, blur,            \* the two images; of the second one the pixels
    box_size, num_threads,  \* the arguments
    main,                   \* "create", "join", "written" or "crashed"
    i,                      \* the loops' counter: a thread
    status,                 \* of each thread
    x, y                    \* of each thread: its next pixel

vars == <<image, blur, box_size, num_threads, main, i, status, x, y>>

Threads == 0..(num_threads - 1)

ColumnsRoundedUp(width, n) == (width + n - 1) \div n

(* col_num *)
Columns(width, n) == width \div n

LeftOf(width, n, t) == t * Columns(width, n)

LastBandLikeTheOthers(width, n, t) == (t + 1) * Columns(width, n)

(* The last thread gets the columns that are left over too. *)
RightOf(width, n, t) == IF t = n - 1 THEN width ELSE (t + 1) * Columns(width, n)

Left(t)  == LeftOf(image.width, num_threads, t)
Right(t) == RightOf(image.width, num_threads, t)

(* Every thread's loops begin at the upper left of its band. *)
Init ==
    /\ image \in Images /\ box_size \in BoxSizes /\ num_threads \in ThreadCounts
    /\ blur = [p \in (0..(image.width - 1)) \X (0..(image.height - 1)) |-> Black]
    /\ main = "create" /\ i = 0
    /\ status = [t \in Threads |-> "none"]
    /\ x = [t \in Threads |-> Left(t)]
    /\ y = [t \in Threads |-> 0]

Larger(a, b)  == IF a > b THEN a ELSE b
Smaller(a, b) == IF a < b THEN a ELSE b

(* The average of the box around <<c, r>>, cut off at the image's edges.   *)
(* The two programs add it up in the same words: Average stands for both.  *)
Colour(c, r) ==
    LET cols == Larger(c - box_size, 0)..Smaller(c + box_size, image.width - 1)
        rows == Larger(r - box_size, 0)..Smaller(r + box_size, image.height - 1)
    IN  Sequential!Average(image, cols \X rows)

----------------------------------------------------------------------------
(* thread_main *)

SetPixel(t) ==
    /\ status[t] = "running"
    /\ y[t] < image.height /\ x[t] < Right(t)
    /\ blur' = [blur EXCEPT ![<<x[t], y[t]>>] = Colour(x[t], y[t])]
    /\ x' = [x EXCEPT ![t] = @ + 1]
    /\ UNCHANGED <<image, box_size, num_threads, main, i, status, y>>

NextRow(t) ==
    /\ status[t] = "running"
    /\ y[t] < image.height /\ x[t] >= Right(t)
    /\ x' = [x EXCEPT ![t] = Left(t)]
    /\ y' = [y EXCEPT ![t] = @ + 1]
    /\ UNCHANGED <<image, blur, box_size, num_threads, main, i, status>>

ThreadEnds(t) ==
    /\ status[t] = "running"
    /\ y[t] >= image.height
    /\ status' = [status EXCEPT ![t] = "ended"]
    /\ UNCHANGED <<image, blur, box_size, num_threads, main, i, x, y>>

----------------------------------------------------------------------------
(* main *)

(* The next thread; the join loop starts after the last one. *)
NextThread ==
    IF i = num_threads - 1 THEN main' = "join" /\ i' = 0
                           ELSE i' = i + 1 /\ UNCHANGED main

Create ==
    /\ main = "create"
    /\ status' = [status EXCEPT ![i] = "running"]
    /\ NextThread
    /\ UNCHANGED <<image, blur, box_size, num_threads, x, y>>

CreateFails ==
    /\ main = "create"
    /\ status' = [status EXCEPT ![i] = "failed"]
    /\ NextThread
    /\ UNCHANGED <<image, blur, box_size, num_threads, x, y>>

Join ==
    /\ main = "join" /\ i < num_threads
    /\ status[i] \in {"ended", "failed"}
    /\ i' = i + 1
    /\ UNCHANGED <<image, blur, box_size, num_threads, main, status, x, y>>

JoinCrashes ==
    /\ main = "join" /\ i < num_threads
    /\ status[i] = "failed"
    /\ main' = "crashed"
    /\ UNCHANGED <<image, blur, box_size, num_threads, i, status, x, y>>

WriteFile ==
    /\ main = "join" /\ i = num_threads
    /\ main' = "written"
    /\ UNCHANGED <<image, blur, box_size, num_threads, i, status, x, y>>

(* The process ends, with the threads that may be left after a crash. *)
Exited == main \in {"written", "crashed"} /\ UNCHANGED vars

Next ==
    \/ /\ main \notin {"written", "crashed"}
       /\ \E t \in Threads : SetPixel(t) \/ NextRow(t) \/ ThreadEnds(t)
    \/ Create \/ CreateFails \/ Join \/ JoinCrashes \/ WriteFile
    \/ Exited

Spec == Init /\ [][Next]_vars

----------------------------------------------------------------------------
AllPixels == (0..(image.width - 1)) \X (0..(image.height - 1))

TypeOK ==
    /\ image \in Images /\ box_size \in BoxSizes /\ num_threads \in ThreadCounts
    /\ blur \in [AllPixels -> Colours]
    /\ main \in {"create", "join", "written", "crashed"}
    /\ i \in 0..num_threads
    /\ status \in [Threads -> {"none", "running", "ended", "failed"}]
    /\ x \in [Threads -> 0..image.width]
    /\ y \in [Threads -> 0..image.height]

(* The bands of the threads that could not be created. *)
LeftOut ==
    {p \in AllPixels : \E t \in Threads :
       status[t] = "failed" /\ p[1] \in Left(t)..(Right(t) - 1)}

(* The file written is the one blur_sequential writes, whatever the width  *)
(* and the number of threads: every column is in one thread's band, and    *)
(* main has waited for all of them.  Where a thread could not be created   *)
(* its band, and no other pixel, has stayed black.                         *)
OutputIsSequential ==
    main = "written" =>
      blur = [p \in AllPixels |->
                IF p \in LeftOut THEN Black ELSE Sequential!Blurred(image, box_size)[p]]
=============================================================================
