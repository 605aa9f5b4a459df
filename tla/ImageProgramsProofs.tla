------------------------ MODULE ImageProgramsProofs -------------------------
(***************************************************************************)
(* The image programs, for every picture whose file has numbers below      *)
(* 2^31, every box, number of threads and session.                         *)
(*                                                                         *)
(*   Bands          the columns are shared out among the threads; what     *)
(*                  each of them draws is what blur_sequential draws       *)
(*   Headers, Pixels, Files                                                *)
(*                  a header, a pixel and a file are read as they were     *)
(*                  written                                                *)
(*   Loops, Averages, Format                                               *)
(*                  what the loops over the pixels compute; a file that is *)
(*                  written is the one that the format asks for; one in    *)
(*                  the format, of any depth, is read                      *)
(*   Programs       what is true at each place of the programs, kept by    *)
(*                  every step of a session                                *)
(***************************************************************************)
EXTENDS ImagePrograms, SequenceTheorems, FiniteSetTheorems, WellFoundedInduction, TLAPS

(* The division is cut off: so many bands of equal width fit.              *)
LEMMA ColumnsFit ==
    ASSUME NEW w \in Nat, NEW n \in Nat \ {0}
    PROVE  /\ Columns(w, n) \in Nat
           /\ n * Columns(w, n) <= w
  BY DEF Columns

(* A product grows with its factor. *)
LEMMA ProductGrows ==
    ASSUME NEW a \in Int, NEW b \in Int, NEW c \in Nat, a <= b
    PROVE  a * c <= b * c
<1>1. (b - a) * c >= 0
  OBVIOUS
<1>2. (b - a) * c = b * c - a * c
  OBVIOUS
<1> QED
  BY <1>1, <1>2

(* A band lies inside the image. *)
LEMMA BandInside ==
    ASSUME NEW w \in Nat, NEW n \in Nat \ {0}, NEW t \in 0..(n - 1)
    PROVE  /\ LeftOf(w, n, t) \in 0..w
           /\ RightOf(w, n, t) \in 0..w
           /\ LeftOf(w, n, t) <= RightOf(w, n, t)
<1> DEFINE c == Columns(w, n)
<1>1. c \in Nat /\ n * c <= w
  BY ColumnsFit
<1> HIDE DEF c
<1>2. 0 * c <= t * c /\ t * c <= (t + 1) * c /\ (t + 1) * c <= n * c
  BY <1>1, ProductGrows
<1>3. 0 * c = 0 /\ t * c \in Int /\ (t + 1) * c \in Int /\ n * c \in Int
  BY <1>1
<1> QED
  BY <1>1, <1>2, <1>3 DEF LeftOf, RightOf, c

InBand(w, n, t, column) == LeftOf(w, n, t) <= column /\ column < RightOf(w, n, t)

(* Every column is in a band, also when the division leaves columns over   *)
(* and when there are more threads than columns (blur_parallel.cc:128).    *)
LEMMA BandsCover ==
    ASSUME NEW w \in Nat, NEW n \in Nat \ {0}, NEW column \in 0..(w - 1)
    PROVE  \E t \in 0..(n - 1) : InBand(w, n, t, column)
<1> DEFINE c == Columns(w, n)
<1>1. c \in Nat /\ n * c <= w
  BY ColumnsFit
<1>2. CASE column >= (n - 1) * c
  BY <1>1, <1>2 DEF InBand, LeftOf, RightOf
<1>3. CASE ~(column >= (n - 1) * c)
  <2> DEFINE t == column \div c
  <2>1. c > 0
    BY <1>1, <1>3
  <2>2. t \in Nat /\ t * c <= column /\ column < (t + 1) * c
    BY <1>1, <2>1
  <2> HIDE DEF c, t
  <2>3. t < n - 1
    <3>1. CASE t >= n - 1
      <4>1. (n - 1) * c <= t * c
        BY <1>1, <2>2, <3>1, ProductGrows
      <4> QED
        BY <1>1, <1>3, <2>2, <4>1
    <3> QED
      BY <2>2, <3>1
  <2>4. InBand(w, n, t, column)
    BY <2>2, <2>3 DEF InBand, LeftOf, RightOf, c
  <2> QED
    BY <2>2, <2>3, <2>4
<1> QED
  BY <1>2, <1>3

(* No column is in two bands: of two threads neither writes a pixel of the *)
(* other, which is why they need no lock.                                  *)
LEMMA BandsDisjoint ==
    ASSUME NEW w \in Nat, NEW n \in Nat \ {0}, NEW column \in 0..(w - 1),
           NEW s \in 0..(n - 1), NEW t \in 0..(n - 1), s < t
    PROVE  ~(InBand(w, n, s, column) /\ InBand(w, n, t, column))
<1> DEFINE c == Columns(w, n)
<1>1. c \in Nat
  BY ColumnsFit
<1> HIDE DEF c
<1>2. (s + 1) * c <= t * c
  BY <1>1, ProductGrows
<1> QED
  BY <1>1, <1>2 DEF InBand, LeftOf, RightOf, c

----------------------------------------------------------------------------
(* The inductive invariant. *)

(* No thread has left its band. *)
Inside == \A t \in Threads : Left(t) <= x[t] /\ x[t] <= Right(t)

(* Whoever writes a pixel writes the right colour. *)
Drawn ==
    \A t \in Threads : \A p \in AllPixels :
       /\ InBand(image.width, num_threads, t, p[1])
       /\ p[2] < y[t] \/ (p[2] = y[t] /\ p[1] < x[t])
       => blur[p] = Sequential!Blurred(image, box_size)[p]

(* A thread that has ended has been through its rows. *)
Ended == \A t \in Threads : status[t] = "ended" => y[t] = image.height

(* How far main's two loops are. *)
Progress ==
    /\ main = "create" => i < num_threads
    /\ main = "join" => \A t \in Threads : t < i => status[t] \in {"ended", "failed"}
    /\ main = "written" => \A t \in Threads : status[t] \in {"ended", "failed"}

IInv == TypeOK /\ Inside /\ Drawn /\ Ended /\ Progress

(* The arguments are those that the program accepts. *)
LEMMA Sizes ==
    ASSUME TypeOK
    PROVE  /\ image.width \in Nat \ {0} /\ image.height \in Nat \ {0}
           /\ box_size \in Nat /\ num_threads \in Nat \ {0}
  BY BlurAssumption DEF TypeOK

(* The two programs blur a pixel alike: the box clipped with max and min   *)
(* (line 36) is the set of the image's pixels that are near enough.        *)
LEMMA ColourIsBlurred ==
    ASSUME TypeOK, NEW p \in AllPixels
    PROVE  /\ Colour(p[1], p[2]) = Sequential!Blurred(image, box_size)[p]
           /\ Colour(p[1], p[2]) \in Colours
<1> DEFINE cols == Larger(p[1] - box_size, 0)..Smaller(p[1] + box_size, image.width - 1)
           rows == Larger(p[2] - box_size, 0)..Smaller(p[2] + box_size, image.height - 1)
           box  == Sequential!Box(image, box_size, p)
<1>1. p[1] \in 0..(image.width - 1) /\ p[2] \in 0..(image.height - 1) /\ p = <<p[1], p[2]>>
  BY Sizes DEF AllPixels
<1>2. cols = {c \in 0..(image.width - 1) : c \in (p[1] - box_size)..(p[1] + box_size)}
  BY <1>1, Sizes DEF Larger, Smaller
<1>3. rows = {r \in 0..(image.height - 1) : r \in (p[2] - box_size)..(p[2] + box_size)}
  BY <1>1, Sizes DEF Larger, Smaller
<1>4. cols \X rows = box
  <2> HIDE DEF cols, rows
  <2>1. ASSUME NEW q \in cols \X rows PROVE q \in box
    BY <1>2, <1>3, <2>1 DEF Sequential!Box, Sequential!Pixels
  <2>2. ASSUME NEW q \in box PROVE q \in cols \X rows
    BY <1>2, <1>3, <2>2 DEF Sequential!Box, Sequential!Pixels
  <2>3. box \subseteq cols \X rows
    BY <2>2
  <2>4. cols \X rows \subseteq box
    BY <2>1
  <2> QED
    BY <2>3, <2>4
<1>5. Colour(p[1], p[2]) = Sequential!Average(image, box)
  BY <1>4 DEF Colour
<1>6. p \in Sequential!Pixels(image)
  BY DEF AllPixels, Sequential!Pixels
<1>7. Sequential!Blurred(image, box_size)[p] = Sequential!Average(image, box)
  BY <1>6 DEF Sequential!Blurred
<1>8. p \in box /\ box \subseteq Sequential!Pixels(image)
  BY <1>1, <1>6, Sizes DEF Sequential!Box
<1>9. Sequential!Average(image, box) \in Colours
  BY <1>8, ColoursAssumption DEF TypeOK
<1> QED
  BY <1>5, <1>7, <1>9

(* The loops begin at the left edge of the band, with nothing drawn. *)
LEMMA InitIInv == Init => IInv
<1> SUFFICES ASSUME Init PROVE IInv
  OBVIOUS
<1>1. image.width \in Nat \ {0} /\ image.height \in Nat \ {0} /\ num_threads \in Nat \ {0}
  BY BlurAssumption DEF Init
<1>2. \A t \in Threads : /\ Left(t) \in 0..image.width
                         /\ Right(t) \in 0..image.width
                         /\ Left(t) <= Right(t)
  BY <1>1, BandInside DEF Threads, Left, Right
<1>3. TypeOK
  <2>1. blur \in [AllPixels -> Colours]
    BY BlurAssumption DEF Init, AllPixels
  <2> QED
    BY <1>1, <1>2, <2>1 DEF Init, TypeOK
<1>4. Inside
  BY <1>1, <1>2 DEF Init, Inside
<1>5. Drawn
  <2> SUFFICES ASSUME NEW t \in Threads, NEW p \in AllPixels,
                      InBand(image.width, num_threads, t, p[1]),
                      p[2] < 0 \/ (p[2] = 0 /\ p[1] < Left(t))
               PROVE  FALSE
    BY DEF Init, Drawn
  <2>1. p[1] \in Int /\ p[2] \in Nat
    BY <1>1 DEF AllPixels
  <2> QED
    BY <1>2, <2>1 DEF InBand, Left
<1>6. Ended /\ Progress
  BY <1>1 DEF Init, Ended, Progress
<1> QED
  BY <1>3, <1>4, <1>5, <1>6 DEF IInv

(* A step that draws nothing and leaves the threads where they are.        *)
LEMMA NothingDrawn ==
    ASSUME Inside, Drawn, UNCHANGED <<image, blur, box_size, num_threads, x, y>>
    PROVE  Inside' /\ Drawn'
<1>1. Inside'
  BY DEF Inside, Threads, Left, Right
<1>2. Drawn'
  <2>1. Threads' = Threads /\ AllPixels' = AllPixels
    BY DEF Threads, AllPixels
  <2>2. Sequential!Blurred(image, box_size)' = Sequential!Blurred(image, box_size)
    BY DEF Sequential!Blurred, Sequential!Pixels, Sequential!Box
  <2> QED
    BY <2>1, <2>2 DEF Drawn
<1> QED
  BY <1>1, <1>2

(* The steps of a thread. *)
LEMMA ThreadSteps ==
    ASSUME IInv, NEW t \in Threads, SetPixel(t) \/ NextRow(t) \/ ThreadEnds(t)
    PROVE  IInv'
<1> USE DEF IInv
<1>1. /\ image.width \in Nat \ {0} /\ image.height \in Nat \ {0}
      /\ num_threads \in Nat \ {0} /\ image' = image /\ box_size' = box_size
      /\ num_threads' = num_threads /\ Threads' = Threads /\ AllPixels' = AllPixels
  BY Sizes DEF SetPixel, NextRow, ThreadEnds, Threads, AllPixels
<1>2. \A u \in Threads : /\ Left(u) \in 0..image.width /\ Left(u)' = Left(u)
                         /\ Right(u) \in 0..image.width /\ Right(u)' = Right(u)
                         /\ Left(u) <= Right(u)
  BY <1>1, BandInside DEF Threads, Left, Right
<1>3. Sequential!Blurred(image, box_size)' = Sequential!Blurred(image, box_size)
  BY <1>1 DEF Sequential!Blurred, Sequential!Pixels, Sequential!Box
<1>4. x \in [Threads -> 0..image.width] /\ y \in [Threads -> 0..image.height]
  BY DEF TypeOK
<1>5. \A u \in Threads : InBand(image.width, num_threads, u, x[u]) <=>
                         Left(u) <= x[u] /\ x[u] < Right(u)
  BY DEF InBand, Left, Right
<1>6. CASE SetPixel(t)
  <2> DEFINE here == <<x[t], y[t]>>
  <2>1. here \in AllPixels
    BY <1>1, <1>2, <1>4, <1>6 DEF SetPixel, AllPixels
  <2>2. /\ Colour(x[t], y[t]) = Sequential!Blurred(image, box_size)[here]
        /\ Colour(x[t], y[t]) \in Colours
    BY <2>1, ColourIsBlurred
  <2>3. blur' = [blur EXCEPT ![here] = Colour(x[t], y[t])] /\ x' = [x EXCEPT ![t] = @ + 1]
        /\ UNCHANGED <<main, i, status, y>> /\ x[t] < Right(t) /\ status[t] = "running"
    BY <1>6 DEF SetPixel
  <2>4. blur' \in [AllPixels -> Colours]
    <3> HIDE DEF here
    <3> QED
      BY <2>1, <2>2, <2>3 DEF TypeOK
  <2>5. x' \in [Threads -> 0..image.width]
    BY <1>1, <1>2, <1>4, <2>3
  <2>6. TypeOK'
    BY <1>1, <2>3, <2>4, <2>5 DEF TypeOK
  <2>7. Inside'
    BY <1>1, <1>2, <1>4, <2>3 DEF Inside
  <2>8. Drawn'
    <3> SUFFICES ASSUME NEW u \in Threads, NEW p \in AllPixels,
                        InBand(image.width, num_threads, u, p[1]),
                        p[2] < y[u] \/ (p[2] = y[u] /\ p[1] < x'[u])
                 PROVE  blur'[p] = Sequential!Blurred(image, box_size)[p]
      BY <1>1, <1>3, <2>3 DEF Drawn
    <3>1. CASE p = here
      <4> HIDE DEF here
      <4> QED
        BY <2>1, <2>2, <2>3, <3>1 DEF TypeOK
    <3>2. CASE p # here
      <4>1. p[1] \in Nat /\ p[2] \in Nat /\ p = <<p[1], p[2]>>
        BY <1>1 DEF AllPixels
      <4>2. p[2] < y[u] \/ (p[2] = y[u] /\ p[1] < x[u])
        BY <1>4, <2>3, <3>2, <4>1
      <4>3. blur[p] = Sequential!Blurred(image, box_size)[p]
        BY <4>2 DEF Drawn
      <4>4. blur'[p] = blur[p]
        <5> HIDE DEF here
        <5> QED
          BY <2>3, <3>2 DEF TypeOK
      <4> QED
        BY <4>3, <4>4
    <3> QED
      BY <3>1, <3>2
  <2>9. Ended' /\ Progress'
    BY <1>1, <2>3 DEF Ended, Progress
  <2> QED
    BY <2>6, <2>7, <2>8, <2>9
<1>7. CASE NextRow(t)
  <2>1. /\ x' = [x EXCEPT ![t] = Left(t)] /\ y' = [y EXCEPT ![t] = @ + 1]
        /\ UNCHANGED <<blur, main, i, status>>
        /\ y[t] < image.height /\ x[t] >= Right(t) /\ status[t] = "running"
    BY <1>7 DEF NextRow
  <2>2. TypeOK'
    BY <1>1, <1>2, <1>4, <2>1 DEF TypeOK
  <2>3. Inside'
    BY <1>1, <1>2, <1>4, <2>1 DEF Inside
  <2>4. Drawn'
    <3> SUFFICES ASSUME NEW u \in Threads, NEW p \in AllPixels,
                        InBand(image.width, num_threads, u, p[1]),
                        p[2] < y'[u] \/ (p[2] = y'[u] /\ p[1] < x'[u])
                 PROVE  blur[p] = Sequential!Blurred(image, box_size)[p]
      BY <1>1, <1>3, <2>1 DEF Drawn
    <3>1. p[1] \in Nat /\ p[2] \in Nat
      BY <1>1 DEF AllPixels
    <3>2. Left(u) <= p[1] /\ p[1] < Right(u)
      BY DEF InBand, Left, Right
    <3>3. p[2] < y[u] \/ (p[2] = y[u] /\ p[1] < x[u])
      <4>1. CASE u = t
        BY <1>2, <1>4, <2>1, <3>1, <3>2, <4>1
      <4>2. CASE u # t
        BY <1>4, <2>1, <4>2
      <4> QED
        BY <4>1, <4>2
    <3> QED
      BY <3>3 DEF Drawn
  <2>5. Ended' /\ Progress'
    BY <1>1, <1>4, <2>1 DEF Ended, Progress
  <2> QED
    BY <2>2, <2>3, <2>4, <2>5
<1>8. CASE ThreadEnds(t)
  <2>1. /\ status' = [status EXCEPT ![t] = "ended"]
        /\ UNCHANGED <<image, blur, box_size, num_threads, main, i, x, y>>
        /\ y[t] >= image.height /\ status[t] = "running"
    BY <1>8 DEF ThreadEnds
  <2>2. TypeOK'
    BY <1>1, <2>1 DEF TypeOK
  <2>3. Inside' /\ Drawn'
    BY <2>1, NothingDrawn
  <2>4. Ended'
    BY <1>1, <1>4, <2>1 DEF Ended, TypeOK
  <2>5. Progress'
    BY <1>1, <2>1 DEF Progress, TypeOK
  <2> QED
    BY <2>2, <2>3, <2>4, <2>5
<1> QED
  BY <1>6, <1>7, <1>8

(* The steps of main. *)
LEMMA MainSteps ==
    ASSUME IInv, Create \/ CreateFails \/ Join \/ JoinCrashes \/ WriteFile
    PROVE  IInv'
<1> USE DEF IInv
<1>1. /\ image.width \in Nat \ {0} /\ image.height \in Nat \ {0} /\ num_threads \in Nat \ {0}
      /\ UNCHANGED <<image, blur, box_size, num_threads, x, y>>
      /\ Threads' = Threads /\ AllPixels' = AllPixels
  BY Sizes DEF Create, CreateFails, Join, JoinCrashes, WriteFile, Threads, AllPixels
<1>2. Inside' /\ Drawn'
  BY <1>1, NothingDrawn
<1>3. i \in Nat
  BY <1>1 DEF TypeOK
<1>4. CASE Create \/ CreateFails
  <2>1. /\ main = "create" /\ i \in Threads
        /\ status' = [status EXCEPT ![i] = "running"] \/ status' = [status EXCEPT ![i] = "failed"]
        /\ \/ i = num_threads - 1 /\ main' = "join" /\ i' = 0
           \/ i # num_threads - 1 /\ i' = i + 1 /\ main' = main
    BY <1>1, <1>3, <1>4 DEF Create, CreateFails, NextThread, Progress, Threads
  <2>2. TypeOK'
    <3>1. status' \in [Threads -> {"none", "running", "ended", "failed"}]
      BY <2>1 DEF TypeOK
    <3>2. i' \in 0..num_threads /\ main' \in {"create", "join", "written", "crashed"}
      BY <1>1, <1>3, <2>1 DEF Threads
    <3> QED
      BY <1>1, <3>1, <3>2 DEF TypeOK
  <2>3. Ended'
    BY <1>1, <2>1 DEF Ended, TypeOK
  <2>4. Progress'
    BY <1>1, <2>1 DEF Progress, Threads
  <2> QED
    BY <1>2, <2>2, <2>3, <2>4
<1>5. CASE Join
  <2>1. /\ main = "join" /\ i < num_threads /\ status[i] \in {"ended", "failed"}
        /\ i' = i + 1 /\ UNCHANGED <<main, status>>
    BY <1>5 DEF Join
  <2>2. TypeOK' /\ Ended'
    BY <1>1, <1>3, <2>1 DEF TypeOK, Ended
  <2>3. Progress'
    BY <1>1, <1>3, <2>1 DEF Progress, Threads
  <2> QED
    BY <1>2, <2>2, <2>3
<1>6. CASE JoinCrashes
  BY <1>1, <1>2, <1>6 DEF JoinCrashes, TypeOK, Ended, Progress
<1>7. CASE WriteFile
  <2>1. /\ main = "join" /\ i = num_threads /\ main' = "written" /\ UNCHANGED <<i, status>>
    BY <1>7 DEF WriteFile
  <2>2. Progress'
    BY <1>1, <2>1 DEF Progress, Threads
  <2> QED
    BY <1>1, <1>2, <2>1, <2>2 DEF TypeOK, Ended
<1> QED
  BY <1>4, <1>5, <1>6, <1>7

(* Every step keeps the invariant. *)
LEMMA NextIInv == IInv /\ [Next]_vars => IInv'
<1> SUFFICES ASSUME IInv, [Next]_vars PROVE IInv'
  OBVIOUS
<1>1. CASE \E t \in Threads : SetPixel(t) \/ NextRow(t) \/ ThreadEnds(t)
  BY <1>1, ThreadSteps
<1>2. CASE Create \/ CreateFails \/ Join \/ JoinCrashes \/ WriteFile
  BY <1>2, MainSteps
<1>3. CASE UNCHANGED vars
  <2>1. UNCHANGED <<image, blur, box_size, num_threads, main, i, status, x, y>>
    BY <1>3 DEF vars
  <2>2. Inside' /\ Drawn'
    BY <2>1, NothingDrawn DEF IInv
  <2> QED
    BY <2>1, <2>2 DEF IInv, TypeOK, Ended, Progress, Threads, AllPixels
<1> QED
  BY <1>1, <1>2, <1>3 DEF Next, Exited

(* The program keeps to its arrays, draws only right colours, and main     *)
(* does not pass its joins before the threads have ended.                  *)
THEOREM Inductive == Spec => []IInv
  BY InitIInv, NextIInv, PTL DEF Spec

(* Threads stay inside the image and its rows. *)
THEOREM TypeCorrect == Spec => []TypeOK
<1>1. IInv => TypeOK
  BY DEF IInv
<1> QED
  BY <1>1, Inductive, PTL

(* No thread goes beyond the columns of its band. *)
THEOREM ThreadsKeepToBands == Spec => []Inside
<1>1. IInv => Inside
  BY DEF IInv
<1> QED
  BY <1>1, Inductive, PTL

----------------------------------------------------------------------------
(* What nobody has drawn is black. *)

NotDrawn ==
    \A t \in Threads : status[t] \in {"none", "failed"} =>
      \A p \in AllPixels : InBand(image.width, num_threads, t, p[1]) => blur[p] = Black

NotYet == main = "create" => \A t \in Threads : t >= i => status[t] = "none"

ThreadInv == IInv /\ NotDrawn /\ NotYet

(* The pixels of a band, by the bounds of its thread's loop. *)
LEMMA InBandIs ==
    ASSUME TypeOK, NEW t \in Threads, NEW p \in AllPixels
    PROVE  /\ InBand(image.width, num_threads, t, p[1]) <=> p[1] \in Left(t)..(Right(t) - 1)
           /\ Left(t) \in Nat /\ Right(t) \in Nat
           /\ p[1] \in 0..(image.width - 1) /\ p[2] \in 0..(image.height - 1)
           /\ p = <<p[1], p[2]>>
<1>1. image.width \in Nat \ {0} /\ image.height \in Nat \ {0} /\ num_threads \in Nat \ {0}
  BY Sizes
<1>2. Left(t) \in Nat /\ Right(t) \in Nat
  BY <1>1, BandInside DEF Threads, Left, Right
<1>3. p[1] \in 0..(image.width - 1) /\ p[2] \in 0..(image.height - 1) /\ p = <<p[1], p[2]>>
  BY <1>1 DEF AllPixels
<1> QED
  BY <1>2, <1>3 DEF InBand, Left, Right

(* A pixel is in one band only. *)
LEMMA BandOfOne ==
    ASSUME TypeOK, NEW s \in Threads, NEW t \in Threads, NEW p \in AllPixels,
           InBand(image.width, num_threads, s, p[1]), InBand(image.width, num_threads, t, p[1])
    PROVE  s = t
<1>1. image.width \in Nat \ {0} /\ num_threads \in Nat \ {0}
  BY Sizes
<1>2. p[1] \in 0..(image.width - 1)
  BY InBandIs
<1>3. s \in 0..(num_threads - 1) /\ t \in 0..(num_threads - 1)
  BY DEF Threads
<1>4. ~(s < t)
  BY <1>1, <1>2, <1>3, BandsDisjoint
<1>5. ~(t < s)
  BY <1>1, <1>2, <1>3, BandsDisjoint
<1> QED
  BY <1>1, <1>3, <1>4, <1>5

(* The steps of a thread keep what is true of the threads. *)
LEMMA ThreadKeeps ==
    ASSUME ThreadInv, NEW t \in Threads, SetPixel(t) \/ NextRow(t) \/ ThreadEnds(t)
    PROVE  ThreadInv'
<1>1. IInv' /\ TypeOK
  BY ThreadSteps DEF ThreadInv, IInv
<1>2. /\ image' = image /\ num_threads' = num_threads /\ main' = main /\ i' = i
      /\ Threads' = Threads /\ AllPixels' = AllPixels
      /\ status[t] = "running"
      /\ status' = status \/ status' = [status EXCEPT ![t] = "ended"]
  BY DEF SetPixel, NextRow, ThreadEnds, Threads, AllPixels
<1>3. \A u \in Threads : status'[u] \in {"none", "failed"} => u # t /\ status'[u] = status[u]
  BY <1>1, <1>2 DEF TypeOK
<1>4. NotDrawn'
  <2> SUFFICES ASSUME NEW u \in Threads, status'[u] \in {"none", "failed"},
                      NEW p \in AllPixels, InBand(image.width, num_threads, u, p[1])
               PROVE  blur'[p] = Black
    BY <1>2 DEF NotDrawn
  <2>1. blur[p] = Black /\ u # t
    BY <1>3 DEF ThreadInv, NotDrawn
  <2>2. CASE blur' = blur
    BY <2>1, <2>2
  <2>3. CASE SetPixel(t)
    <3> DEFINE here == <<x[t], y[t]>>
    <3>1. blur' = [blur EXCEPT ![here] = Colour(x[t], y[t])] /\ x[t] < Right(t)
      BY <2>3 DEF SetPixel
    <3>2. Left(t) <= x[t]
      BY DEF ThreadInv, IInv, Inside
    <3>3. here[1] = x[t] /\ InBand(image.width, num_threads, t, here[1])
      BY <3>1, <3>2 DEF InBand, Left, Right
    <3> HIDE DEF here
    <3>4. p # here
      BY <1>1, <2>1, <3>3, BandOfOne
    <3> QED
      BY <1>1, <2>1, <3>1, <3>4 DEF TypeOK
  <2> QED
    BY <2>2, <2>3 DEF NextRow, ThreadEnds
<1>5. NotYet'
  BY <1>1, <1>2 DEF ThreadInv, NotYet, TypeOK
<1> QED
  BY <1>1, <1>4, <1>5 DEF ThreadInv

(* So do the steps of main. *)
LEMMA MainKeeps ==
    ASSUME ThreadInv, Create \/ CreateFails \/ Join \/ JoinCrashes \/ WriteFile
    PROVE  ThreadInv'
<1>1. IInv' /\ TypeOK /\ num_threads \in Nat \ {0}
  BY MainSteps, Sizes DEF ThreadInv, IInv
<1>2. /\ image' = image /\ num_threads' = num_threads /\ blur' = blur
      /\ Threads' = Threads /\ AllPixels' = AllPixels
  BY DEF Create, CreateFails, Join, JoinCrashes, WriteFile, Threads, AllPixels
<1>3. CASE Create \/ CreateFails
  <2>1. /\ main = "create" /\ i \in Threads /\ i \in Nat
        /\ status' = [status EXCEPT ![i] = "running"] \/ status' = [status EXCEPT ![i] = "failed"]
        /\ \/ main' = "join"
           \/ i' = i + 1 /\ main' = main
    BY <1>1, <1>3 DEF Create, CreateFails, NextThread, ThreadInv, IInv, Progress, Threads, TypeOK
  <2>2. \A t \in Threads : t >= i => status[t] = "none"
    BY <2>1 DEF ThreadInv, NotYet
  <2>3. status \in [Threads -> {"none", "running", "ended", "failed"}]
    BY <1>1 DEF TypeOK
  <2>4. NotYet'
    BY <1>1, <1>2, <2>1, <2>2, <2>3 DEF NotYet, Threads
  <2>5. status[i] = "none"
    BY <2>1, <2>2
  <2>6. \A t \in Threads : status'[t] \in {"none", "failed"} => status[t] \in {"none", "failed"}
    BY <2>1, <2>3, <2>5
  <2>7. NotDrawn'
    BY <1>2, <2>6 DEF ThreadInv, NotDrawn
  <2> QED
    BY <1>1, <2>4, <2>7 DEF ThreadInv
<1>4. CASE Join \/ JoinCrashes \/ WriteFile
  <2>1. status' = status /\ main = "join" /\ main' # "create"
    BY <1>4 DEF Join, JoinCrashes, WriteFile
  <2> QED
    BY <1>1, <1>2, <2>1 DEF ThreadInv, NotDrawn, NotYet
<1> QED
  BY <1>3, <1>4

(* So does a step that leaves them alone. *)
LEMMA StillKeeps == ASSUME ThreadInv, UNCHANGED vars PROVE ThreadInv'
<1>1. IInv'
  BY NextIInv DEF ThreadInv
<1>2. UNCHANGED <<image, blur, num_threads, main, i, status>>
  BY DEF vars
<1> QED
  BY <1>1, <1>2 DEF ThreadInv, NotDrawn, NotYet, Threads, AllPixels

(* It is true at first. *)
LEMMA InitThreads == Init => ThreadInv
<1> SUFFICES ASSUME Init PROVE ThreadInv
  OBVIOUS
<1>1. IInv
  BY InitIInv
<1>2. NotDrawn
  <2>1. blur = [p \in AllPixels |-> Black]
    BY DEF Init, AllPixels
  <2> QED
    BY <2>1 DEF NotDrawn
<1>3. NotYet
  BY DEF Init, NotYet
<1> QED
  BY <1>1, <1>2, <1>3 DEF ThreadInv

(* What main writes after its joins. *)
LEMMA BandsDone ==
    ASSUME ThreadInv, main = "written" \/ (main = "join" /\ i = num_threads),
           NEW p \in AllPixels
    PROVE  LET dark == \E t \in Threads : status[t] = "failed" /\ p[1] \in Left(t)..(Right(t) - 1)
           IN  blur[p] = IF dark THEN Black ELSE Sequential!Blurred(image, box_size)[p]
<1> DEFINE dark == \E t \in Threads : status[t] = "failed" /\ p[1] \in Left(t)..(Right(t) - 1)
<1>1. TypeOK /\ image.width \in Nat \ {0} /\ image.height \in Nat \ {0} /\ num_threads \in Nat \ {0}
  BY Sizes DEF ThreadInv, IInv
<1>2. CASE dark
  <2>1. PICK t \in Threads : status[t] = "failed" /\ p[1] \in Left(t)..(Right(t) - 1)
    BY <1>2
  <2>2. InBand(image.width, num_threads, t, p[1])
    BY <1>1, <2>1, InBandIs
  <2> QED
    BY <1>2, <2>1, <2>2 DEF ThreadInv, NotDrawn
<1>3. CASE ~dark
  <2>1. p[1] \in 0..(image.width - 1) /\ p[2] \in 0..(image.height - 1)
    BY <1>1, <1>3, InBandIs, BandsCover DEF AllPixels
  <2>2. PICK t \in Threads : InBand(image.width, num_threads, t, p[1])
    BY <1>1, <2>1, BandsCover DEF Threads
  <2>3. status[t] \in {"ended", "failed"}
    BY <1>1, <2>2 DEF ThreadInv, IInv, Progress, Threads
  <2>4. status[t] # "failed"
    BY <1>1, <1>3, <2>2, InBandIs
  <2>5. y[t] = image.height
    BY <2>3, <2>4 DEF ThreadInv, IInv, Ended
  <2>6. p[2] < y[t]
    BY <1>1, <2>1, <2>5
  <2>7. blur[p] = Sequential!Blurred(image, box_size)[p]
    BY <2>2, <2>6 DEF ThreadInv, IInv, Drawn
  <2> QED
    BY <1>3, <2>7
<1> QED
  BY <1>2, <1>3

(* It is an invariant of blur_parallel. *)
LEMMA ThreadsAlways == Spec => []ThreadInv
<1>1. ThreadInv /\ [Next]_vars => ThreadInv'
  BY ThreadKeeps, MainKeeps, StillKeeps DEF Next, Exited
<1> QED
  BY <1>1, InitThreads, PTL DEF Spec

(* The output is done, but for what was left out. *)
LEMMA OutputDone == ThreadInv => OutputIsSequential
<1> SUFFICES ASSUME ThreadInv, main = "written" PROVE OutputIsSequential
  BY DEF OutputIsSequential
<1> DEFINE colour(p) == IF p \in LeftOut THEN Black ELSE Sequential!Blurred(image, box_size)[p]
<1>1. blur \in [AllPixels -> Colours]
  BY DEF ThreadInv, IInv, TypeOK
<1>2. \A p \in AllPixels : blur[p] = colour(p)
  <2> TAKE p \in AllPixels
  <2> DEFINE dark == \E t \in Threads : status[t] = "failed" /\ p[1] \in Left(t)..(Right(t) - 1)
  <2>1. blur[p] = IF dark THEN Black ELSE Sequential!Blurred(image, box_size)[p]
    BY BandsDone
  <2>2. p \in LeftOut <=> dark
    BY DEF LeftOut
  <2> QED
    BY <2>1, <2>2
<1> HIDE DEF colour
<1>3. blur = [p \in AllPixels |-> colour(p)]
  BY <1>1, <1>2
<1> QED
  BY <1>3 DEF OutputIsSequential, colour

(* The file that main writes after its joins is the file blur_sequential   *)
(* writes, for every image, box and number of threads, but for the bands   *)
(* of threads that could not be created: these are black.                  *)
THEOREM ParallelIsSequential == Spec => []OutputIsSequential
  BY OutputDone, ThreadsAlways, PTL

----------------------------------------------------------------------------
(* Numbers in a header *)

(* The numbers that have room in four bytes and a sign, and in two bytes. *)
Fits4(n) == n \in Nat /\ n \div Weight[4] < 128
Fits2(n) == n \in Nat /\ n \div Weight[3] = 0

(* The bytes of a number, put together again. *)
LEMMA FourBytes ==
    ASSUME NEW n, Fits4(n), NEW s \in Seq(Bytes), Len(s) = 4,
           \A k \in 0..3 : s[k + 1] = Little(n, k)
    PROVE  FromLittle(s) = n
<1>1. /\ s[1] = n % 256 /\ s[2] = (n \div 256) % 256
      /\ s[3] = (n \div (256 * 256)) % 256 /\ s[4] = (n \div (256 * 256 * 256)) % 256
  BY DEF Fits4, Little, Weight
<1>3. n \div (256 * 256 * 256) < 128 /\ n \in Nat
  BY DEF Fits4, Weight
<1>4. \A m \in Nat : \E q \in Nat, r \in 0..255 : m = 256 * q + r
  <2> TAKE m \in Nat
  <2>1. m \div 256 \in Nat /\ m % 256 \in 0..255 /\ m = 256 * (m \div 256) + (m % 256)
    OBVIOUS
  <2> QED
    BY <2>1
<1>5. PICK p \in Nat, a \in 0..255 : n = 256 * p + a
  BY <1>3, <1>4
<1>6. PICK q \in Nat, b \in 0..255 : p = 256 * q + b
  BY <1>4
<1>7. PICK d \in Nat, c \in 0..255 : q = 256 * d + c
  BY <1>4
<1>8. n % 256 = a /\ n \div 256 = p /\ p % 256 = b /\ q % 256 = c
  BY <1>5, <1>6, <1>7
<1>9. n \div (256 * 256) = q /\ n \div (256 * 256 * 256) = d
  BY <1>5, <1>6, <1>7
<1>10. s[1] = a /\ s[2] = b /\ s[3] = c /\ s[4] = d /\ d < 128
  <2>1. d < 128 /\ d % 256 = d
    BY <1>3, <1>9
  <2> QED
    BY <1>1, <1>8, <1>9, <2>1, ZenonT(30)
<1>2. FromLittle(s) = s[4] * (256 * 256 * 256) + s[3] * (256 * 256) + s[2] * 256 + s[1] * 1
  <2>1. ~(Len(s) = 4 /\ s[4] >= 128)
    BY <1>10
  <2> QED
    BY <1>10, <2>1 DEF FromLittle, Weight
<1> QED
  BY <1>2, <1>5, <1>6, <1>7, <1>10

(* The same of two bytes. *)
LEMMA TwoBytes ==
    ASSUME NEW n, Fits2(n), NEW s \in Seq(Bytes), Len(s) = 2,
           \A k \in 0..1 : s[k + 1] = Little(n, k)
    PROVE  FromLittle(s) = n
<1>1. s[1] = n % 256 /\ s[2] = (n \div 256) % 256
  BY DEF Fits2, Little, Weight
<1>2. FromLittle(s) = 0 + 0 + s[2] * 256 + s[1] * 1
  BY DEF FromLittle, Weight
<1>3. n \div (256 * 256) = 0 /\ n \in Nat
  BY DEF Fits2, Weight
<1> QED
  BY <1>1, <1>2, <1>3

(* What WriteUINT and WriteUSHORT write are bytes. *)
LEMMA LittleByte == ASSUME NEW n \in Nat, NEW k \in 0..3 PROVE Little(n, k) \in Bytes
  BY DEF Little, Weight, Bytes

(* A byte is a number. *)
LEMMA ByteIsNat == \A b \in Bytes : b \in Nat
  BY DEF Bytes

(* ReadUINT and ReadUSHORT read a natural number from any bytes. *)
LEMMA FromLittleNat ==
    ASSUME NEW s \in Seq(Bytes) PROVE FromLittle(s) \in Nat
<1> DEFINE Part(k) == IF k <= Len(s) THEN s[k] * Weight[k] ELSE 0
<1>1. \A k \in 1..4 : Weight[k] \in Nat
  BY DEF Weight
<1>2. \A k \in 1..4 : Part(k) \in Nat
  <2> SUFFICES ASSUME NEW k \in 1..4, k <= Len(s) PROVE s[k] * Weight[k] \in Nat
    OBVIOUS
  <2>1. s[k] \in Bytes
    OBVIOUS
  <2>2. s[k] \in Nat
    BY <2>1, ByteIsNat
  <2> QED
    BY <1>1, <2>2
<1> DEFINE sign == IF Len(s) = 4 /\ s[4] >= 128
                   THEN (256 * Weight[4] - 1) * (256 * Weight[4]) ELSE 0
<1>3. sign \in Nat
  <2> DEFINE top == 256 * Weight[4]
  <2>1. Weight[4] \in Nat \ {0}
    BY DEF Weight
  <2>2. top \in Nat /\ top - 1 \in Nat
    BY <2>1
  <2> HIDE DEF top
  <2>3. (top - 1) * top \in Nat
    BY <2>2
  <2> QED
    BY <2>3 DEF top
<1> HIDE DEF Part, sign
<1>4. sign + Part(4) + Part(3) + Part(2) + Part(1) \in Nat
  BY <1>2, <1>3
<1> QED
  BY <1>4 DEF FromLittle, Part, sign

----------------------------------------------------------------------------
(* The fields of a header *)

Short == {"Magic", "Reserved1", "Reserved2", "Planes", "BitsPerPixel"}

(* The fields of a header, and how long each is. *)
LEMMA Fields ==
    /\ DOMAIN Place = {"Magic", "FileSize", "Reserved1", "Reserved2", "DataOffset", "HeaderSize",
                       "Width", "Height", "Planes", "BitsPerPixel", "CompressionType",
                       "ImageDataSize", "HPixelsPerMeter", "VPixelsPerMeter", "ColorsUsed",
                       "ColorsRequired"}
    /\ \A f \in DOMAIN Place : Size(f) = (IF f \in Short THEN 2 ELSE 4)
  BY DEF Place, Size, Short

(* Where each field is. *)
LEMMA Places ==
    /\ Place["Magic"] = 0 /\ Place["FileSize"] = 2 /\ Place["Reserved1"] = 6
    /\ Place["Reserved2"] = 8 /\ Place["DataOffset"] = 10 /\ Place["HeaderSize"] = 14
    /\ Place["Width"] = 18 /\ Place["Height"] = 22 /\ Place["Planes"] = 26
    /\ Place["BitsPerPixel"] = 28 /\ Place["CompressionType"] = 30
    /\ Place["ImageDataSize"] = 34 /\ Place["HPixelsPerMeter"] = 38
    /\ Place["VPixelsPerMeter"] = 42 /\ Place["ColorsUsed"] = 46 /\ Place["ColorsRequired"] = 50
  BY DEF Place

(* Each field is in the file and no two of them meet. *)
LEMMA PlacesApart ==
    /\ \A f \in DOMAIN Place : Place[f] \in Nat /\ Place[f] + Size(f) <= HeaderLength
    /\ \A f, g \in DOMAIN Place :
         f # g => Place[f] + Size(f) <= Place[g] \/ Place[g] + Size(g) <= Place[f]
<1>1. \A f \in DOMAIN Place : Place[f] \in Nat /\ Place[f] + Size(f) <= HeaderLength
  BY Fields, Places DEF Short, HeaderLength
<1>2. ASSUME NEW f \in DOMAIN Place, NEW g \in DOMAIN Place, f # g
      PROVE  Place[f] + Size(f) <= Place[g] \/ Place[g] + Size(g) <= Place[f]
  BY Fields, Places, <1>2 DEF Short
<1> QED
  BY <1>1, <1>2

(* A byte belongs to one field. *)
LEMMA HeaderByte ==
    ASSUME NEW header \in [DOMAIN Place -> Nat], NEW f \in DOMAIN Place,
           NEW j \in 0..(Size(f) - 1)
    PROVE  /\ Place[f] + j + 1 \in 1..HeaderLength
           /\ WriteHeader(header)[Place[f] + j + 1] = Little(header[f], j)
<1> DEFINE k == Place[f] + j + 1
           InField(g) == k - 1 - Place[g] \in 0..(Size(g) - 1)
           c == CHOOSE g \in DOMAIN Place : InField(g)
<1>1. \A g \in DOMAIN Place : Size(g) \in {2, 4} /\ Place[g] \in Nat
  BY Fields, PlacesApart
<1>2. k \in 1..HeaderLength
  <2>1. Place[f] \in Nat /\ Size(f) \in Nat /\ Place[f] + Size(f) <= HeaderLength
    BY <1>1, PlacesApart
  <2> QED
    BY <2>1, SMTT(30) DEF HeaderLength
<1>3. k - 1 - Place[f] = j /\ InField(f)
  BY <1>1
<1>4. ASSUME NEW g \in DOMAIN Place, InField(g) PROVE g = f
  BY <1>1, <1>3, <1>4, PlacesApart
<1>5. c = f
  <2> HIDE DEF InField
  <2>1. c \in DOMAIN Place /\ InField(c)
    BY <1>3
  <2> QED
    BY <1>4, <2>1
<1>6. WriteHeader(header)[k] = Little(header[c], k - 1 - Place[c])
  BY <1>2 DEF WriteHeader
<1> QED
  BY <1>2, <1>3, <1>5, <1>6

(* A header that is written has 54 bytes. *)
LEMMA HeaderBytes ==
    ASSUME NEW header \in [DOMAIN Place -> Nat]
    PROVE  WriteHeader(header) \in Seq(Bytes) /\ Len(WriteHeader(header)) = HeaderLength
<1> DEFINE w == WriteHeader(header)
<1>1. w = [k \in 1..HeaderLength |-> w[k]]
  BY DEF WriteHeader
<1>2. ASSUME NEW k \in 1..HeaderLength PROVE w[k] \in Bytes
  <2> DEFINE InField(g) == k - 1 - Place[g] \in 0..(Size(g) - 1)
  <2>1. \E f \in DOMAIN Place : InField(f)
    BY Fields, Places DEF Short, HeaderLength
  <2>2. PICK f \in DOMAIN Place : InField(f)
    BY <2>1
  <2>3. k = Place[f] + (k - 1 - Place[f]) + 1 /\ header[f] \in Nat
    BY PlacesApart
  <2>4. w[k] = Little(header[f], k - 1 - Place[f])
    BY <2>2, <2>3, HeaderByte
  <2>5. k - 1 - Place[f] \in 0..3
    BY <2>2, Fields
  <2> QED
    BY <2>3, <2>4, <2>5, LittleByte
<1> HIDE DEF w
<1>3. w \in [1..HeaderLength -> Bytes] /\ HeaderLength \in Nat
  BY <1>1, <1>2 DEF HeaderLength
<1>4. w \in Seq(Bytes) /\ Len(w) = HeaderLength
  BY <1>3
<1> QED
  BY <1>4 DEF w

(* A header is read as it was written, if its numbers have room. *)
LEMMA HeaderRoundTrip ==
    ASSUME NEW header \in [DOMAIN Place -> Nat],
           \A f \in DOMAIN Place : IF f \in Short THEN Fits2(header[f]) ELSE Fits4(header[f]),
           NEW file \in Seq(Bytes), Len(file) >= HeaderLength,
           \A k \in 1..HeaderLength : file[k] = WriteHeader(header)[k]
    PROVE  ReadHeader(file) = header
<1>1. ASSUME NEW f \in DOMAIN Place PROVE ReadHeader(file)[f] = header[f]
  <2> DEFINE s == SubSeq(file, Place[f] + 1, Place[f] + Size(f))
  <2>1. Size(f) = (IF f \in Short THEN 2 ELSE 4) /\ Place[f] \in Nat
        /\ Place[f] + Size(f) <= HeaderLength /\ HeaderLength \in Nat
    BY Fields, PlacesApart DEF HeaderLength
  <2>2. s \in Seq(Bytes) /\ Len(s) = Size(f)
    BY <2>1, SMTT(30)
  <2>3. ASSUME NEW k \in 0..(Size(f) - 1) PROVE s[k + 1] = Little(header[f], k)
    <3>1. s[k + 1] = file[Place[f] + k + 1]
      BY <2>1, SMTT(30)
    <3> QED
      BY <3>1, HeaderByte
  <2> HIDE DEF s
  <2>4. FromLittle(s) = header[f]
    <3>1. CASE f \in Short
      BY <2>1, <2>2, <2>3, <3>1, TwoBytes
    <3>2. CASE f \notin Short
      BY <2>1, <2>2, <2>3, <3>2, FourBytes, SMTT(30)
    <3> QED
      BY <3>1, <3>2
  <2> QED
    BY <2>4 DEF ReadHeader, s
<1>2. ReadHeader(file) = [f \in DOMAIN Place |-> ReadHeader(file)[f]]
  BY DEF ReadHeader
<1> QED
  BY <1>1, <1>2

(* Whatever the bytes, a header of numbers is read from them. *)
LEMMA HeaderNat ==
    ASSUME NEW file \in Seq(Bytes), Len(file) >= HeaderLength
    PROVE  ReadHeader(file) \in [DOMAIN Place -> Nat]
<1>1. ASSUME NEW f \in DOMAIN Place
      PROVE  FromLittle(SubSeq(file, Place[f] + 1, Place[f] + Size(f))) \in Nat
  <2>1. Place[f] \in Nat /\ Size(f) \in {2, 4} /\ Place[f] + Size(f) <= HeaderLength
    <3>1. Size(f) \in {2, 4}
      BY Fields
    <3> QED
      BY <3>1, PlacesApart
  <2>3. Place[f] + Size(f) <= Len(file)
    BY <2>1 DEF HeaderLength
  <2>2. SubSeq(file, Place[f] + 1, Place[f] + Size(f)) \in Seq(Bytes)
    BY <2>1, <2>3
  <2> QED
    BY <2>2, FromLittleNat
<1> QED
  BY <1>1 DEF ReadHeader

----------------------------------------------------------------------------
(* The places of the pixels of an image of 32 bits *)

Grid(w, h) == (0..(w - 1)) \X (0..(h - 1))

Row(w) == 4 * w

Spot(w, h, p) == (h - p[2] - 1) * Row(w) + p[1] * 4

(* The pixels of a picture, by column and row. *)
LEMMA GridIs ==
    ASSUME NEW w \in Nat \ {0}, NEW h \in Nat \ {0}, NEW p \in Grid(w, h)
    PROVE  p[1] \in Nat /\ p[2] \in Nat /\ p[1] < w /\ p[2] < h /\ p = <<p[1], p[2]>>
  BY DEF Grid

(* A row of 32-bit pixels needs no padding. *)
LEMMA RowNat == ASSUME NEW w \in Nat \ {0} PROVE Row(w) \in Nat \ {0} /\ Row(w) = 4 * w
  BY DEF Row

(* A pixel is inside the data, *)
LEMMA SpotInside ==
    ASSUME NEW w \in Nat \ {0}, NEW h \in Nat \ {0}, NEW p \in Grid(w, h)
    PROVE  Spot(w, h, p) \in Nat /\ Spot(w, h, p) + 4 <= h * Row(w)
<1> DEFINE c == Row(w)  r == h - p[2] - 1
<1>1. c \in Nat /\ c = 4 * w /\ r \in Nat /\ r + 1 <= h
  BY RowNat, GridIs
<1>2. p[1] * 4 \in Nat /\ p[1] * 4 + 4 <= c
  BY <1>1, GridIs
<1> HIDE DEF c, r
<1>3. (r + 1) * c <= h * c /\ 0 * c <= r * c
  BY <1>1, ProductGrows
<1>4. (r + 1) * c = r * c + c /\ r * c \in Int /\ h * c \in Int /\ 0 * c = 0
  BY <1>1
<1>5. r * c + p[1] * 4 \in Nat /\ r * c + p[1] * 4 + 4 <= h * c
  BY <1>1, <1>2, <1>3, <1>4
<1> QED
  BY <1>5 DEF Spot, c, r

(* no two of them meet, *)
LEMMA SpotsApart ==
    ASSUME NEW w \in Nat \ {0}, NEW h \in Nat \ {0}, NEW p \in Grid(w, h), NEW q \in Grid(w, h),
           p # q
    PROVE  Spot(w, h, p) + 4 <= Spot(w, h, q) \/ Spot(w, h, q) + 4 <= Spot(w, h, p)
<1> DEFINE c == Row(w)  r(z) == h - z[2] - 1
<1>1. /\ c \in Nat /\ c = 4 * w /\ r(p) \in Nat /\ r(q) \in Nat
      /\ p[1] \in Nat /\ q[1] \in Nat /\ p[1] < w /\ q[1] < w
  BY RowNat, GridIs
<1>2. Spot(w, h, p) = r(p) * c + p[1] * 4 /\ Spot(w, h, q) = r(q) * c + q[1] * 4
  BY DEF Spot
<1>3. r(p) # r(q) \/ p[1] # q[1]
  BY GridIs
<1> HIDE DEF c, r
<1>4. r(p) * c \in Int /\ r(q) * c \in Int
  BY <1>1
<1>5. CASE r(p) = r(q)
  <2>1. r(p) * c = r(q) * c
    BY <1>5
  <2>2. p[1] + 1 <= q[1] \/ q[1] + 1 <= p[1]
    BY <1>1, <1>3, <1>5
  <2> QED
    BY <1>1, <1>2, <1>4, <2>1, <2>2
<1>6. ASSUME NEW a, NEW b, a \in Nat, b \in Nat, a < b PROVE a * c + c <= b * c
  <2>1. (a + 1) * c <= b * c
    BY <1>1, <1>6, ProductGrows
  <2>2. (a + 1) * c = a * c + c
    BY <1>1, <1>6
  <2> QED
    BY <2>1, <2>2
<1>7. CASE r(p) < r(q)
  <2>1. r(p) * c + c <= r(q) * c
    BY <1>1, <1>6, <1>7
  <2> QED
    BY <1>1, <1>2, <1>4, <2>1
<1>8. CASE r(q) < r(p)
  <2>1. r(q) * c + c <= r(p) * c
    BY <1>1, <1>6, <1>8
  <2> QED
    BY <1>1, <1>2, <1>4, <2>1
<1>9. r(p) = r(q) \/ r(p) < r(q) \/ r(q) < r(p)
  BY <1>1
<1> QED
  BY <1>5, <1>7, <1>8, <1>9

(* and every byte belongs to one. *)
LEMMA SpotsCover ==
    ASSUME NEW w \in Nat \ {0}, NEW h \in Nat \ {0}, NEW d \in 1..(h * Row(w))
    PROVE  \E p \in Grid(w, h), j \in 1..4 : d = Spot(w, h, p) + j
<1> DEFINE c == Row(w)  e == d - 1  r == e \div c  m == e - r * c
<1>1. c \in Nat \ {0} /\ c = 4 * w /\ h * c \in Nat
  BY RowNat
<1>2. e \in Nat /\ e < h * c
  BY <1>1
<1> HIDE DEF c, e
<1>3. r \in Nat /\ r * c <= e /\ e < (r + 1) * c
  BY <1>1, <1>2
<1> HIDE DEF r
<1>4. (r + 1) * c = r * c + c /\ r * c \in Int
  BY <1>1, <1>3
<1>5. r < h
  <2> SUFFICES ASSUME h <= r PROVE FALSE
    BY <1>3
  <2>1. h * c <= r * c
    BY <1>1, <1>3, ProductGrows
  <2> QED
    BY <1>1, <1>2, <1>3, <1>4, <2>1
<1>6. m \in Nat /\ m < 4 * w /\ e = r * c + m
  BY <1>1, <1>2, <1>3, <1>4
<1> HIDE DEF m
<1>7. PICK k \in Nat, j \in 1..4 : m = 4 * k + j - 1
  <2>1. m \div 4 \in Nat /\ (m % 4) + 1 \in 1..4 /\ m = 4 * (m \div 4) + ((m % 4) + 1) - 1
    BY <1>6
  <2> QED
    BY <2>1
<1> DEFINE p == <<k, h - r - 1>>
<1>8. p \in Grid(w, h)
  BY <1>3, <1>5, <1>6, <1>7 DEF Grid
<1>9. h - p[2] - 1 = r /\ p[1] = k
  BY <1>3
<1> HIDE DEF p
<1>10. Spot(w, h, p) = r * c + k * 4
  BY <1>9 DEF Spot, c
<1>11. d = r * c + (4 * k + j - 1) + 1 /\ d \in Int
  BY <1>6, <1>7 DEF e
<1>12. d = Spot(w, h, p) + j
  BY <1>4, <1>7, <1>10, <1>11
<1> QED
  BY <1>8, <1>12

----------------------------------------------------------------------------
(* An image that BMP_Create has made, and what has been painted on it. *)

Fits(w, h) ==
    /\ w \in Nat \ {0} /\ h \in Nat \ {0}
    /\ (HeaderLength + PaletteSize + 4 * w * h) \div Weight[4] < 128

(* The bytes of a pixel: blue, green, red and none. *)
ByteOf(colour, j) == IF j = 4 THEN 0 ELSE colour[4 - j]

Canvas(bmp, w, h, pixels) ==
    /\ bmp = [Header |-> NewHeader(w, h, 32), Palette |-> NULL, Data |-> bmp.Data]
    /\ bmp.Data \in Seq(Bytes) /\ Len(bmp.Data) = h * Row(w)
    /\ pixels \in [Grid(w, h) -> Colours]
    /\ \A p \in Grid(w, h), j \in 1..4 : bmp.Data[Spot(w, h, p) + j] = ByteOf(pixels[p], j)

Depths == {8, 24, 32}

(* The bytes of a pixel, of a row of pixels and of what is before them. *)
Width(d) == d \div 8
Stride(w, d) == BytesPerRow(w, d)
Start(d) == HeaderLength + (IF d = 8 THEN PaletteSize ELSE 0)

(* The zeros after n bytes of pixels. *)
Padding(n) == (4 - (n % 4)) % 4

(* A row is its pixels and less than four bytes, and no longer than one of *)
(* 32 bits.                                                                *)
LEMMA StrideIs ==
    ASSUME NEW w \in Nat \ {0}, NEW d \in Depths
    PROVE  /\ Width(d) \in Nat /\ 1 <= Width(d) /\ Width(d) <= 4
           /\ w * Width(d) \in Nat /\ Padding(w * Width(d)) \in Nat /\ Stride(w, d) \in Nat
           /\ Stride(w, d) = w * Width(d) + Padding(w * Width(d))
           /\ Stride(w, d) <= 4 * w
<1>1. Width(8) = 1 /\ Width(24) = 3 /\ Width(32) = 4
  BY DEF Width
<1>2. Width(d) \in 1..4 /\ Width(d) # 2
  BY <1>1 DEF Depths
<1> DEFINE b == Width(d)  n == w * b
<1>3. Stride(w, d) = n + (IF n % 4 # 0 THEN 4 - (n % 4) ELSE 0)
  BY DEF Stride, BytesPerRow, Width
<1>4. n \in Nat
  BY <1>2
<1>5. n % 4 \in 0..3 /\ n = 4 * (n \div 4) + (n % 4) /\ n \div 4 \in Nat
  <2> HIDE DEF n
  <2> QED
    BY <1>4
<1>6. (4 - (n % 4)) % 4 = (IF n % 4 # 0 THEN 4 - (n % 4) ELSE 0)
  <2> DEFINE r == n % 4
  <2>1. r = 0 \/ r = 1 \/ r = 2 \/ r = 3
    BY <1>5
  <2> HIDE DEF r
  <2>2. (4 - r) % 4 = (IF r # 0 THEN 4 - r ELSE 0)
    BY <2>1
  <2> QED
    BY <2>2 DEF r
<1>7. n + ((4 - (n % 4)) % 4) <= 4 * w
  <2>1. n = w \/ n = 3 * w \/ n = 4 * w
    BY <1>2
  <2> DEFINE r == n % 4  q == n \div 4
  <2>2. r \in 0..3 /\ q \in Nat /\ n = 4 * q + r
    <3> HIDE DEF n
    <3> QED
      BY <1>5
  <2>3. (4 - (n % 4)) % 4 = (IF r # 0 THEN 4 - r ELSE 0)
    BY <1>6
  <2> HIDE DEF n, r, q
  <2> QED
    BY <1>4, <2>1, <2>2, <2>3
<1> HIDE DEF n
<1>8. Stride(w, d) = n + ((4 - (n % 4)) % 4)
  BY <1>3, <1>6
<1>9. (4 - (n % 4)) % 4 \in Nat
  BY <1>4
<1> QED
  <2>1. Padding(n) = (4 - (n % 4)) % 4
    BY DEF Padding
  <2>2. Width(d) \in Nat /\ 1 <= Width(d) /\ Width(d) <= 4
    BY <1>2
  <2>3. Padding(n) \in Nat /\ Stride(w, d) = n + Padding(n)
    BY <1>8, <1>9, <2>1
  <2>4. Stride(w, d) \in Nat /\ Stride(w, d) <= 4 * w
    BY <1>4, <1>7, <1>8, <1>9
  <2> QED
    BY <1>4, <2>2, <2>3, <2>4 DEF n

(* The header of an image of any depth. *)
LEMMA NewHeaderOf ==
    ASSUME NEW w \in Nat \ {0}, NEW h \in Nat \ {0}, NEW d \in Depths
    PROVE  LET header == NewHeader(w, h, d) IN
           /\ header = [f \in DOMAIN Place |-> header[f]]
           /\ header["Magic"] = 19778 /\ header["HeaderSize"] = 40 /\ header["Planes"] = 1
           /\ header["Width"] = w /\ header["Height"] = h /\ header["BitsPerPixel"] = d
           /\ header["ImageDataSize"] = h * Stride(w, d)
           /\ header["FileSize"] = Start(d) + h * Stride(w, d)
           /\ header["DataOffset"] = Start(d)
           /\ \A f \in {"Reserved1", "Reserved2", "CompressionType", "HPixelsPerMeter",
                        "VPixelsPerMeter", "ColorsUsed", "ColorsRequired"} : header[f] = 0
<1> DEFINE start == HeaderLength + (IF d = 8 THEN PaletteSize ELSE 0)
           data  == BytesPerRow(w, d) * h
           known == [Magic |-> 19778, HeaderSize |-> 40, Planes |-> 1, Width |-> w, Height |-> h,
                     BitsPerPixel |-> d, ImageDataSize |-> data,
                     FileSize |-> start + data, DataOffset |-> start]
           header == NewHeader(w, h, d)
<1>1. start = Start(d) /\ data = h * Stride(w, d)
  <2>1. Stride(w, d) \in Nat
    BY StrideIs
  <2>2. BytesPerRow(w, d) * h = h * BytesPerRow(w, d)
    BY <2>1 DEF Stride
  <2> QED
    BY <2>2 DEF Start, Stride
<1>2. header = [f \in DOMAIN Place |-> IF f \in DOMAIN known THEN known[f] ELSE 0]
  BY DEF NewHeader
<1> HIDE DEF start, data, header
<1>3. \A f \in DOMAIN Place : header[f] = IF f \in DOMAIN known THEN known[f] ELSE 0
  <2> HIDE DEF known
  <2> QED
    BY <1>2
<1>4. header = [f \in DOMAIN Place |-> header[f]]
  <2> HIDE DEF known
  <2> QED
    BY <1>2
<1>5. /\ header["Magic"] = 19778 /\ header["HeaderSize"] = 40 /\ header["Planes"] = 1
      /\ header["Width"] = w /\ header["Height"] = h /\ header["BitsPerPixel"] = d
      /\ header["ImageDataSize"] = data
      /\ header["FileSize"] = start + data
      /\ header["DataOffset"] = start
      /\ \A f \in {"Reserved1", "Reserved2", "CompressionType", "HPixelsPerMeter",
                   "VPixelsPerMeter", "ColorsUsed", "ColorsRequired"} : header[f] = 0
  BY <1>3, Fields
<1> QED
  BY <1>1, <1>4, <1>5 DEF header

(* Its numbers have room. *)
LEMMA HeaderFitsOf ==
    ASSUME NEW w, NEW h, Fits(w, h), NEW d \in Depths, d = 8 => PaletteSize <= 1024
    PROVE  LET header == NewHeader(w, h, d)  n == h * Stride(w, d) IN
           /\ header \in [DOMAIN Place -> Nat]
           /\ \A f \in DOMAIN Place : IF f \in Short THEN Fits2(header[f]) ELSE Fits4(header[f])
           /\ n \in Nat /\ Start(d) \in Nat /\ HeaderLength <= Start(d)
           /\ Start(d) + n \in Nat
<1> DEFINE header == NewHeader(w, h, d)  n == h * Stride(w, d)  start == Start(d)
           top == start + n  big == HeaderLength + PaletteSize + 4 * w * h
<1>1. w \in Nat \ {0} /\ h \in Nat \ {0} /\ HeaderLength = 54 /\ PaletteSize \in Nat
  BY BitMapAssumption DEF Fits, HeaderLength
<1>2. Stride(w, d) \in Nat /\ Stride(w, d) <= 4 * w
  BY <1>1, StrideIs
<1>3. n \in Nat /\ n <= 4 * w * h
  <2>1. h * Stride(w, d) <= h * (4 * w)
    BY <1>1, <1>2, ProductGrows
  <2>2. h * (4 * w) = 4 * w * h
    BY <1>1
  <2> QED
    BY <1>1, <1>2, <2>1, <2>2
<1>4. start \in Nat /\ 54 <= start /\ start <= 54 + PaletteSize
  BY <1>1 DEF Start
<1>5. big \in Nat /\ big \div (256 * 256 * 256) < 128
  BY <1>1 DEF Fits, Weight
<1>6. top \in Nat /\ top <= big
  BY <1>1, <1>3, <1>4
<1>7. w <= big /\ h <= big
  <2>1. 1 * w <= h * w /\ 1 * h <= w * h
    BY <1>1, ProductGrows
  <2>2. w * h \in Nat /\ h * w = w * h /\ 4 * w * h = 4 * (w * h)
    BY <1>1
  <2> QED
    BY <1>1, <2>1, <2>2
<1>a. n <= top /\ start <= top
  BY <1>3, <1>4
<1> HIDE DEF n, start, top, big
<1>8. ASSUME NEW m \in Nat, m <= big PROVE Fits4(m)
  <2>1. big < 128 * (256 * 256 * 256)
    BY <1>5
  <2>2. m < 128 * (256 * 256 * 256)
    BY <1>5, <1>8, <2>1
  <2>3. m \div (256 * 256 * 256) < 128
    BY <2>2
  <2> QED
    BY <2>3 DEF Fits4, Weight
<1>9. Fits4(w) /\ Fits4(h) /\ Fits4(n) /\ Fits4(top) /\ Fits4(start)
  <2>1. w <= big /\ h <= big /\ n <= big /\ start <= big
    BY <1>1, <1>3, <1>4, <1>5, <1>6, <1>7, <1>a
  <2> QED
    BY <1>1, <1>3, <1>4, <1>6, <1>8, <2>1
<1>10. Fits4(0) /\ Fits4(40) /\ Fits2(0) /\ Fits2(1) /\ Fits2(d) /\ Fits2(19778)
  BY DEF Fits4, Fits2, Weight, Depths
<1>11. /\ header = [f \in DOMAIN Place |-> header[f]]
       /\ header["Magic"] = 19778 /\ header["HeaderSize"] = 40 /\ header["Planes"] = 1
       /\ header["Width"] = w /\ header["Height"] = h /\ header["BitsPerPixel"] = d
       /\ header["ImageDataSize"] = n /\ header["FileSize"] = top /\ header["DataOffset"] = start
       /\ \A f \in {"Reserved1", "Reserved2", "CompressionType", "HPixelsPerMeter",
                    "VPixelsPerMeter", "ColorsUsed", "ColorsRequired"} : header[f] = 0
  BY <1>1, NewHeaderOf DEF n, top, start
<1> HIDE DEF header
<1>12. \A f \in DOMAIN Place : IF f \in Short THEN Fits2(header[f]) ELSE Fits4(header[f])
  BY <1>9, <1>10, <1>11, Fields DEF Short
<1>13. \A f \in DOMAIN Place : header[f] \in Nat
  BY <1>12 DEF Fits2, Fits4
<1>14. header \in [DOMAIN Place -> Nat]
  BY <1>11, <1>13
<1> QED
  BY <1>1, <1>3, <1>4, <1>6, <1>12, <1>14 DEF header, n, start, top

(* These of 32 bits. *)
LEMMA Of32 ==
    ASSUME NEW w \in Nat \ {0}
    PROVE  32 \in Depths /\ Stride(w, 32) = Row(w) /\ Start(32) = HeaderLength /\ Width(32) = 4
<1>1. BytesPerRow(w, 32) = 4 * w
  BY DEF BytesPerRow
<1> QED
  BY <1>1 DEF Depths, Stride, Row, Start, HeaderLength, Width

(* The header of an image of 32 bits. *)
LEMMA NewHeaderIs ==
    ASSUME NEW w \in Nat \ {0}, NEW h \in Nat \ {0}
    PROVE  LET header == NewHeader(w, h, 32) IN
           /\ header = [f \in DOMAIN Place |-> header[f]]
           /\ header["Magic"] = 19778 /\ header["HeaderSize"] = 40 /\ header["Planes"] = 1
           /\ header["Width"] = w /\ header["Height"] = h /\ header["BitsPerPixel"] = 32
           /\ header["ImageDataSize"] = h * Row(w)
           /\ header["FileSize"] = HeaderLength + h * Row(w)
           /\ header["DataOffset"] = HeaderLength
           /\ \A f \in {"Reserved1", "Reserved2", "CompressionType", "HPixelsPerMeter",
                        "VPixelsPerMeter", "ColorsUsed", "ColorsRequired"} : header[f] = 0
<1>1. 32 \in Depths /\ Stride(w, 32) = Row(w) /\ Start(32) = HeaderLength
  BY Of32
<1> HIDE DEF Depths
<1> QED
  BY <1>1, NewHeaderOf

(* A colour has three bytes, and ByteOf names them. *)
LEMMA ColoursAre ==
    /\ \A colour \in Colours : colour = <<colour[1], colour[2], colour[3]>>
    /\ \A colour \in Colours, j \in 1..4 : ByteOf(colour, j) \in Bytes
    /\ \A colour \in Colours : /\ ByteOf(colour, 1) = colour[3] /\ ByteOf(colour, 2) = colour[2]
                               /\ ByteOf(colour, 3) = colour[1] /\ ByteOf(colour, 4) = 0
<1>1. Colours = Bytes \X Bytes \X Bytes
  BY ProgramsAssumption
<1>2. \A colour \in Colours : /\ colour = <<colour[1], colour[2], colour[3]>>
                              /\ colour[1] \in Bytes /\ colour[2] \in Bytes /\ colour[3] \in Bytes
  BY <1>1
<1>3. \A colour \in Colours : /\ ByteOf(colour, 1) = colour[3] /\ ByteOf(colour, 2) = colour[2]
                              /\ ByteOf(colour, 3) = colour[1] /\ ByteOf(colour, 4) = 0
  BY DEF ByteOf
<1>4. 0 \in Bytes /\ \A j \in 1..4 : j = 1 \/ j = 2 \/ j = 3 \/ j = 4
  BY DEF Bytes
<1>5. \A colour \in Colours, j \in 1..4 : ByteOf(colour, j) \in Bytes
  BY <1>2, <1>3, <1>4
<1> QED
  BY <1>2, <1>3, <1>5

(* NULL is neither a file nor an image. *)
LEMMA NullIsNot == NULL \notin Seq(Bytes) /\ NULL \notin Bitmaps
  BY NullAssumption

(* Where the library looks for a pixel of such an image. *)
LEMMA CanvasIs ==
    ASSUME NEW w \in Nat \ {0}, NEW h \in Nat \ {0}, NEW bmp, NEW pixels,
           Canvas(bmp, w, h, pixels)
    PROVE  /\ bmp \in Bitmaps /\ bmp # NULL
           /\ bmp.Header = NewHeader(w, h, 32) /\ bmp.Palette = NULL
           /\ BMP_GetWidth(bmp) = w /\ BMP_GetHeight(bmp) = h
           /\ bmp.Header.BitsPerPixel = 32
           /\ Len(bmp.Data) = bmp.Header.ImageDataSize
           /\ \A p \in Grid(w, h) : /\ ~Outside(bmp, p[1], p[2])
                                    /\ At(bmp, p[1], p[2]) = Spot(w, h, p)
<1>1. /\ bmp = [Header |-> NewHeader(w, h, 32), Palette |-> NULL, Data |-> bmp.Data]
      /\ bmp.Data \in Seq(Bytes) /\ Len(bmp.Data) = h * Row(w)
  BY DEF Canvas
<1>2. bmp.Header = NewHeader(w, h, 32) /\ bmp.Palette = NULL
  BY <1>1
<1>3. NewHeader(w, h, 32) \in [DOMAIN Place -> Nat]
  <2>1. h * Row(w) \in Nat /\ HeaderLength + h * Row(w) \in Nat /\ HeaderLength \in Nat
    <3>1. h * Row(w) \in Nat
      BY RowNat
    <3> QED
      BY <3>1 DEF HeaderLength
  <2>2. \A f \in DOMAIN Place : NewHeader(w, h, 32)[f] \in Nat
    BY <2>1, NewHeaderIs, Fields
  <2> QED
    BY <2>2, NewHeaderIs
<1>4. bmp \in Bitmaps
  BY <1>1, <1>3 DEF Bitmaps
<1>5. bmp # NULL
  BY <1>4, NullIsNot
<1>6. /\ bmp.Header.Width = w /\ bmp.Header.Height = h /\ bmp.Header.BitsPerPixel = 32
      /\ bmp.Header.ImageDataSize = h * Row(w)
  BY <1>2, NewHeaderIs
<1>7. (h * Row(w)) \div h = Row(w)
  <2>1. Row(w) \in Nat
    BY RowNat
  <2>2. ASSUME NEW c \in Nat PROVE (h * c) \div h = c
    <3>1. h * c \in Nat /\ h * c = c * h + 0
      OBVIOUS
    <3> QED
      BY <3>1
  <2> QED
    BY <2>1, <2>2
<1>8. ASSUME NEW p \in Grid(w, h)
      PROVE  ~Outside(bmp, p[1], p[2]) /\ At(bmp, p[1], p[2]) = Spot(w, h, p)
  <2>1. p[1] \in Nat /\ p[2] \in Nat /\ p[1] < w /\ p[2] < h
    BY GridIs
  <2>2. 32 \div 8 = 4
    OBVIOUS
  <2>3. At(bmp, p[1], p[2]) = (h - p[2] - 1) * Row(w) + p[1] * 4
    BY <1>6, <1>7, <2>2 DEF At
  <2> QED
    BY <1>5, <1>6, <2>1, <2>3 DEF Outside, Spot
<1> QED
  BY <1>1, <1>2, <1>4, <1>5, <1>6, <1>8 DEF BMP_GetWidth, BMP_GetHeight

(* A new image is black all over. *)
LEMMA BlankCanvas ==
    ASSUME NEW w \in Nat \ {0}, NEW h \in Nat \ {0}, NEW memory,
           BMP_Create(w, h, 32, memory).status = "BMP_OK"
    PROVE  Canvas(BMP_Create(w, h, 32, memory).bmp, w, h, [p \in Grid(w, h) |-> Black])
<1> DEFINE header == NewHeader(w, h, 32)
           bmp == [Header |-> header, Palette |-> NULL, Data |-> Zeros(header.ImageDataSize)]
<1>1. BMP_Create(w, h, 32, memory).bmp = bmp
  BY DEF BMP_Create, Failed, Done
<1>2. header.ImageDataSize = h * Row(w)
  BY NewHeaderIs
<1>3. h * Row(w) \in Nat
  BY RowNat
<1>4. bmp.Data = Zeros(h * Row(w))
  BY <1>2
<1>5. bmp.Data \in Seq(Bytes) /\ Len(bmp.Data) = h * Row(w)
      /\ \A k \in 1..(h * Row(w)) : bmp.Data[k] = 0
  <2>1. ASSUME NEW n \in Nat
        PROVE  /\ Zeros(n) \in Seq(Bytes) /\ Len(Zeros(n)) = n
               /\ \A k \in 1..n : Zeros(n)[k] = 0
    <3>1. 0 \in Bytes
      BY DEF Bytes
    <3> QED
      BY <3>1 DEF Zeros
  <2> HIDE DEF bmp
  <2> QED
    BY <1>3, <1>4, <2>1
<1>6. Black \in Colours /\ \A j \in 1..4 : ByteOf(Black, j) = 0
  <2>1. Black \in Colours /\ Black = <<0, 0, 0>>
    BY BlurAssumption, ProgramsAssumption
  <2>2. ASSUME NEW j \in 1..4 PROVE ByteOf(Black, j) = 0
    <3>1. j = 1 \/ j = 2 \/ j = 3 \/ j = 4
      OBVIOUS
    <3> QED
      BY <2>1, <3>1 DEF ByteOf
  <2> QED
    BY <2>1, <2>2
<1> DEFINE black == [p \in Grid(w, h) |-> Black]
<1>7. black \in [Grid(w, h) -> Colours] /\ \A p \in Grid(w, h) : black[p] = Black
  BY <1>6
<1>8. ASSUME NEW p \in Grid(w, h), NEW j \in 1..4
      PROVE  bmp.Data[Spot(w, h, p) + j] = ByteOf(black[p], j)
  <2>1. Spot(w, h, p) + j \in 1..(h * Row(w))
    BY <1>3, SpotInside
  <2> QED
    BY <1>5, <1>6, <1>7, <2>1
<1>9. bmp = [Header |-> header, Palette |-> NULL, Data |-> bmp.Data]
  OBVIOUS
<1> HIDE DEF bmp, black
<1>10. Canvas(bmp, w, h, black)
  BY <1>5, <1>7, <1>8, <1>9 DEF Canvas
<1> QED
  BY <1>1, <1>10 DEF black

ThreeSet(d, at, r, g, b) == [d EXCEPT ![at + 3] = r, ![at + 2] = g, ![at + 1] = b]

Differs(data, d, at, r, g, b) ==
    /\ data \in Seq(Bytes) /\ Len(data) = Len(d)
    /\ data[at + 1] = b /\ data[at + 2] = g /\ data[at + 3] = r
    /\ \A k \in 1..Len(d) : k <= at \/ k >= at + 4 => data[k] = d[k]

(* Setting three bytes changes these three. *)
LEMMA ThreeAreSet ==
    ASSUME NEW d \in Seq(Bytes), NEW at \in Nat, at + 4 <= Len(d),
           NEW r \in Bytes, NEW g \in Bytes, NEW b \in Bytes
    PROVE  Differs(ThreeSet(d, at, r, g, b), d, at, r, g, b)
<1> DEFINE data == ThreeSet(d, at, r, g, b)
<1>1. DOMAIN d = 1..Len(d) /\ at + 1 \in 1..Len(d) /\ at + 2 \in 1..Len(d) /\ at + 3 \in 1..Len(d)
  OBVIOUS
<1>2. data = [k \in 1..Len(d) |-> IF k = at + 1 THEN b ELSE IF k = at + 2 THEN g
                                 ELSE IF k = at + 3 THEN r ELSE d[k]]
  BY <1>1 DEF ThreeSet
<1> HIDE DEF data
<1>3. \A k \in 1..Len(d) : d[k] \in Bytes
  OBVIOUS
<1>4. data \in [1..Len(d) -> Bytes]
  BY <1>2, <1>3
<1>5. data \in Seq(Bytes) /\ Len(data) = Len(d)
  BY <1>4
<1>6. data[at + 1] = b /\ data[at + 2] = g /\ data[at + 3] = r
  BY <1>1, <1>2
<1>7. \A k \in 1..Len(d) : k <= at \/ k >= at + 4 => data[k] = d[k]
  BY <1>2
<1> QED
  BY <1>5, <1>6, <1>7 DEF data, Differs

(* Setting a pixel paints this pixel and no other. *)
LEMMA PixelSet ==
    ASSUME NEW w \in Nat \ {0}, NEW h \in Nat \ {0}, NEW bmp, NEW pixels,
           Canvas(bmp, w, h, pixels), NEW p \in Grid(w, h), NEW colour \in Colours
    PROVE  Canvas(BMP_SetPixelRGB(bmp, p[1], p[2], colour), w, h, [pixels EXCEPT ![p] = colour])
<1> DEFINE at == Spot(w, h, p)  size == h * Row(w)
           data == [bmp.Data EXCEPT ![at + 3] = colour[1],
                                    ![at + 2] = colour[2],
                                    ![at + 1] = colour[3]]
           new == [Header |-> bmp.Header, Palette |-> bmp.Palette, Data |-> data]
           after == [pixels EXCEPT ![p] = colour]
<1>1. /\ ~Outside(bmp, p[1], p[2]) /\ At(bmp, p[1], p[2]) = at
      /\ bmp.Header.BitsPerPixel = 32
      /\ bmp.Header = NewHeader(w, h, 32) /\ bmp.Palette = NULL
  BY CanvasIs
<1>2. /\ bmp = [Header |-> bmp.Header, Palette |-> bmp.Palette, Data |-> bmp.Data]
      /\ bmp.Data \in Seq(Bytes) /\ Len(bmp.Data) = size
      /\ pixels \in [Grid(w, h) -> Colours]
      /\ \A q \in Grid(w, h), j \in 1..4 : bmp.Data[Spot(w, h, q) + j] = ByteOf(pixels[q], j)
  BY <1>1 DEF Canvas
<1>3. BMP_SetPixelRGB(bmp, p[1], p[2], colour) = [bmp EXCEPT !.Data = data]
  <2> HIDE DEF at
  <2> QED
    BY <1>1 DEF BMP_SetPixelRGB
<1>4. [bmp EXCEPT !.Data = data] = new
  <2> HIDE DEF data
  <2> QED
    BY <1>2
<1>5. at \in Nat /\ at + 4 <= size /\ size \in Nat
  BY SpotInside, RowNat, SMTT(30)
<1>6. colour[1] \in Bytes /\ colour[2] \in Bytes /\ colour[3] \in Bytes
  BY ProgramsAssumption
<1> HIDE DEF at, size
<1>7. /\ data \in Seq(Bytes) /\ Len(data) = size
      /\ data[at + 1] = colour[3] /\ data[at + 2] = colour[2] /\ data[at + 3] = colour[1]
      /\ \A k \in 1..size : k <= at \/ k >= at + 4 => data[k] = bmp.Data[k]
  <2> DEFINE d == bmp.Data  r == colour[1]  g == colour[2]  b == colour[3]
  <2>1. data = ThreeSet(d, at, r, g, b)
    BY DEF ThreeSet
  <2>2. d \in Seq(Bytes) /\ Len(d) = size /\ r \in Bytes /\ g \in Bytes /\ b \in Bytes
    BY <1>2, <1>6
  <2> HIDE DEF data, d, r, g, b
  <2>3. /\ data \in Seq(Bytes) /\ Len(data) = Len(d)
        /\ data[at + 1] = b /\ data[at + 2] = g /\ data[at + 3] = r
        /\ \A k \in 1..Len(d) : k <= at \/ k >= at + 4 => data[k] = d[k]
    <3>1. at \in Nat /\ at + 4 <= Len(d)
      BY <1>5, <2>2
    <3>2. Differs(ThreeSet(d, at, r, g, b), d, at, r, g, b)
      BY <2>2, <3>1, ThreeAreSet, Zenon
    <3> QED
      BY <2>1, <3>2 DEF Differs
  <2> QED
    BY <2>2, <2>3 DEF d, r, g, b
<1>8. data[at + 4] = bmp.Data[at + 4]
  <2>1. at + 4 \in 1..size
    BY <1>5
  <2> QED
    BY <1>5, <1>7, <2>1
<1>9. after \in [Grid(w, h) -> Colours] /\ after[p] = colour
      /\ \A q \in Grid(w, h) : q # p => after[q] = pixels[q]
  BY <1>2
<1> HIDE DEF data, after
<1>10. ASSUME NEW q \in Grid(w, h), NEW j \in 1..4
       PROVE  data[Spot(w, h, q) + j] = ByteOf(after[q], j)
  <2>1. CASE q = p
    <3>1. j = 1 \/ j = 2 \/ j = 3 \/ j = 4
      OBVIOUS
    <3>2. bmp.Data[at + 4] = ByteOf(pixels[p], 4)
      BY <1>2 DEF at
    <3>3. ByteOf(pixels[p], 4) = 0 /\ ByteOf(after[p], 4) = 0
      BY DEF ByteOf
    <3> QED
      BY <1>7, <1>8, <1>9, <2>1, <3>1, <3>2, <3>3, ColoursAre DEF at
  <2>2. CASE q # p
    <3>1. Spot(w, h, q) + 4 <= at \/ at + 4 <= Spot(w, h, q)
      BY <2>2, SpotsApart DEF at
    <3>2. Spot(w, h, q) \in Nat /\ Spot(w, h, q) + 4 <= size
      BY SpotInside DEF size
    <3>3. data[Spot(w, h, q) + j] = bmp.Data[Spot(w, h, q) + j]
      BY <1>5, <1>7, <3>1, <3>2, SMTT(30)
    <3> QED
      BY <1>2, <1>9, <2>2, <3>3
  <2> QED
    BY <2>1, <2>2
<1>11. Canvas(new, w, h, after)
  BY <1>1, <1>7, <1>9, <1>10 DEF Canvas, size
<1> QED
  BY <1>3, <1>4, <1>11 DEF after

(* get_pixel finds what was painted. *)
LEMMA PixelGot ==
    ASSUME NEW w \in Nat \ {0}, NEW h \in Nat \ {0}, NEW bmp, NEW pixels,
           Canvas(bmp, w, h, pixels), NEW p \in Grid(w, h), NEW before
    PROVE  BMP_GetPixelRGB(bmp, p[1], p[2], before) = pixels[p]
<1> DEFINE at == Spot(w, h, p)
<1>1. /\ ~Outside(bmp, p[1], p[2]) /\ At(bmp, p[1], p[2]) = at
      /\ bmp.Header.BitsPerPixel = 32
  BY CanvasIs
<1>2. BMP_GetPixelRGB(bmp, p[1], p[2], before)
        = <<bmp.Data[at + 3], bmp.Data[at + 2], bmp.Data[at + 1]>>
  <2> HIDE DEF at
  <2> QED
    BY <1>1 DEF BMP_GetPixelRGB
<1>3. pixels[p] \in Colours /\ \A j \in 1..4 : bmp.Data[at + j] = ByteOf(pixels[p], j)
  BY DEF Canvas
<1> QED
  BY <1>2, <1>3, ColoursAre

PictureOf(w, h, pixels) == [width |-> w, height |-> h, pixels |-> pixels]

(* So the image shows the picture that was painted. *)
LEMMA CanvasPicture ==
    ASSUME NEW w \in Nat \ {0}, NEW h \in Nat \ {0}, NEW bmp, NEW pixels,
           Canvas(bmp, w, h, pixels)
    PROVE  Picture(bmp) = PictureOf(w, h, pixels)
<1> DEFINE px == [p \in Grid(w, h) |-> BMP_GetPixelRGB(bmp, p[1], p[2], NULL)]
<1>1. BMP_GetWidth(bmp) = w /\ BMP_GetHeight(bmp) = h
  BY CanvasIs
<1>2. Picture(bmp) = [width |-> w, height |-> h, pixels |-> px]
  BY <1>1 DEF Picture, Grid
<1>3. \A p \in Grid(w, h) : BMP_GetPixelRGB(bmp, p[1], p[2], NULL) = pixels[p]
  BY PixelGot
<1>4. pixels \in [Grid(w, h) -> Colours]
  BY DEF Canvas
<1>5. px = pixels
  BY <1>3, <1>4
<1> QED
  BY <1>2, <1>5 DEF PictureOf

----------------------------------------------------------------------------
(* Files *)

(* What BMP_ReadFile asks of a file. *)
IsWhole(file) ==
    LET header == ReadHeader(file) IN
    /\ file # NULL
    /\ Len(file) >= HeaderLength
    /\ header.Magic = 19778
    /\ header.BitsPerPixel \in {8, 24, 32} /\ header.CompressionType = 0 /\ header.HeaderSize = 40
    /\ Len(file) >= HeaderLength + PaletteLength(header)
    /\ Len(file) >= DataEnd(header)

Loaded(file) ==
    LET header == ReadHeader(file)
        start  == HeaderLength + PaletteLength(header)
    IN  [Header  |-> header,
         Palette |-> IF header.BitsPerPixel = 8 THEN SubSeq(file, HeaderLength + 1, start) ELSE NULL,
         Data    |-> SubSeq(file, start + 1, DataEnd(header))]

Statuses == {"BMP_OK", "BMP_OUT_OF_MEMORY", "BMP_FILE_NOT_FOUND", "BMP_FILE_NOT_SUPPORTED",
             "BMP_FILE_INVALID"}

(* Whatever the memory, a file that is read is whole, and read as it is. *)
LEMMA ReadIs ==
    ASSUME NEW file \in Seq(Bytes) \cup {NULL}, NEW memory \in 0..3
    PROVE  LET result == BMP_ReadFile(file, memory) IN
           /\ result.status \in Statuses
           /\ result.status = "BMP_OK" => IsWhole(file) /\ result.bmp = Loaded(file)
           /\ result.status # "BMP_OK" => result.bmp = NULL
           /\ memory = 3 /\ IsWhole(file) => result.status = "BMP_OK"
<1> DEFINE header == ReadHeader(file)
           indexed == header.BitsPerPixel = 8
           start == HeaderLength + PaletteLength(header)
           end == DataEnd(header)
           result == BMP_ReadFile(file, memory)
           yes == [status |-> "BMP_OK", bmp |-> Loaded(file)]
           no(s) == [status |-> s, bmp |-> NULL]
<1>1. result =
        IF memory < 1 THEN no("BMP_OUT_OF_MEMORY")
        ELSE IF file = NULL THEN no("BMP_FILE_NOT_FOUND")
        ELSE IF Len(file) < HeaderLength THEN no("BMP_FILE_INVALID")
        ELSE IF header.Magic # 19778 THEN no("BMP_FILE_INVALID")
        ELSE IF \/ header.BitsPerPixel \notin {8, 24, 32}
                \/ header.CompressionType # 0
                \/ header.HeaderSize # 40
             THEN no("BMP_FILE_NOT_SUPPORTED")
        ELSE IF indexed /\ memory < 2 THEN no("BMP_OUT_OF_MEMORY")
        ELSE IF Len(file) < start THEN no("BMP_FILE_INVALID")
        ELSE IF memory < (IF indexed THEN 3 ELSE 2) THEN no("BMP_OUT_OF_MEMORY")
        ELSE IF Len(file) < end THEN no("BMP_FILE_INVALID")
        ELSE yes
  BY SMT DEF BMP_ReadFile, Failed, Done, Loaded
<1>0. /\ memory < 1 => result = no("BMP_OUT_OF_MEMORY")
      /\ ~(memory < 1) /\ file = NULL => result = no("BMP_FILE_NOT_FOUND")
  BY SMT DEF BMP_ReadFile, Failed, Done
<1>2. file # NULL => Len(file) \in Nat
  OBVIOUS
<1>3. HeaderLength \in Nat
  BY DEF HeaderLength
<1>4. file # NULL /\ Len(file) >= HeaderLength => header \in [DOMAIN Place -> Nat]
  BY HeaderNat
<1>5. file # NULL /\ Len(file) >= HeaderLength => start \in Nat /\ end \in Nat
  <2> SUFFICES ASSUME file # NULL, Len(file) >= HeaderLength PROVE start \in Nat /\ end \in Nat
    OBVIOUS
  <2>1. PaletteLength(header) \in Nat
    BY BitMapAssumption DEF PaletteLength
  <2>2. header.ImageDataSize \in Nat
    BY <1>4, Fields
  <2> QED
    BY <1>3, <2>1, <2>2 DEF DataEnd
<1>6. IsWhole(file) <=>
        /\ file # NULL
        /\ Len(file) >= HeaderLength
        /\ header.Magic = 19778
        /\ header.BitsPerPixel \in {8, 24, 32} /\ header.CompressionType = 0
        /\ header.HeaderSize = 40
        /\ Len(file) >= start
        /\ Len(file) >= end
  BY DEF IsWhole
<1> HIDE DEF header, start, end, result
<1>7. /\ result.status \in Statuses
      /\ result.status = "BMP_OK" => IsWhole(file) /\ result.bmp = Loaded(file)
      /\ result.status # "BMP_OK" => result.bmp = NULL
      /\ memory = 3 /\ IsWhole(file) => result.status = "BMP_OK"
  <2>1. \A s : no(s).status = s /\ no(s).bmp = NULL
    OBVIOUS
  <2>2. yes.status = "BMP_OK" /\ yes.bmp = Loaded(file)
    OBVIOUS
  <2> HIDE DEF yes, no
  <2>0. /\ \A s \in Statuses \ {"BMP_OK"} : s # "BMP_OK"
        /\ {"BMP_OUT_OF_MEMORY", "BMP_FILE_NOT_FOUND", "BMP_FILE_NOT_SUPPORTED",
            "BMP_FILE_INVALID"} \subseteq Statuses \ {"BMP_OK"}
    BY DEF Statuses
  <2>00. ASSUME NEW s \in Statuses \ {"BMP_OK"}, result = no(s), ~(memory = 3 /\ IsWhole(file))
         PROVE  /\ result.status \in Statuses
                /\ result.status = "BMP_OK" => IsWhole(file) /\ result.bmp = Loaded(file)
                /\ result.status # "BMP_OK" => result.bmp = NULL
                /\ memory = 3 /\ IsWhole(file) => result.status = "BMP_OK"
    BY <2>1, <2>00
  <2>3. CASE memory < 1 \/ file = NULL
    <3>1. memory = 3 => ~(memory < 1)
      OBVIOUS
    <3>2. result = no("BMP_OUT_OF_MEMORY") \/ result = no("BMP_FILE_NOT_FOUND")
      BY <1>0, <2>3
    <3>3. ~(memory = 3 /\ IsWhole(file))
      BY <1>6, <2>3, <3>1
    <3> QED
      BY <2>0, <2>00, <3>2, <3>3
  <2>4. CASE ~(memory < 1 \/ file = NULL) /\ Len(file) < HeaderLength
    BY <1>1, <1>2, <1>3, <1>6, <2>1, <2>4 DEF Statuses
  <2>5. CASE ~(memory < 1 \/ file = NULL) /\ ~(Len(file) < HeaderLength)
    <3>1. Len(file) >= HeaderLength /\ start \in Nat /\ end \in Nat /\ Len(file) \in Nat
      BY <1>2, <1>3, <1>5, <2>5
    <3>2. CASE \/ header.Magic # 19778 \/ header.BitsPerPixel \notin {8, 24, 32}
               \/ header.CompressionType # 0 \/ header.HeaderSize # 40
      <4>1. result = no("BMP_FILE_INVALID") \/ result = no("BMP_FILE_NOT_SUPPORTED")
        BY <1>1, <2>5, <3>2
      <4>2. ~IsWhole(file)
        BY <1>6, <3>2
      <4> QED
        BY <2>0, <2>00, <4>1, <4>2
    <3>3. CASE ~(\/ header.Magic # 19778 \/ header.BitsPerPixel \notin {8, 24, 32}
                 \/ header.CompressionType # 0 \/ header.HeaderSize # 40)
      <4>1. result = IF indexed /\ memory < 2 THEN no("BMP_OUT_OF_MEMORY")
                     ELSE IF Len(file) < start THEN no("BMP_FILE_INVALID")
                     ELSE IF memory < (IF indexed THEN 3 ELSE 2) THEN no("BMP_OUT_OF_MEMORY")
                     ELSE IF Len(file) < end THEN no("BMP_FILE_INVALID")
                     ELSE yes
        BY <1>1, <2>5, <3>3
      <4>2. IsWhole(file) <=> Len(file) >= start /\ Len(file) >= end
        BY <1>6, <2>5, <3>1, <3>3
      <4> HIDE DEF indexed
      <4> QED
        BY <2>1, <2>2, <3>1, <4>1, <4>2 DEF Statuses
    <3> QED
      BY <3>2, <3>3
  <2> QED
    BY <2>3, <2>4, <2>5
<1> QED
  BY <1>7 DEF result

(* A file is readable if it is whole; it shows the image in it. *)
LEMMA ReadableIs ==
    ASSUME NEW file \in Seq(Bytes) \cup {NULL}
    PROVE  /\ Readable(file) <=> IsWhole(file)
           /\ IsWhole(file) => Shown(file) = Picture(Loaded(file))
<1>1. 3 \in 0..3
  OBVIOUS
<1> QED
  BY <1>1, ReadIs DEF Readable, Shown

(* The image of a whole file has all of its data. *)
LEMMA LoadedIs ==
    ASSUME NEW file \in Seq(Bytes), IsWhole(file)
    PROVE  /\ Loaded(file) \in Bitmaps /\ Loaded(file) # NULL
           /\ Len(Loaded(file).Data) = Loaded(file).Header.ImageDataSize
<1> DEFINE header == ReadHeader(file)
           start == HeaderLength + PaletteLength(header)
           end == DataEnd(header)
<1>1. header \in [DOMAIN Place -> Nat] /\ Len(file) >= end /\ Len(file) >= start
  BY HeaderNat DEF IsWhole
<1>2. start \in Nat /\ end = start + header.ImageDataSize /\ header.ImageDataSize \in Nat
      /\ HeaderLength \in Nat /\ HeaderLength <= start
  <2>1. PaletteLength(header) \in Nat
    BY BitMapAssumption DEF PaletteLength
  <2>2. header.ImageDataSize \in Nat
    BY <1>1, Fields
  <2> QED
    BY <2>1, <2>2 DEF DataEnd, HeaderLength
<1>3. Loaded(file) = [Header |-> header,
                      Palette |-> IF header.BitsPerPixel = 8 THEN SubSeq(file, HeaderLength + 1, start)
                                                             ELSE NULL,
                      Data |-> SubSeq(file, start + 1, end)]
  BY DEF Loaded
<1> HIDE DEF header, start, end
<1>4. SubSeq(file, HeaderLength + 1, start) \in Seq(Bytes)
  BY <1>1, <1>2
<1>5. SubSeq(file, start + 1, end) \in Seq(Bytes)
      /\ Len(SubSeq(file, start + 1, end)) = header.ImageDataSize
  BY <1>1, <1>2
<1>6. Loaded(file) \in Bitmaps
  BY <1>1, <1>3, <1>4, <1>5 DEF Bitmaps
<1>7. Loaded(file) # NULL
  BY <1>6, NullIsNot
<1> QED
  BY <1>3, <1>5, <1>6, <1>7

(* The numbers of the header have room. *)
LEMMA HeaderFits ==
    ASSUME NEW w, NEW h, Fits(w, h)
    PROVE  /\ NewHeader(w, h, 32) \in [DOMAIN Place -> Nat]
           /\ \A f \in DOMAIN Place : IF f \in Short THEN Fits2(NewHeader(w, h, 32)[f])
                                                     ELSE Fits4(NewHeader(w, h, 32)[f])
           /\ h * Row(w) \in Nat
<1>1. /\ w \in Nat \ {0} /\ 32 \in Depths /\ (32 = 8) = FALSE
      /\ Stride(w, 32) = Row(w)
  BY Of32 DEF Fits
<1> QED
  BY <1>1, HeaderFitsOf

(* What is written: the header, then the data. *)
LEMMA ContentsIs ==
    ASSUME NEW w, NEW h, Fits(w, h), NEW bmp, NEW pixels, Canvas(bmp, w, h, pixels)
    PROVE  LET file == Contents(bmp) IN
           /\ file = WriteHeader(NewHeader(w, h, 32)) \o bmp.Data
           /\ file \in Seq(Bytes) /\ Len(file) = HeaderLength + h * Row(w)
           /\ \A k \in 1..HeaderLength : file[k] = WriteHeader(NewHeader(w, h, 32))[k]
           /\ \A k \in 1..(h * Row(w)) : file[HeaderLength + k] = bmp.Data[k]
<1> DEFINE header == WriteHeader(NewHeader(w, h, 32))  data == bmp.Data
<1>0. w \in Nat \ {0} /\ h \in Nat \ {0}
  BY DEF Fits
<1>1. header \in Seq(Bytes) /\ Len(header) = HeaderLength
  BY HeaderFits, HeaderBytes
<1>2. data \in Seq(Bytes) /\ Len(data) = h * Row(w)
  BY DEF Canvas
<1>3. bmp.Palette = NULL /\ bmp.Header = NewHeader(w, h, 32)
  BY <1>0, CanvasIs
<1>4. Contents(bmp) = header \o << >> \o data
  BY <1>3 DEF Contents
<1> HIDE DEF header, data
<1>5. header \o << >> = header
  BY <1>1
<1>6. Contents(bmp) = header \o data
  BY <1>4, <1>5
<1>7. HeaderLength \in Nat /\ h * Row(w) \in Nat
  BY HeaderFits DEF HeaderLength
<1>8. /\ header \o data \in Seq(Bytes) /\ Len(header \o data) = HeaderLength + h * Row(w)
      /\ \A k \in 1..HeaderLength : (header \o data)[k] = header[k]
      /\ \A k \in 1..(h * Row(w)) : (header \o data)[HeaderLength + k] = data[k]
  BY <1>1, <1>2, <1>7
<1> QED
  BY <1>6, <1>8 DEF header, data

(* A file that was written shows the image again, *)
LEMMA WrittenIsRead ==
    ASSUME NEW w, NEW h, Fits(w, h), NEW bmp, NEW pixels, Canvas(bmp, w, h, pixels)
    PROVE  IsWhole(Contents(bmp)) /\ Loaded(Contents(bmp)) = bmp
<1> DEFINE file == Contents(bmp)  header == NewHeader(w, h, 32)  n == h * Row(w)
<1>0. w \in Nat \ {0} /\ h \in Nat \ {0}
  BY DEF Fits
<1>1. /\ file \in Seq(Bytes) /\ Len(file) = HeaderLength + n
      /\ \A k \in 1..HeaderLength : file[k] = WriteHeader(header)[k]
      /\ \A k \in 1..n : file[HeaderLength + k] = bmp.Data[k]
  BY ContentsIs
<1>2. n \in Nat /\ HeaderLength \in Nat
  BY HeaderFits DEF HeaderLength
<1> HIDE DEF file, header
<1>3. ReadHeader(file) = header
  <2>1. Len(file) >= HeaderLength
    BY <1>1, <1>2
  <2> QED
    BY <1>1, <2>1, HeaderFits, HeaderRoundTrip DEF header
<1>4. /\ header.Magic = 19778 /\ header.BitsPerPixel = 32 /\ header.CompressionType = 0
      /\ header.HeaderSize = 40 /\ header.ImageDataSize = n
  BY <1>0, NewHeaderIs DEF header
<1>5. PaletteLength(header) = 0
  BY <1>4 DEF PaletteLength
<1>6. DataEnd(header) = HeaderLength + n /\ HeaderLength + PaletteLength(header) = HeaderLength
  BY <1>2, <1>4, <1>5 DEF DataEnd
<1>7. file # NULL
  BY <1>1, NullIsNot
<1>8. IsWhole(file)
  BY <1>1, <1>2, <1>3, <1>4, <1>6, <1>7 DEF IsWhole
<1>9. SubSeq(file, HeaderLength + 1, HeaderLength + n) = bmp.Data
  <2> DEFINE s == SubSeq(file, HeaderLength + 1, HeaderLength + n)  d == bmp.Data
  <2>1. s \in Seq(Bytes) /\ Len(s) = n /\ \A k \in 1..n : s[k] = file[HeaderLength + k]
    BY <1>1, <1>2, SMTT(30)
  <2>2. d \in Seq(Bytes) /\ Len(d) = n
    BY DEF Canvas
  <2>3. \A k \in 1..n : s[k] = d[k]
    BY <1>1, <2>1
  <2> HIDE DEF s, d
  <2>4. s = d
    BY <2>1, <2>2, <2>3
  <2> QED
    BY <2>4 DEF s, d
<1>10. Loaded(file) = [Header |-> header, Palette |-> NULL, Data |-> bmp.Data]
  <2>1. header.BitsPerPixel # 8
    BY <1>4
  <2> QED
    BY <1>3, <1>6, <1>9, <2>1 DEF Loaded
<1>11. bmp = [Header |-> header, Palette |-> NULL, Data |-> bmp.Data]
  BY DEF Canvas, header
<1> QED
  BY <1>8, <1>10, <1>11 DEF file

(* and one that lacks some of its end is refused. *)
LEMMA CutIsRefused ==
    ASSUME NEW w, NEW h, Fits(w, h), NEW bmp, NEW pixels, Canvas(bmp, w, h, pixels),
           NEW cut \in Nat \ {0}
    PROVE  /\ SubSeq(Contents(bmp), 1, Len(Contents(bmp)) - cut) \in Seq(Bytes)
           /\ ~IsWhole(SubSeq(Contents(bmp), 1, Len(Contents(bmp)) - cut))
<1> DEFINE file == Contents(bmp)  header == NewHeader(w, h, 32)  n == h * Row(w)
           part == SubSeq(file, 1, Len(file) - cut)
<1>0. w \in Nat \ {0} /\ h \in Nat \ {0}
  BY DEF Fits
<1>1. /\ file \in Seq(Bytes) /\ Len(file) = HeaderLength + n
      /\ \A k \in 1..HeaderLength : file[k] = WriteHeader(header)[k]
  BY ContentsIs
<1>2. n \in Nat /\ HeaderLength \in Nat
  BY HeaderFits DEF HeaderLength
<1> HIDE DEF file, header
<1>3. part \in Seq(Bytes) /\ Len(part) < HeaderLength + n
      /\ \A k \in 1..Len(part) : part[k] = file[k]
  <2> DEFINE m == Len(file) - cut
  <2>1. Len(file) \in Nat /\ m \in Int /\ m < Len(file)
    BY <1>1, <1>2
  <2>2. HeaderLength >= 1
    BY DEF HeaderLength
  <2> HIDE DEF m
  <2>3. CASE m < 1
    BY <1>1, <1>2, <2>1, <2>2, <2>3, SMTT(30)
  <2>4. CASE m >= 1
    BY <1>1, <1>2, <2>1, <2>4
  <2> QED
    BY <2>1, <2>3, <2>4
<1> HIDE DEF part
<1>4. ASSUME Len(part) < HeaderLength PROVE ~IsWhole(part)
  <2>1. Len(part) \in Nat
    BY <1>3
  <2> QED
    BY <1>2, <1>4, <2>1 DEF IsWhole
<1>5. ASSUME Len(part) >= HeaderLength PROVE ~IsWhole(part)
  <2>1. ReadHeader(part) = header
    <3>1. \A k \in 1..HeaderLength : part[k] = WriteHeader(header)[k]
      BY <1>1, <1>2, <1>3, <1>5
    <3> QED
      BY <1>3, <1>5, <3>1, HeaderFits, HeaderRoundTrip DEF header
  <2>2. header.BitsPerPixel = 32 /\ header.ImageDataSize = n
    BY <1>0, NewHeaderIs DEF header
  <2>3. DataEnd(header) = HeaderLength + n
    BY <1>2, <2>2 DEF DataEnd, PaletteLength
  <2>4. Len(part) \in Nat
    BY <1>3
  <2> QED
    BY <1>2, <1>3, <2>1, <2>3, <2>4 DEF IsWhole
<1>6. Len(part) \in Nat
  BY <1>3
<1>7. ~IsWhole(part)
  BY <1>2, <1>4, <1>5, <1>6
<1> QED
  BY <1>3, <1>7 DEF part, file

----------------------------------------------------------------------------
(* Numbers *)

(* Some numbers have a least one. *)
LEMMA LeastNatural ==
    ASSUME NEW T \in SUBSET Nat, T # {} PROVE \E a \in T : \A b \in T : a <= b
<1> DEFINE R == {ss \in Nat \X Nat : ss[1] < ss[2]}
<1>1. IsWellFoundedOn(R, Nat)
  BY NatLessThanWellFounded DEF OpToRel
<1>2. \A a \in Nat, b \in Nat : b < a => <<b, a>> \in R
  OBVIOUS
<1> HIDE DEF R
<1>3. PICK a \in T : \A b \in T : ~(<<b, a>> \in R)
  BY <1>1, WFMin
<1>4. \A b \in T : ~(b < a)
  BY <1>2, <1>3
<1>5. a \in Nat /\ \A b \in T : b \in Nat
  OBVIOUS
<1>6. \A b \in T : a <= b
  BY <1>4, <1>5
<1> QED
  BY <1>6

(* What holds of 0 and goes on from one number to the next holds up to n. *)
LEMMA FromZero ==
    ASSUME NEW n \in Nat, NEW T \in SUBSET (0..n), 0 \in T,
           \A a \in 0..(n - 1) : a \in T => a + 1 \in T
    PROVE  T = 0..n
<1> SUFFICES ASSUME T # 0..n PROVE FALSE
  OBVIOUS
<1>1. PICK a \in (0..n) \ T : \A b \in (0..n) \ T : a <= b
  <2>1. T \subseteq 0..n
    OBVIOUS
  <2>2. \E a \in 0..n : a \notin T
    BY <2>1, T # 0..n, Zenon
  <2>3. (0..n) \ T \in SUBSET Nat /\ (0..n) \ T # {}
    BY <2>2
  <2> QED
    BY <2>3, LeastNatural
<1>2. a # 0 /\ a - 1 \in 0..(n - 1) /\ a - 1 \in 0..n
  BY <1>1
<1>3. a - 1 \in T
  BY <1>1, <1>2
<1> QED
  BY <1>1, <1>2, <1>3

(* The largest of some of the numbers to n + 1; without it they go to n. *)
Most(s) == CHOOSE a \in s : \A b \in s : a >= b

(* There is a largest number. *)
LEMMA MostIs ==
    ASSUME NEW n \in Nat, NEW s \in SUBSET (1..n), s # {}
    PROVE  Most(s) \in s /\ \A b \in s : Most(s) >= b
<1> DEFINE T == {n - b : b \in s}
<1>0. s \subseteq 1..n
  OBVIOUS
<1>1. T \in SUBSET Nat /\ T # {}
  <2>1. \A b \in s : n - b \in Nat
    BY <1>0
  <2> QED
    BY <2>1
<1>2. PICK a \in T : \A b \in T : a <= b
  <2> HIDE DEF T
  <2> QED
    BY <1>1, LeastNatural
<1>3. n - a \in s /\ \A b \in s : n - a >= b
  <2>1. PICK z \in s : a = n - z
    OBVIOUS
  <2>2. n - a = z
    BY <2>1
  <2>3. \A b \in s : a <= n - b
    BY <1>2
  <2> QED
    BY <2>1, <2>2, <2>3
<1> QED
  BY <1>3 DEF Most

(* The largest of the first n + 1 numbers is the last. *)
LEMMA MostOfPrefix ==
    ASSUME NEW n \in Nat PROVE Most(1..(n + 1)) = n + 1 /\ (1..(n + 1)) \ {n + 1} = 1..n
<1> DEFINE s == 1..(n + 1)
<1>1. s \in SUBSET (1..(n + 1)) /\ s # {} /\ n + 1 \in Nat
  OBVIOUS
<1> HIDE DEF s
<1>2. Most(s) \in s /\ \A b \in s : Most(s) >= b
  BY <1>1, MostIs
<1> QED
  BY <1>2 DEF s

----------------------------------------------------------------------------
(* The loops over the pixels, a pixel at a time: "fill" paints the colours *)
(* on a base, "compare" goes through two images.                           *)

Base(m) == IF m.loop = "fill" THEN m.base ELSE [two |-> NULL, count |-> 0]

CompareStep(one, two, s, p) ==
    LET c == BMP_GetPixelRGB(one, p[1], p[2], NULL)
        d == BMP_GetPixelRGB(two, p[1], p[2], s.two)
    IN  [two |-> d, count |-> s.count + (IF c = d THEN 0 ELSE 1)]

Step(m, s, p) ==
    IF m.loop = "fill" THEN BMP_SetPixelRGB(s, p[1], p[2], m.colours[p])
                       ELSE CompareStep(m.one, m.two, s, p)

Folded(m, s, g, n) ==
    g = [d \in SUBSET (1..n) |-> IF d = {} THEN Base(m)
                                 ELSE Step(m, g[d \ {Most(d)}], s[Most(d)])]

(* f goes through the steps one by one. *)
Folds(m, s, f) ==
    /\ f[0] = Base(m)
    /\ \A a \in 0..(Len(s) - 1) : f[a + 1] = Step(m, f[a], s[a + 1])

(* The fold that the library defines exists, *)
LEMMA FoldedExists == ASSUME NEW m, NEW s, NEW n \in Nat PROVE \E g : Folded(m, s, g, n)
<1> DEFINE T == {j \in 0..n : \E g : Folded(m, s, g, j)}
<1>1. 0 \in T
  <2> DEFINE g == [d \in {{}} |-> Base(m)]
  <2>0. SUBSET (1..0) = {{}}
    OBVIOUS
  <2>1. Folded(m, s, g, 0)
    BY <2>0 DEF Folded
  <2> QED
    BY <2>1
<1>2. ASSUME NEW j \in 0..(n - 1), j \in T PROVE j + 1 \in T
  <2>1. PICK g : Folded(m, s, g, j)
    BY <1>2
  <2> DEFINE Body(f, d) == IF d = {} THEN Base(m) ELSE Step(m, f[d \ {Most(d)}], s[Most(d)])
             h == [d \in SUBSET (1..(j + 1)) |-> Body(g, d)]
  <2>2. \A d \in SUBSET (1..j) : g[d] = Body(g, d)
    <3> DEFINE r == [d \in SUBSET (1..j) |-> Body(g, d)]
    <3>1. g = r
      BY <2>1 DEF Folded
    <3>2. \A d \in SUBSET (1..j) : r[d] = Body(g, d)
      <4> HIDE DEF Body
      <4> QED
        OBVIOUS
    <3> HIDE DEF r
    <3> QED
      BY <3>1, <3>2
  <2>3. \A d \in SUBSET (1..(j + 1)) : h[d] = Body(g, d)
    <3> HIDE DEF Body
    <3> QED
      OBVIOUS
  <2>4. h = [d \in SUBSET (1..(j + 1)) |-> h[d]]
    <3> HIDE DEF Body
    <3> QED
      OBVIOUS
  <2>5. \A d \in SUBSET (1..j) : h[d] = g[d]
    <3> HIDE DEF h, Body
    <3>1. \A d \in SUBSET (1..j) : d \in SUBSET (1..(j + 1))
      OBVIOUS
    <3> QED
      BY <2>2, <2>3, <3>1
  <2>6. \A d \in SUBSET (1..(j + 1)) : h[d] = Body(h, d)
    <3> HIDE DEF h
    <3> SUFFICES ASSUME NEW d \in SUBSET (1..(j + 1)), d # {}
                 PROVE  h[d \ {Most(d)}] = g[d \ {Most(d)}]
      BY <2>3
    <3>0. j \in Nat /\ j + 1 \in Nat
      OBVIOUS
    <3> HIDE DEF T, Body
    <3>1. Most(d) \in d /\ \A b \in d : Most(d) >= b
      BY <3>0, MostIs
    <3>2. d \ {Most(d)} \in SUBSET (1..j)
      <4>1. d \subseteq 1..(j + 1)
        OBVIOUS
      <4>2. ASSUME NEW b \in d, b # Most(d) PROVE b \in 1..j
        <5>1. b \in 1..(j + 1) /\ Most(d) \in 1..(j + 1) /\ Most(d) >= b
          BY <3>1, <4>1
        <5> QED
          BY <3>0, <4>2, <5>1
      <4> QED
        BY <4>2
    <3> QED
      BY <2>5, <3>2
  <2>7. Folded(m, s, h, j + 1)
    <3> HIDE DEF h
    <3> QED
      BY <2>4, <2>6 DEF Folded
  <2>8. j + 1 \in 0..n
    OBVIOUS
  <2> HIDE DEF h
  <2> QED
    BY <2>7, <2>8
<1>3. T = 0..n
  <2> HIDE DEF T
  <2>1. T \in SUBSET (0..n)
    BY DEF T
  <2> QED
    BY <1>1, <1>2, <2>1, FromZero
<1> QED
  BY <1>3

(* and goes through the sequence one by one. *)
LEMMA FoldSteps ==
    ASSUME NEW m, NEW s, NEW n \in Nat, n = Len(s), NEW g, Folded(m, s, g, n)
    PROVE  \E f : Folds(m, s, f) /\ f[n] = g[1..n]
<1> DEFINE f == [j \in 0..n |-> g[1..j]]
<1>1. \A d \in SUBSET (1..n) : g[d] = IF d = {} THEN Base(m)
                                 ELSE Step(m, g[d \ {Most(d)}], s[Most(d)])
  <2> DEFINE r == [d \in SUBSET (1..n) |-> IF d = {} THEN Base(m)
                                 ELSE Step(m, g[d \ {Most(d)}], s[Most(d)])]
  <2>1. g = r
    BY DEF Folded
  <2>2. \A d \in SUBSET (1..n) : r[d] = IF d = {} THEN Base(m)
                                 ELSE Step(m, g[d \ {Most(d)}], s[Most(d)])
    OBVIOUS
  <2> HIDE DEF r
  <2> QED
    BY <2>1, <2>2
<1>2. f[0] = Base(m)
  <2>1. 1..0 = {} /\ {} \in SUBSET (1..n)
    OBVIOUS
  <2>2. f[0] = g[{}]
    BY <2>1
  <2> HIDE DEF f
  <2> QED
    BY <1>1, <2>1, <2>2
<1>3. ASSUME NEW j \in 0..(n - 1) PROVE f[j + 1] = Step(m, f[j], s[j + 1])
  <2>1. j \in Nat /\ j \in 0..n /\ j + 1 \in 0..n
    OBVIOUS
  <2>2. Most(1..(j + 1)) = j + 1 /\ (1..(j + 1)) \ {j + 1} = 1..j
    BY <2>1, MostOfPrefix
  <2>3. 1..(j + 1) \in SUBSET (1..n) /\ 1..(j + 1) # {}
    <3>1. \A b \in 1..(j + 1) : b \in 1..n
      OBVIOUS
    <3>2. j + 1 \in 1..(j + 1)
      BY <2>1
    <3> QED
      BY <3>1, <3>2
  <2>4. g[1..(j + 1)] = Step(m, g[1..j], s[j + 1])
    <3> DEFINE d == 1..(j + 1)
    <3> HIDE DEF d
    <3>1. g[d] = Step(m, g[d \ {Most(d)}], s[Most(d)])
      BY <1>1, <2>3 DEF d
    <3> QED
      BY <2>2, <3>1 DEF d
  <2>5. f[j + 1] = g[1..(j + 1)] /\ f[j] = g[1..j]
    BY <2>1
  <2> QED
    BY <2>4, <2>5
<1>4. f[n] = g[1..n]
  OBVIOUS
<1> HIDE DEF f
<1> QED
  BY <1>2, <1>3, <1>4 DEF Folds

Fill(colours, base) == [loop |-> "fill", base |-> base, colours |-> colours]

Comparison(one, two) == [loop |-> "compare", one |-> one, two |-> two]

ByRows(w, h)    == [k \in 1..(w * h) |-> <<(k - 1) % w, (k - 1) \div w>>]
ByColumns(w, h) == [k \in 1..(w * h) |-> <<(k - 1) \div h, (k - 1) % h>>]

(* The loop that paints is such a fold. *)
LEMMA FilledIs ==
    ASSUME NEW w \in Nat \ {0}, NEW h \in Nat \ {0}, NEW colours,
           BMP_GetWidth(first) = w, BMP_GetHeight(first) = h
    PROVE  \E f : /\ Folds(Fill(colours, second), ByRows(w, h), f)
                  /\ Filled(colours) = f[w * h]
<1> DEFINE n == w * h
           s == ByRows(w, h)
           m == Fill(colours, second)
           F(g) == g = [d \in SUBSET (1..n) |->
                          IF d = {} THEN second
                          ELSE BMP_SetPixelRGB(g[d \ {Most(d)}], s[Most(d)][1], s[Most(d)][2],
                                               colours[s[Most(d)]])]
           c == CHOOSE g : F(g)
<1>1. n \in Nat /\ DOMAIN s = 1..n /\ Len(s) = n
  <2>1. n \in Nat
    OBVIOUS
  <2> HIDE DEF n
  <2>2. s = [k \in 1..n |-> <<(k - 1) % w, (k - 1) \div w>>]
    BY DEF ByRows, n
  <2> QED
    BY <2>1, <2>2
<1>2. Filled(colours) = c[1..n]
  <2>1. DOMAIN s = 1..n
    BY <1>1
  <2>2. Filled(colours) = FoldLeft(LAMBDA bmp, p : BMP_SetPixelRGB(bmp, p[1], p[2], colours[p]),
                                   second, s)
    BY DEF Filled, ByRows
  <2> HIDE DEF n, s
  <2> QED
    BY <2>1, <2>2, Zenon DEF FoldLeft, MapThenFoldSet, Max, Most
<1>3. \A g : F(g) <=> Folded(m, s, g, n)
  <2>1. m.loop = "fill" /\ m.base = second /\ m.colours = colours
    BY DEF Fill
  <2> HIDE DEF m, s, n
  <2> QED
    BY <2>1 DEF Folded, Base, Step
<1>4. \E g : F(g)
  <2> HIDE DEF n, F, m, s
  <2> QED
    BY <1>1, <1>3, FoldedExists
<1>5. F(c)
  <2> HIDE DEF F
  <2> QED
    BY <1>4
<1> HIDE DEF F, c, m, s
<1> QED
  <2> HIDE DEF n
  <2>1. \E f : Folds(m, s, f) /\ f[n] = c[1..n]
    BY <1>1, <1>3, <1>5, FoldSteps
  <2> QED
    BY <1>2, <2>1 DEF n, m, s

(* Quotient and remainder of q * w + r. *)
LEMMA Divided ==
    ASSUME NEW w \in Nat \ {0}, NEW q \in Nat, NEW r \in 0..(w - 1)
    PROVE  (q * w + r) \div w = q /\ (q * w + r) % w = r
<1>1. q * w \in Nat /\ q * w + r \in Nat
  OBVIOUS
<1> QED
  BY <1>1

(* Place q * w + r is in the first h rows if row q is. *)
LEMMA Below ==
    ASSUME NEW w \in Nat \ {0}, NEW h \in Nat \ {0}, NEW q \in Nat, NEW r \in Nat, r < w
    PROVE  /\ q < h => q * w + r < w * h
           /\ q * w + r < w * h => q < h
<1>1. q * w \in Nat /\ w * h \in Nat /\ w * h = h * w
  OBVIOUS
<1>2. ASSUME q < h PROVE q * w + r < w * h
  <2>1. (q + 1) * w <= h * w
    BY <1>2, ProductGrows
  <2>2. (q + 1) * w = q * w + w
    OBVIOUS
  <2> QED
    BY <1>1, <2>1, <2>2
<1>3. ASSUME h <= q PROVE w * h <= q * w
  BY <1>1, <1>3, ProductGrows
<1> QED
  BY <1>1, <1>2, <1>3

(* The two orders go through every pixel. *)
LEMMA OrdersCover ==
    ASSUME NEW w \in Nat \ {0}, NEW h \in Nat \ {0}
    PROVE  /\ \A k \in 1..(w * h) : ByRows(w, h)[k] \in Grid(w, h) /\ ByColumns(w, h)[k] \in Grid(w, h)
           /\ \A p \in Grid(w, h) : /\ \E k \in 1..(w * h) : ByRows(w, h)[k] = p
                                    /\ \E k \in 1..(w * h) : ByColumns(w, h)[k] = p
<1>0. w * h \in Nat
  OBVIOUS
<1>1. ASSUME NEW k \in 1..(w * h), NEW a \in Nat \ {0}, NEW b \in Nat \ {0}, a * b = w * h
      PROVE  (k - 1) % a \in 0..(a - 1) /\ (k - 1) \div a \in 0..(b - 1)
  <2>1. k - 1 \in Nat /\ k - 1 < a * b
    BY <1>0, <1>1
  <2> DEFINE q == (k - 1) \div a  r == (k - 1) % a
  <2>2. q \in Nat /\ r \in Nat /\ r < a /\ k - 1 = q * a + r
    BY <2>1
  <2> HIDE DEF q, r
  <2>3. q < b
    BY <2>1, <2>2, Below
  <2> QED
    BY <2>2, <2>3 DEF q, r
<1>2. ASSUME NEW k \in 1..(w * h)
      PROVE  ByRows(w, h)[k] \in Grid(w, h) /\ ByColumns(w, h)[k] \in Grid(w, h)
  <2>1. (k - 1) % w \in 0..(w - 1) /\ (k - 1) \div w \in 0..(h - 1)
    BY <1>1
  <2>2. (k - 1) % h \in 0..(h - 1) /\ (k - 1) \div h \in 0..(w - 1)
    <3>1. h * w = w * h
      OBVIOUS
    <3> QED
      BY <1>1, <3>1
  <2>3. ByRows(w, h)[k] = <<(k - 1) % w, (k - 1) \div w>>
        /\ ByColumns(w, h)[k] = <<(k - 1) \div h, (k - 1) % h>>
    BY DEF ByRows, ByColumns
  <2> QED
    BY <2>1, <2>2, <2>3 DEF Grid
<1>3. ASSUME NEW p \in Grid(w, h)
      PROVE  /\ \E k \in 1..(w * h) : ByRows(w, h)[k] = p
             /\ \E k \in 1..(w * h) : ByColumns(w, h)[k] = p
  <2>1. p[1] \in 0..(w - 1) /\ p[2] \in 0..(h - 1) /\ p = <<p[1], p[2]>>
    BY DEF Grid
  <2> DEFINE k == p[2] * w + p[1] + 1  l == p[1] * h + p[2] + 1
  <2>2. k - 1 = p[2] * w + p[1] /\ l - 1 = p[1] * h + p[2] /\ k - 1 \in Nat /\ l - 1 \in Nat
    BY <2>1
  <2>3. k - 1 < w * h /\ l - 1 < w * h
    <3>1. p[2] * w + p[1] < w * h
      BY <2>1, Below
    <3>2. p[1] * h + p[2] < h * w
      BY <2>1, Below
    <3>3. h * w = w * h
      OBVIOUS
    <3> QED
      BY <2>2, <3>1, <3>2, <3>3
  <2>4. (k - 1) \div w = p[2] /\ (k - 1) % w = p[1] /\ (l - 1) \div h = p[1] /\ (l - 1) % h = p[2]
    <3>1. (p[2] * w + p[1]) \div w = p[2] /\ (p[2] * w + p[1]) % w = p[1]
      BY <2>1, Divided
    <3>2. (p[1] * h + p[2]) \div h = p[1] /\ (p[1] * h + p[2]) % h = p[2]
      BY <2>1, Divided
    <3> HIDE DEF k, l
    <3> QED
      BY <2>2, <3>1, <3>2
  <2>5. k \in Int /\ l \in Int
    BY <2>1
  <2> HIDE DEF k, l
  <2>6. k \in 1..(w * h) /\ l \in 1..(w * h)
    BY <1>0, <2>2, <2>3, <2>5
  <2>7. ByRows(w, h)[k] = <<(k - 1) % w, (k - 1) \div w>>
        /\ ByColumns(w, h)[l] = <<(l - 1) \div h, (l - 1) % h>>
    BY <2>6 DEF ByRows, ByColumns
  <2> QED
    BY <2>1, <2>4, <2>6, <2>7
<1> QED
  BY <1>2, <1>3

(* The loop of negative and of blur_sequential paints the colours it finds. *)
LEMMA FilledCanvas ==
    ASSUME NEW w \in Nat \ {0}, NEW h \in Nat \ {0}, NEW colours \in [Grid(w, h) -> Colours],
           BMP_GetWidth(first) = w, BMP_GetHeight(first) = h,
           NEW blank, Canvas(second, w, h, blank)
    PROVE  Canvas(Filled(colours), w, h, colours)
<1> DEFINE n == w * h
           order == ByRows(w, h)
           m == Fill(colours, second)
           Px(k) == [p \in Grid(w, h) |-> IF \E j \in 1..k : order[j] = p THEN colours[p] ELSE blank[p]]
<1>1. PICK f : Folds(m, order, f) /\ Filled(colours) = f[n]
  BY FilledIs
<1>2. n \in Nat /\ Len(order) = n
  <2>1. n \in Nat
    OBVIOUS
  <2> HIDE DEF n
  <2>2. order = [k \in 1..n |-> <<(k - 1) % w, (k - 1) \div w>>]
    BY DEF ByRows, n
  <2> QED
    BY <2>1, <2>2
<1>3. /\ \A k \in 1..n : order[k] \in Grid(w, h)
      /\ \A p \in Grid(w, h) : \E k \in 1..n : order[k] = p
  BY OrdersCover
<1>4. m.loop = "fill" /\ m.base = second /\ m.colours = colours
  BY DEF Fill
<1> HIDE DEF n, order, m
<1>5. /\ f[0] = second
      /\ \A k \in 0..(n - 1) : f[k + 1] = BMP_SetPixelRGB(f[k], order[k + 1][1], order[k + 1][2],
                                                         colours[order[k + 1]])
  BY <1>1, <1>2, <1>4 DEF Folds, Base, Step
<1>6. blank \in [Grid(w, h) -> Colours]
  BY DEF Canvas
<1> DEFINE T == {k \in 0..n : Canvas(f[k], w, h, Px(k))}
<1>7. 0 \in T
  <2>1. Px(0) = blank
    BY <1>6
  <2> QED
    BY <1>2, <1>5, <2>1
<1>8. ASSUME NEW k \in 0..(n - 1), k \in T PROVE k + 1 \in T
  <2> DEFINE p == order[k + 1]
  <2>1. p \in Grid(w, h) /\ colours[p] \in Colours /\ k + 1 \in 0..n /\ k \in Nat
    BY <1>2, <1>3
  <2>2. Canvas(f[k], w, h, Px(k))
    BY <1>8
  <2> HIDE DEF p
  <2>3. Canvas(BMP_SetPixelRGB(f[k], p[1], p[2], colours[p]), w, h, [Px(k) EXCEPT ![p] = colours[p]])
    <3> DEFINE px == Px(k)
    <3> HIDE DEF Px
    <3> QED
      BY <2>1, <2>2, PixelSet
  <2>4. [Px(k) EXCEPT ![p] = colours[p]] = Px(k + 1)
    <3>1. \A j : j \in 1..(k + 1) <=> j \in 1..k \/ j = k + 1
      BY <2>1
    <3>2. \A q \in Grid(w, h) : (\E j \in 1..(k + 1) : order[j] = q)
                                  <=> (\E j \in 1..k : order[j] = q) \/ q = p
      BY <3>1 DEF p
    <3> QED
      BY <2>1, <3>2
  <2>5. f[k + 1] = BMP_SetPixelRGB(f[k], p[1], p[2], colours[p])
    BY <1>5 DEF p
  <2>6. Canvas(f[k + 1], w, h, Px(k + 1))
    <3> HIDE DEF Px
    <3> QED
      BY <2>3, <2>4, <2>5
  <2> HIDE DEF Px
  <2> QED
    BY <2>1, <2>6
<1>9. T = 0..n
  <2> HIDE DEF T
  <2>1. T \in SUBSET (0..n)
    BY DEF T
  <2> QED
    BY <1>2, <1>7, <1>8, <2>1, FromZero
<1>10. Canvas(f[n], w, h, Px(n))
  <2> HIDE DEF Px
  <2>1. n \in T
    <3> HIDE DEF T
    <3> QED
      BY <1>2, <1>9
  <2> QED
    BY <2>1
<1>11. Px(n) = colours
  BY <1>3
<1> QED
  <2> HIDE DEF Px
  <2> QED
    BY <1>1, <1>10, <1>11

----------------------------------------------------------------------------
(* The loop of compare_bmp *)

(* Inside an image the variables' old values do not matter. *)
LEMMA InsideGot ==
    ASSUME NEW w \in Nat \ {0}, NEW h \in Nat \ {0}, NEW bmp, bmp # NULL,
           BMP_GetWidth(bmp) = w, BMP_GetHeight(bmp) = h, NEW p \in Grid(w, h), NEW before
    PROVE  /\ BMP_GetPixelRGB(bmp, p[1], p[2], before) = BMP_GetPixelRGB(bmp, p[1], p[2], NULL)
           /\ Picture(bmp).pixels[p] = BMP_GetPixelRGB(bmp, p[1], p[2], NULL)
<1>1. ~Outside(bmp, p[1], p[2])
  <2>1. bmp.Header.Width = w /\ bmp.Header.Height = h
    BY DEF BMP_GetWidth, BMP_GetHeight
  <2>2. p[1] \in Nat /\ p[2] \in Nat /\ p[1] < w /\ p[2] < h
    BY GridIs
  <2> QED
    BY <2>1, <2>2 DEF Outside
<1>2. BMP_GetPixelRGB(bmp, p[1], p[2], before) = BMP_GetPixelRGB(bmp, p[1], p[2], NULL)
  BY <1>1, Zenon DEF BMP_GetPixelRGB
<1>3. Picture(bmp).pixels[p] = BMP_GetPixelRGB(bmp, p[1], p[2], NULL)
  <2>1. Picture(bmp).pixels = [q \in Grid(w, h) |-> BMP_GetPixelRGB(bmp, q[1], q[2], NULL)]
    BY DEF Picture, Grid
  <2> QED
    BY <2>1
<1> QED
  BY <1>2, <1>3

(* The loop that compares is such a fold. *)
LEMMA IncorrectIs ==
    ASSUME NEW w \in Nat \ {0}, NEW h \in Nat \ {0},
           BMP_GetWidth(first) = w, BMP_GetHeight(first) = h
    PROVE  \E f : /\ Folds(Comparison(first, second), ByColumns(w, h), f)
                  /\ Incorrect = f[w * h].count
<1> DEFINE n == w * h
           s == ByColumns(w, h)
           m == Comparison(first, second)
           F(g) == g = [d \in SUBSET (1..n) |->
                          IF d = {} THEN [two |-> NULL, count |-> 0]
                          ELSE CompareStep(first, second, g[d \ {Most(d)}], s[Most(d)])]
           c == CHOOSE g : F(g)
<1>1. n \in Nat /\ DOMAIN s = 1..n /\ Len(s) = n
  <2>1. n \in Nat
    OBVIOUS
  <2> HIDE DEF n
  <2>2. s = [k \in 1..n |-> <<(k - 1) \div h, (k - 1) % h>>]
    BY DEF ByColumns, n
  <2> QED
    BY <2>1, <2>2
<1>2. Incorrect = c[1..n].count
  <2>1. DOMAIN s = 1..n
    BY <1>1
  <2>2. Incorrect = FoldLeft(LAMBDA a, p : CompareStep(first, second, a, p),
                             [two |-> NULL, count |-> 0], s).count
    BY Zenon DEF Incorrect, ByColumns, CompareStep
  <2> HIDE DEF n, s
  <2> QED
    BY <2>1, <2>2, Zenon DEF FoldLeft, MapThenFoldSet, Max, Most
<1>3. \A g : F(g) <=> Folded(m, s, g, n)
  <2>1. m.loop = "compare" /\ m.one = first /\ m.two = second
    BY DEF Comparison
  <2> HIDE DEF m, s, n
  <2> QED
    BY <2>1 DEF Folded, Base, Step
<1>4. \E g : F(g)
  <2> HIDE DEF n, F, m, s
  <2> QED
    BY <1>1, <1>3, FoldedExists
<1>5. F(c)
  <2> HIDE DEF F
  <2> QED
    BY <1>4
<1> HIDE DEF F, c, m, s
<1> QED
  <2> HIDE DEF n
  <2>1. \E f : Folds(m, s, f) /\ f[n] = c[1..n]
    BY <1>1, <1>3, <1>5, FoldSteps
  <2> QED
    BY <1>2, <2>1 DEF n, m, s

(* compare_bmp finds two images equal if and only if their pictures are.   *)
LEMMA ComparedIs ==
    ASSUME NEW w \in Nat \ {0}, NEW h \in Nat \ {0}, first # NULL, second # NULL,
           BMP_GetWidth(first) = w, BMP_GetHeight(first) = h,
           BMP_GetWidth(second) = w, BMP_GetHeight(second) = h
    PROVE  Incorrect = 0 <=> Picture(first) = Picture(second)
<1> DEFINE n == w * h
           order == ByColumns(w, h)
           m == Comparison(first, second)
           one == Picture(first).pixels
           two == Picture(second).pixels
<1>1. PICK f : Folds(m, order, f) /\ Incorrect = f[n].count
  BY IncorrectIs
<1>2. n \in Nat /\ Len(order) = n
  <2>1. n \in Nat
    OBVIOUS
  <2> HIDE DEF n
  <2>2. order = [k \in 1..n |-> <<(k - 1) \div h, (k - 1) % h>>]
    BY DEF ByColumns, n
  <2> QED
    BY <2>1, <2>2
<1>3. /\ \A k \in 1..n : order[k] \in Grid(w, h)
      /\ \A p \in Grid(w, h) : \E k \in 1..n : order[k] = p
  BY OrdersCover
<1>4. m.loop = "compare" /\ m.one = first /\ m.two = second
  BY DEF Comparison
<1>5. \A p \in Grid(w, h) : \A before :
        /\ BMP_GetPixelRGB(first, p[1], p[2], before) = one[p]
        /\ BMP_GetPixelRGB(second, p[1], p[2], before) = two[p]
  BY InsideGot
<1>a. /\ Picture(first) = [width |-> w, height |-> h, pixels |-> one]
      /\ Picture(second) = [width |-> w, height |-> h, pixels |-> two]
      /\ one = [p \in Grid(w, h) |-> one[p]] /\ two = [p \in Grid(w, h) |-> two[p]]
  BY DEF Picture, Grid
<1> HIDE DEF n, order, m, one, two
<1>6. /\ f[0] = [two |-> NULL, count |-> 0]
      /\ \A k \in 0..(n - 1) : f[k + 1] = CompareStep(first, second, f[k], order[k + 1])
  BY <1>1, <1>2, <1>4 DEF Folds, Base, Step
<1> DEFINE Same(k) == one[order[k]] = two[order[k]]
           T == {k \in 0..n : f[k].count \in Nat /\ (f[k].count = 0 <=> \A j \in 1..k : Same(j))}
<1>7. 0 \in T
  BY <1>2, <1>6
<1>8. ASSUME NEW k \in 0..(n - 1), k \in T PROVE k + 1 \in T
  <2> DEFINE p == order[k + 1]
  <2>1. p \in Grid(w, h) /\ k + 1 \in 0..n /\ k \in Nat
    BY <1>2, <1>3
  <2> HIDE DEF p
  <2>2. f[k + 1].count = f[k].count + (IF one[p] = two[p] THEN 0 ELSE 1)
    <3>1. f[k + 1] = CompareStep(first, second, f[k], p)
      BY <1>6 DEF p
    <3>2. /\ BMP_GetPixelRGB(first, p[1], p[2], NULL) = one[p]
          /\ BMP_GetPixelRGB(second, p[1], p[2], f[k].two) = two[p]
      BY <1>5, <2>1
    <3> QED
      BY <3>1, <3>2 DEF CompareStep
  <2>3. f[k].count \in Nat /\ (f[k].count = 0 <=> \A j \in 1..k : Same(j))
    BY <1>8
  <2>4. Same(k + 1) <=> one[p] = two[p]
    BY DEF p
  <2> HIDE DEF Same
  <2>5. (\A j \in 1..(k + 1) : Same(j)) <=> (\A j \in 1..k : Same(j)) /\ Same(k + 1)
    <3>1. \A j : j \in 1..(k + 1) <=> j \in 1..k \/ j = k + 1
      BY <2>1
    <3> QED
      BY <3>1
  <2>6. f[k + 1].count \in Nat /\ (f[k + 1].count = 0 <=> \A j \in 1..(k + 1) : Same(j))
    <3>1. CASE one[p] = two[p]
      BY <2>2, <2>3, <2>4, <2>5, <3>1
    <3>2. CASE one[p] # two[p]
      <4>1. f[k + 1].count = f[k].count + 1
        BY <2>2, <3>2
      <4> QED
        BY <2>3, <2>4, <2>5, <3>2, <4>1
    <3> QED
      BY <3>1, <3>2
  <2> QED
    BY <2>1, <2>6
<1>9. T = 0..n
  <2> HIDE DEF T
  <2>1. T \in SUBSET (0..n)
    BY DEF T
  <2> QED
    BY <1>2, <1>7, <1>8, <2>1, FromZero
<1>10. Incorrect = 0 <=> \A j \in 1..n : Same(j)
  <2> HIDE DEF Same
  <2>1. n \in T
    <3> HIDE DEF T
    <3> QED
      BY <1>2, <1>9
  <2> QED
    BY <1>1, <2>1
<1>11. (\A j \in 1..n : Same(j)) <=> \A p \in Grid(w, h) : one[p] = two[p]
  BY <1>3
<1>12. one = two <=> \A p \in Grid(w, h) : one[p] = two[p]
  BY <1>a
<1>13. Picture(first) = Picture(second) <=> one = two
  BY <1>a DEF one, two
<1> QED
  BY <1>10, <1>11, <1>12, <1>13

----------------------------------------------------------------------------
(* The average of bytes is a byte. *)

One(d) == CHOOSE q \in d : TRUE

SumStep(px, k, g, d) == IF d = {} THEN 0 ELSE g[d \ {One(d)}] + px[One(d)][k]

Summed(px, k, g, D) == g = [d \in D |-> SumStep(px, k, g, d)]

(* The subsets with at most a elements. *)
Few(S, a) == {d \in SUBSET S : Cardinality(d) <= a}

(* The sets of at most a elements, up to all subsets. *)
LEMMA FewAre ==
    ASSUME NEW S, IsFiniteSet(S)
    PROVE  /\ Cardinality(S) \in Nat
           /\ Few(S, Cardinality(S)) = SUBSET S
           /\ Few(S, 0) = {{}}
           /\ \A a \in Nat : Few(S, a) \subseteq Few(S, a + 1)
           /\ \A a \in Nat : \A d \in Few(S, a + 1) :
                d # {} => /\ One(d) \in d /\ d \ {One(d)} \in Few(S, a)
                          /\ Cardinality(d \ {One(d)}) \in Nat
                          /\ Cardinality(d) = Cardinality(d \ {One(d)}) + 1
<1>1. Cardinality(S) \in Nat
  BY FS_CardinalityType
<1>2. \A d \in SUBSET S : IsFiniteSet(d) /\ Cardinality(d) \in Nat /\ Cardinality(d) <= Cardinality(S)
  BY FS_Subset, FS_CardinalityType
<1>3. Few(S, Cardinality(S)) = SUBSET S
  BY <1>2 DEF Few
<1>4. Few(S, 0) = {{}}
  <2>1. \A d \in SUBSET S : Cardinality(d) <= 0 <=> d = {}
    <3>1. \A d \in SUBSET S : Cardinality(d) = 0 <=> d = {}
      BY <1>2, FS_EmptySet
    <3> QED
      BY <1>2, <3>1
  <2> QED
    BY <2>1 DEF Few
<1>5. \A a \in Nat : Few(S, a) \subseteq Few(S, a + 1)
  BY <1>2 DEF Few
<1>6. ASSUME NEW a \in Nat, NEW d \in Few(S, a + 1), d # {}
      PROVE  /\ One(d) \in d /\ d \ {One(d)} \in Few(S, a)
             /\ Cardinality(d \ {One(d)}) \in Nat
             /\ Cardinality(d) = Cardinality(d \ {One(d)}) + 1
  <2>1. One(d) \in d
    BY <1>6 DEF One
  <2>2. d \in SUBSET S /\ IsFiniteSet(d) /\ Cardinality(d) \in Nat /\ Cardinality(d) <= a + 1
    BY <1>2 DEF Few
  <2>3. Cardinality(d \ {One(d)}) = Cardinality(d) - 1
    BY <2>1, <2>2, FS_RemoveElement
  <2>4. d \ {One(d)} \in SUBSET S
    BY <2>2
  <2>5. Cardinality(d \ {One(d)}) \in Nat
    BY <1>2, <2>4
  <2> QED
    BY <2>1, <2>2, <2>3, <2>4, <2>5 DEF Few
<1> QED
  BY <1>1, <1>3, <1>4, <1>5, <1>6

(* The sum over a set, one element at a time. *)
LEMMA SummedIs ==
    ASSUME NEW px, NEW k, NEW g, NEW D, Summed(px, k, g, D)
    PROVE  DOMAIN g = D /\ \A d \in D : g[d] = SumStep(px, k, g, d)
<1> DEFINE r == [d \in D |-> SumStep(px, k, g, d)]
<1>1. g = r
  BY DEF Summed
<1>2. DOMAIN r = D /\ \A d \in D : r[d] = SumStep(px, k, g, d)
  OBVIOUS
<1> HIDE DEF r
<1> QED
  BY <1>1, <1>2

(* The sum that the library defines exists, *)
LEMMA SumExists ==
    ASSUME NEW S, IsFiniteSet(S), NEW px, NEW k
    PROVE  \E g : Summed(px, k, g, SUBSET S)
<1> DEFINE n == Cardinality(S)
           T == {a \in 0..n : \E g : Summed(px, k, g, Few(S, a))}
<1>1. n \in Nat
  BY FewAre
<1>2. 0 \in T
  <2> DEFINE g == [d \in {{}} |-> 0]
  <2>1. \A d \in {{}} : SumStep(px, k, g, d) = 0
    BY DEF SumStep
  <2>2. Summed(px, k, g, {{}})
    BY <2>1 DEF Summed
  <2> HIDE DEF g
  <2>3. Few(S, 0) = {{}} /\ 0 \in 0..n
    BY <1>1, FewAre
  <2>4. Summed(px, k, g, Few(S, 0))
    BY <2>2, <2>3
  <2> HIDE DEF n
  <2> QED
    BY <2>3, <2>4
<1> HIDE DEF n
<1>3. ASSUME NEW a \in 0..(n - 1), a \in T PROVE a + 1 \in T
  <2>0. a \in Nat /\ a + 1 \in 0..n
    BY <1>1
  <2>1. PICK g : Summed(px, k, g, Few(S, a))
    BY <1>3
  <2> DEFINE E == Few(S, a + 1)
             h == [d \in E |-> SumStep(px, k, g, d)]
  <2>2. \A d \in Few(S, a) : g[d] = SumStep(px, k, g, d)
    BY <2>1, SummedIs
  <2>3. Few(S, a) \subseteq E /\ \A d \in E : d # {} => d \ {One(d)} \in Few(S, a)
    BY <2>0, FewAre
  <2> HIDE DEF E
  <2>4. h = [d \in E |-> h[d]] /\ \A d \in E : h[d] = SumStep(px, k, g, d)
    OBVIOUS
  <2> HIDE DEF h
  <2>5. \A d \in Few(S, a) : h[d] = g[d]
    BY <2>2, <2>3, <2>4
  <2>6. \A d \in E : SumStep(px, k, h, d) = SumStep(px, k, g, d)
    BY <2>3, <2>5 DEF SumStep
  <2>7. Summed(px, k, h, E)
    BY <2>4, <2>6 DEF Summed
  <2> QED
    BY <2>0, <2>7 DEF E
<1>4. T = 0..n
  <2> HIDE DEF T
  <2>1. T \in SUBSET (0..n)
    BY DEF T
  <2> QED
    BY <1>1, <1>2, <1>3, <2>1, FromZero
<1>5. \E g : Summed(px, k, g, Few(S, n))
  <2>1. n \in T
    <3> HIDE DEF T
    <3> QED
      BY <1>1, <1>4
  <2> QED
    BY <2>1
<1>6. Few(S, n) = SUBSET S
  BY FewAre DEF n
<1> QED
  BY <1>5, <1>6

(* and is at most 255 for each pixel. *)
LEMMA SumBound ==
    ASSUME NEW S, IsFiniteSet(S), NEW px, NEW k, \A q \in S : px[q][k] \in Bytes,
           NEW g, Summed(px, k, g, SUBSET S)
    PROVE  g[S] \in Nat /\ g[S] <= 255 * Cardinality(S)
<1> DEFINE n == Cardinality(S)
           Good(d) == g[d] \in Nat /\ g[d] <= 255 * Cardinality(d)
           T == {a \in 0..n : \A d \in Few(S, a) : Good(d)}
<1>1. n \in Nat
  BY FewAre
<1>0. \A d \in SUBSET S : g[d] = SumStep(px, k, g, d)
  BY SummedIs
<1>2. 0 \in T
  <2>1. Few(S, 0) = {{}}
    BY FewAre
  <2>2. g[{}] = 0
    BY <1>0 DEF SumStep
  <2>3. Cardinality({}) = 0
    BY FS_EmptySet
  <2>4. \A d \in Few(S, 0) : Good(d)
    <3>1. g[{}] \in Nat /\ g[{}] <= 255 * 0
      BY <2>2
    <3>2. Good({})
      BY <2>3, <3>1
    <3> HIDE DEF Good
    <3> QED
      BY <2>1, <3>2
  <2>5. 0 \in 0..n
    BY <1>1
  <2> HIDE DEF n, Good
  <2> QED
    BY <2>4, <2>5
<1>3. ASSUME NEW a \in 0..(n - 1), a \in T PROVE a + 1 \in T
  <2>0. a \in Nat /\ a + 1 \in 0..n
    BY <1>1
  <2>1. ASSUME NEW d \in Few(S, a + 1) PROVE Good(d)
    <3>1. CASE d = {}
      <4>1. {} \in Few(S, a)
        <5>1. Cardinality({}) = 0
          BY FS_EmptySet
        <5> QED
          BY <2>0, <5>1 DEF Few
      <4> QED
        BY <1>3, <3>1, <4>1
    <3>2. CASE d # {}
      <4> DEFINE e == d \ {One(d)}  q == One(d)
      <4>1. q \in d /\ e \in Few(S, a) /\ Cardinality(e) \in Nat /\ Cardinality(d) = Cardinality(e) + 1
        BY <2>0, <3>2, FewAre
      <4>2. d \in SUBSET S
        BY DEF Few
      <4>3. Good(e)
        BY <1>3, <4>1
      <4>4. g[d] = g[e] + px[q][k]
        BY <1>0, <3>2, <4>2 DEF SumStep
      <4>5. px[q][k] \in 0..255
        BY <4>1, <4>2 DEF Bytes
      <4> HIDE DEF e, q
      <4> QED
        BY <4>1, <4>3, <4>4, <4>5, SMTT(30)
    <3> QED
      BY <3>1, <3>2
  <2> HIDE DEF Good
  <2> QED
    BY <2>0, <2>1
<1>4. T = 0..n
  <2> HIDE DEF T
  <2>1. T \in SUBSET (0..n)
    BY DEF T
  <2> QED
    BY <1>1, <1>2, <1>3, <2>1, FromZero
<1>5. \A d \in Few(S, n) : Good(d)
  <2> HIDE DEF Good
  <2>1. n \in T
    <3> HIDE DEF T
    <3> QED
      BY <1>1, <1>4
  <2> QED
    BY <2>1
<1>6. S \in Few(S, n)
  BY FewAre
<1> QED
  BY <1>5, <1>6

(* So an average of colours is a colour. *)
LEMMA AverageIsColour ==
    ASSUME NEW w \in Nat \ {0}, NEW h \in Nat \ {0}, NEW pixels \in [Grid(w, h) -> Colours],
           NEW box \in (SUBSET Grid(w, h)) \ {{}}
    PROVE  Sequential!Average(PictureOf(w, h, pixels), box) \in Colours
<1> DEFINE pic == PictureOf(w, h, pixels)
           F(k, g) == g = [d \in SUBSET box |->
                             IF d = {} THEN 0 ELSE g[d \ {One(d)}] + pic.pixels[One(d)][k]]
           c(k) == CHOOSE g : F(k, g)
           mean(k) == c(k)[box] \div Cardinality(box)
<1>1. IsFiniteSet(box) /\ Cardinality(box) \in Nat \ {0}
  <2>1. IsFiniteSet(0..(w - 1)) /\ IsFiniteSet(0..(h - 1))
    BY FS_Interval
  <2>2. IsFiniteSet(Grid(w, h))
    BY <2>1, FS_Product DEF Grid
  <2>3. IsFiniteSet(box)
    BY <2>2, FS_Subset
  <2> QED
    BY <2>3, FS_CardinalityType, FS_EmptySet
<1>2. Sequential!Cardinality(box) = Cardinality(box)
  BY Zenon DEF Sequential!Cardinality, Cardinality
<1>3. Sequential!Average(pic, box) = <<mean(1), mean(2), mean(3)>>
  <2> HIDE DEF pic
  <2> QED
    BY <1>2, Zenon DEF Sequential!Average, Sequential!FoldSet, Sequential!MapThenFoldSet, One
<1>4. pic.pixels = pixels
  BY DEF PictureOf
<1>5. ASSUME NEW k \in 1..3 PROVE mean(k) \in Bytes
  <2> HIDE DEF pic
  <2>1. \A g : F(k, g) <=> Summed(pixels, k, g, SUBSET box)
    BY <1>4 DEF Summed, SumStep
  <2> HIDE DEF F
  <2>2. F(k, c(k))
    <3>1. \E g : F(k, g)
      BY <1>1, <2>1, SumExists
    <3> QED
      BY <3>1
  <2>3. \A q \in box : pixels[q][k] \in Bytes
    <3> TAKE q \in box
    <3>1. pixels[q] \in Bytes \X Bytes \X Bytes
      BY ProgramsAssumption
    <3>2. k = 1 \/ k = 2 \/ k = 3
      OBVIOUS
    <3> QED
      BY <3>1, <3>2
  <2> DEFINE g == c(k)
  <2>4. Summed(pixels, k, g, SUBSET box)
    <3> HIDE DEF c
    <3> QED
      BY <2>1, <2>2
  <2> HIDE DEF g
  <2>5. g[box] \in Nat /\ g[box] <= 255 * Cardinality(box)
    BY <1>1, <2>3, <2>4, SumBound
  <2>6. g[box] \div Cardinality(box) \in 0..255
    <3> DEFINE t == g[box]  n == Cardinality(box)
    <3>1. t \in Nat /\ n \in Nat \ {0} /\ t <= 255 * n
      BY <1>1, <2>5
    <3> HIDE DEF t, n
    <3>2. t \div n \in 0..255
      <4>1. t \div n \in Nat /\ (t \div n) * n <= t
        BY <3>1
      <4>2. ASSUME t \div n >= 256 PROVE FALSE
        <5>1. 256 * n <= (t \div n) * n
          BY <3>1, <4>1, <4>2, ProductGrows
        <5> QED
          BY <3>1, <4>1, <5>1
      <4> QED
        BY <4>1, <4>2
    <3> QED
      BY <3>2 DEF t, n
  <2> QED
    BY <2>6 DEF g, Bytes
<1> HIDE DEF mean, pic
<1>6. <<mean(1), mean(2), mean(3)>> \in Bytes \X Bytes \X Bytes
  BY <1>5
<1> QED
  BY <1>3, <1>6, ProgramsAssumption DEF pic

(* The blurred picture, of any picture in bytes. *)
LEMMA BlurredIs ==
    ASSUME NEW w \in Nat \ {0}, NEW h \in Nat \ {0}, NEW pixels \in [Grid(w, h) -> Colours],
           NEW size \in Nat
    PROVE  Sequential!Blurred(PictureOf(w, h, pixels), size) \in [Grid(w, h) -> Colours]
<1> DEFINE pic == PictureOf(w, h, pixels)
<1>1. pic.width = w /\ pic.height = h
  BY DEF PictureOf
<1>2. Sequential!Pixels(pic) = Grid(w, h)
  BY <1>1 DEF Sequential!Pixels, Grid
<1>3. ASSUME NEW p \in Grid(w, h)
      PROVE  Sequential!Box(pic, size, p) \in (SUBSET Grid(w, h)) \ {{}}
  <2>1. p[1] \in Nat /\ p[2] \in Nat
    BY GridIs
  <2>2. p[1] \in (p[1] - size)..(p[1] + size) /\ p[2] \in (p[2] - size)..(p[2] + size)
    BY <2>1
  <2> HIDE DEF pic
  <2>3. p \in Sequential!Box(pic, size, p)
    BY <1>2, <2>2 DEF Sequential!Box
  <2> QED
    BY <1>2, <2>3 DEF Sequential!Box
<1>4. ASSUME NEW p \in Grid(w, h)
      PROVE  Sequential!Average(pic, Sequential!Box(pic, size, p)) \in Colours
  BY <1>3, AverageIsColour
<1> QED
  <2> HIDE DEF pic
  <2>1. Sequential!Blurred(pic, size) \in [Grid(w, h) -> Colours]
    BY <1>2, <1>4 DEF Sequential!Blurred
  <2> QED
    BY <2>1 DEF pic

----------------------------------------------------------------------------
(* Sequences joined *)

Joined(q, g, n) == g = [k \in 1..n |-> IF k = 1 THEN q[k] ELSE g[k - 1] \o q[k]]

(* The prefixes of a sequence of sequences can be joined, *)
LEMMA JoinedExists ==
    ASSUME NEW q, NEW n \in Nat
    PROVE  \E g : Joined(q, g, n)
<1> DEFINE T == {k \in 0..n : \E g : Joined(q, g, k)}
<1>1. 0 \in T
  <2>1. Joined(q, << >>, 0)
    BY DEF Joined
  <2> QED
    BY <2>1
<1>2. ASSUME NEW k \in 0..(n - 1), k \in T PROVE k + 1 \in T
  <2>1. PICK g : Joined(q, g, k)
    BY <1>2
  <2> DEFINE h == [l \in 1..(k + 1) |-> IF l = 1 THEN q[l] ELSE g[l - 1] \o q[l]]
  <2>a. \A l \in 1..k : g[l] = IF l = 1 THEN q[l] ELSE g[l - 1] \o q[l]
    <3> DEFINE r == [l \in 1..k |-> IF l = 1 THEN q[l] ELSE g[l - 1] \o q[l]]
    <3>1. g = r
      BY <2>1 DEF Joined
    <3>2. \A l \in 1..k : r[l] = IF l = 1 THEN q[l] ELSE g[l - 1] \o q[l]
      OBVIOUS
    <3> HIDE DEF r
    <3> QED
      BY <3>1, <3>2
  <2>b. \A l \in 1..(k + 1) : h[l] = IF l = 1 THEN q[l] ELSE g[l - 1] \o q[l]
    OBVIOUS
  <2>2. \A l \in 1..k : h[l] = g[l]
    <3> HIDE DEF h
    <3> QED
      BY <2>a, <2>b
  <2>3. \A l \in 1..(k + 1) : h[l] = IF l = 1 THEN q[l] ELSE h[l - 1] \o q[l]
    <3> HIDE DEF h
    <3> SUFFICES ASSUME NEW l \in 1..(k + 1), l # 1 PROVE h[l - 1] = g[l - 1]
      BY <2>b
    <3> QED
      BY <2>2
  <2>4. h = [l \in 1..(k + 1) |-> h[l]]
    OBVIOUS
  <2>5. Joined(q, h, k + 1)
    <3> HIDE DEF h
    <3> QED
      BY <2>3, <2>4 DEF Joined
  <2> QED
    BY <2>5
<1>3. T = 0..n
  <2> HIDE DEF T
  <2>1. T \in SUBSET (0..n)
    BY DEF T
  <2> QED
    BY <1>1, <1>2, <2>1, FromZero
<1> QED
  BY <1>3

(* and FlattenSeq is the last of them. *)
LEMMA FlattenParts ==
    ASSUME NEW q, Len(q) \in Nat \ {0}
    PROVE  \E g : Joined(q, g, Len(q)) /\ Format!FlattenSeq(q) = g[Len(q)]
<1> DEFINE f == CHOOSE g : g = [k \in 1..Len(q) |-> IF k = 1 THEN q[k] ELSE g[k - 1] \o q[k]]
<1>1. Format!FlattenSeq(q) = f[Len(q)]
  BY DEF Format!FlattenSeq
<1>2. Joined(q, f, Len(q))
  BY JoinedExists DEF Joined
<1> QED
  BY <1>1, <1>2

IsJoined(u, s, t, m, n) ==
    /\ u \in Seq(Bytes) /\ Len(u) = m + n
    /\ \A d \in 1..m : u[d] = s[d]
    /\ \A d \in 1..n : u[m + d] = t[d]

(* Two sequences joined. *)
LEMMA Joining ==
    ASSUME NEW m \in Nat, NEW n \in Nat, NEW s \in Seq(Bytes), NEW t \in Seq(Bytes),
           Len(s) = m, Len(t) = n
    PROVE  IsJoined(s \o t, s, t, m, n)
  BY DEF IsJoined

Even(q, n, c) == Len(q) = n /\ \A k \in 1..n : q[k] \in Seq(Bytes) /\ Len(q[k]) = c

(* Of sequences that are equally long. *)
LEMMA FlattenEven ==
    ASSUME NEW n \in Nat \ {0}, NEW c \in Nat, NEW q, Even(q, n, c)
    PROVE  /\ Format!FlattenSeq(q) \in Seq(Bytes) /\ Len(Format!FlattenSeq(q)) = n * c
           /\ \A k \in 1..n, l \in 1..c : Format!FlattenSeq(q)[(k - 1) * c + l] = q[k][l]
<1> USE DEF Even
<1>1. PICK g : Joined(q, g, n) /\ Format!FlattenSeq(q) = g[n]
  BY FlattenParts
<1>2. \A k \in 1..n : g[k] = IF k = 1 THEN q[k] ELSE g[k - 1] \o q[k]
  <2> DEFINE r == [k \in 1..n |-> IF k = 1 THEN q[k] ELSE g[k - 1] \o q[k]]
  <2>1. g = r
    BY <1>1 DEF Joined
  <2>2. \A k \in 1..n : r[k] = IF k = 1 THEN q[k] ELSE g[k - 1] \o q[k]
    OBVIOUS
  <2> HIDE DEF r
  <2> QED
    BY <2>1, <2>2
<1> DEFINE Good(a) == /\ g[a] \in Seq(Bytes) /\ Len(g[a]) = a * c
                      /\ \A k \in 1..a, l \in 1..c : g[a][(k - 1) * c + l] = q[k][l]
           T == {a \in 0..n : a = 0 \/ Good(a)}
<1>3. 0 \in T
  OBVIOUS
<1>4. ASSUME NEW a \in 0..(n - 1), a \in T PROVE a + 1 \in T
  <2>0. a \in Nat /\ a + 1 \in 1..n /\ a + 1 \in 0..n
    OBVIOUS
  <2>1. CASE a = 0
    <3>1. g[a + 1] = q[a + 1] /\ a + 1 = 1
      BY <1>2, <2>0, <2>1
    <3>2. g[1] = q[1] /\ 1 \in 1..n
      BY <2>0, <3>1
    <3>3. Good(1)
      <4>1. Len(g[1]) = 1 * c /\ g[1] \in Seq(Bytes)
        BY <3>2
      <4>2. ASSUME NEW k \in 1..1, NEW l \in 1..c PROVE g[1][(k - 1) * c + l] = q[k][l]
        <5>1. k = 1 /\ (k - 1) * c + l = l
          OBVIOUS
        <5> QED
          BY <3>2, <5>1
      <4> QED
        BY <4>1, <4>2
    <3> HIDE DEF Good
    <3> QED
      BY <2>0, <3>1, <3>3
  <2>2. CASE a # 0
    <3>1. g[a + 1] = g[a] \o q[a + 1]
      <4>1. g[a + 1] = IF a + 1 = 1 THEN q[a + 1] ELSE g[(a + 1) - 1] \o q[a + 1]
        BY <1>2, <2>0
      <4>2. (a + 1) - 1 = a /\ a + 1 # 1
        BY <2>0, <2>2
      <4> QED
        BY <4>1, <4>2
    <3> DEFINE s == g[a]  t == q[a + 1]  m == a * c
    <3>2. /\ s \in Seq(Bytes) /\ Len(s) = m
          /\ \A k \in 1..a, l \in 1..c : s[(k - 1) * c + l] = q[k][l]
      BY <1>4, <2>2
    <3>3. t \in Seq(Bytes) /\ Len(t) = c /\ m \in Nat
      BY <2>0
    <3>4. (a + 1) * c = m + c
      OBVIOUS
    <3>5. ASSUME NEW k \in 1..a, NEW l \in 1..c PROVE (k - 1) * c + l \in 1..m
      <4>1. k * c <= a * c /\ k * c = (k - 1) * c + c /\ 0 * c <= (k - 1) * c /\ 0 * c = 0
        BY <2>0, ProductGrows
      <4>2. (k - 1) * c \in Int /\ k * c \in Int /\ a * c \in Int
        BY <2>0
      <4> QED
        BY <4>1, <4>2
    <3>6. \A k \in 1..(a + 1) : k \in 1..a \/ (k = a + 1 /\ (k - 1) * c = m)
      BY <2>0
    <3> HIDE DEF s, t, m
    <3>7. /\ s \o t \in Seq(Bytes) /\ Len(s \o t) = m + c
          /\ \A d \in 1..m : (s \o t)[d] = s[d]
          /\ \A d \in 1..c : (s \o t)[m + d] = t[d]
      <4>1. s \in Seq(Bytes) /\ t \in Seq(Bytes) /\ Len(s) = m /\ Len(t) = c /\ m \in Nat
        BY <3>2, <3>3
      <4>2. IsJoined(s \o t, s, t, m, c)
        BY <4>1, Joining
      <4> DEFINE u == s \o t
      <4> HIDE DEF u
      <4>3. /\ u \in Seq(Bytes) /\ Len(u) = m + c
            /\ \A d \in 1..m : u[d] = s[d]
            /\ \A d \in 1..c : u[m + d] = t[d]
        BY <4>2 DEF IsJoined, u
      <4> QED
        BY <4>3 DEF u
    <3> DEFINE u == s \o t
    <3>8. u = g[a + 1]
      BY <3>1 DEF s, t
    <3> HIDE DEF u
    <3>9. ASSUME NEW k \in 1..(a + 1), NEW l \in 1..c PROVE u[(k - 1) * c + l] = q[k][l]
      <4>1. CASE k \in 1..a
        <5>1. (k - 1) * c + l \in 1..m
          BY <3>5, <4>1
        <5> QED
          BY <3>2, <3>7, <4>1, <5>1 DEF u
      <4>2. CASE k = a + 1 /\ (k - 1) * c = m
        BY <3>7, <4>2 DEF u, t
      <4> QED
        BY <3>6, <4>1, <4>2
    <3>10. u \in Seq(Bytes) /\ Len(u) = (a + 1) * c
      BY <3>4, <3>7 DEF u
    <3>11. Good(a + 1)
      BY <3>8, <3>9, <3>10
    <3> HIDE DEF Good
    <3> QED
      BY <2>0, <3>11
  <2> QED
    BY <2>1, <2>2
<1>5. T = 0..n
  <2> HIDE DEF T
  <2>1. T \in SUBSET (0..n)
    BY DEF T
  <2> QED
    BY <1>3, <1>4, <2>1, FromZero
<1>6. Good(n)
  <2> HIDE DEF Good
  <2>1. n \in T
    <3> HIDE DEF T
    <3> QED
      BY <1>5
  <2> QED
    BY <2>1
<1> QED
  BY <1>1, <1>6, SMTT(30)

----------------------------------------------------------------------------
(* The reference's header is the one that is written. *)

Prefix(u, bytes, n) ==
    u \in Seq(Bytes) /\ Len(u) = n /\ \A d \in 1..n : u[d] = bytes[d]

Segment(s, bytes, m, n) ==
    s \in Seq(Bytes) /\ Len(s) = n /\ \A d \in 1..n : s[d] = bytes[m + d]

(* A prefix and the segment that follows make a longer prefix. *)
LEMMA PrefixGrows ==
    ASSUME NEW bytes, NEW m \in Nat, NEW n \in Nat, NEW u, NEW s,
           Prefix(u, bytes, m), Segment(s, bytes, m, n)
    PROVE  Prefix(u \o s, bytes, m + n)
<1>1. u \in Seq(Bytes) /\ s \in Seq(Bytes) /\ Len(u) = m /\ Len(s) = n
  BY DEF Prefix, Segment
<1>2. IsJoined(u \o s, u, s, m, n)
  BY <1>1, Joining
<1> DEFINE v == u \o s
<1> HIDE DEF v
<1>3. /\ v \in Seq(Bytes) /\ Len(v) = m + n
      /\ \A d \in 1..m : v[d] = bytes[d]
      /\ \A d \in 1..n : v[m + d] = bytes[m + d]
  BY <1>2 DEF IsJoined, v, Prefix, Segment
<1>4. ASSUME NEW d \in 1..(m + n) PROVE v[d] = bytes[d]
  <2>1. CASE d \in 1..m
    BY <1>3, <2>1
  <2>2. CASE d \notin 1..m
    <3> DEFINE e == d - m
    <3>1. e \in 1..n /\ d = m + e
      BY <2>2
    <3> HIDE DEF e
    <3>2. v[m + e] = bytes[m + e]
      BY <1>3, <3>1, Zenon
    <3> QED
      BY <3>1, <3>2, Zenon
  <2> QED
    BY <2>1, <2>2
<1> QED
  BY <1>3, <1>4 DEF Prefix, v

(* A prefix as long as the whole is the whole. *)
LEMMA PrefixIsAll ==
    ASSUME NEW bytes \in Seq(Bytes), NEW u, Prefix(u, bytes, Len(bytes)) PROVE u = bytes
<1>1. u \in Seq(Bytes) /\ Len(u) = Len(bytes) /\ \A d \in 1..Len(bytes) : u[d] = bytes[d]
  BY DEF Prefix
<1> QED
  BY <1>1

(* The bytes of a field, and of a number in the reference. *)
LEMMA FieldBytes ==
    ASSUME NEW header \in [DOMAIN Place -> Nat], NEW f \in DOMAIN Place, NEW k \in 1..Size(f)
    PROVE  WriteHeader(header)[Place[f] + k] = Little(header[f], k - 1)
<1>1. Size(f) \in {2, 4} /\ Place[f] \in Nat
  BY Fields, PlacesApart
<1>2. k - 1 \in 0..(Size(f) - 1) /\ Place[f] + (k - 1) + 1 = Place[f] + k
  BY <1>1
<1> QED
  BY <1>2, HeaderByte

(* The reference writes a number as WriteUINT does. *)
LEMMA LongIs ==
    ASSUME NEW n, Fits4(n)
    PROVE  /\ Format!Long(n) \in Seq(Bytes) /\ Len(Format!Long(n)) = 4
           /\ \A k \in 1..4 : Format!Long(n)[k] = Little(n, k - 1)
<1>1. n \in Nat /\ n \div (256 * 256 * 256) < 256
  BY DEF Fits4, Weight
<1> DEFINE a == n % 256  b == (n \div 256) % 256  c == (n \div (256 * 256)) % 256
           d == n \div (256 * 256 * 256)
<1>2. a \in Bytes /\ b \in Bytes /\ c \in Bytes /\ d \in Bytes
  BY <1>1 DEF Bytes
<1>3. Format!Long(n) = <<a, b, c, d>>
  BY DEF Format!Long
<1>4. d % 256 = d
  BY <1>1
<1>5. Little(n, 0) = a /\ Little(n, 1) = b /\ Little(n, 2) = c /\ Little(n, 3) = d
  <2>1. n \div 1 = n
    BY <1>1
  <2> QED
    BY <1>4, <2>1 DEF Little, Weight
<1> HIDE DEF a, b, c, d
<1>6. \A k \in 1..4 : <<a, b, c, d>>[k] = Little(n, k - 1)
  <2> TAKE k \in 1..4
  <2>1. (k = 1 /\ k - 1 = 0) \/ (k = 2 /\ k - 1 = 1) \/ (k = 3 /\ k - 1 = 2) \/ (k = 4 /\ k - 1 = 3)
    OBVIOUS
  <2> QED
    BY <1>5, <2>1
<1> QED
  BY <1>2, <1>3, <1>6

(* The bytes of 0. *)
LEMMA ZeroBytes == \A k \in 0..3 : Little(0, k) = 0
  BY DEF Little, Weight

(* The reference's zeros. *)
LEMMA PadIs ==
    ASSUME NEW n \in Nat
    PROVE  Format!Pad(n) \in Seq(Bytes) /\ Len(Format!Pad(n)) = n /\ \A k \in 1..n : Format!Pad(n)[k] = 0
<1>1. 0 \in Bytes
  BY DEF Bytes
<1> QED
  BY <1>1 DEF Format!Pad

(* A number, and zeros, in the header. *)
LEMMA LongSegment ==
    ASSUME NEW header \in [DOMAIN Place -> Nat], NEW f \in DOMAIN Place, f \notin Short,
           Fits4(header[f])
    PROVE  Segment(Format!Long(header[f]), WriteHeader(header), Place[f], 4)
<1>1. Size(f) = 4
  BY Fields
<1>2. \A k \in 1..4 : WriteHeader(header)[Place[f] + k] = Little(header[f], k - 1)
  BY <1>1, FieldBytes
<1> QED
  BY <1>2, LongIs DEF Segment

(* A field that is 0 is written as zeros. *)
LEMMA ZeroField ==
    ASSUME NEW header \in [DOMAIN Place -> Nat], NEW f \in DOMAIN Place, header[f] = 0,
           NEW k \in 1..Size(f)
    PROVE  WriteHeader(header)[Place[f] + k] = 0
<1>1. k - 1 \in 0..3
  BY Fields
<1> QED
  BY <1>1, FieldBytes, ZeroBytes

(* The reference's header, field after field, is the one that is written. *)
LEMMA HeaderOf ==
    ASSUME NEW w, NEW h, Fits(w, h), NEW d \in Depths, d = 8 => PaletteSize <= 1024
    PROVE  LET n == h * Stride(w, d) IN
           <<66, 77>> \o Format!Long(Start(d) + n) \o Format!Pad(4) \o Format!Long(Start(d))
             \o Format!Long(40) \o Format!Long(w) \o Format!Long(h) \o <<1, 0, d, 0>>
             \o Format!Pad(4) \o Format!Long(n) \o Format!Pad(16)
           = WriteHeader(NewHeader(w, h, d))
<1> DEFINE n == h * Stride(w, d)
           start == Start(d)
           header == NewHeader(w, h, d)
           bytes == WriteHeader(header)
           u1 == <<66, 77>>
           u2 == u1 \o Format!Long(start + n)
           u3 == u2 \o Format!Pad(4)
           u4 == u3 \o Format!Long(start)
           u5 == u4 \o Format!Long(40)
           u6 == u5 \o Format!Long(w)
           u7 == u6 \o Format!Long(h)
           u8 == u7 \o <<1, 0, d, 0>>
           u9 == u8 \o Format!Pad(4)
           u10 == u9 \o Format!Long(n)
           u11 == u10 \o Format!Pad(16)
<1>0. w \in Nat \ {0} /\ h \in Nat \ {0}
  BY DEF Fits
<1>1. header \in [DOMAIN Place -> Nat]
      /\ \A f \in DOMAIN Place : IF f \in Short THEN Fits2(header[f]) ELSE Fits4(header[f])
  BY HeaderFitsOf
<1>2. bytes \in Seq(Bytes) /\ Len(bytes) = 54
  BY <1>1, HeaderBytes DEF HeaderLength
<1>3. /\ header["Magic"] = 19778 /\ header["HeaderSize"] = 40 /\ header["Planes"] = 1
      /\ header["Width"] = w /\ header["Height"] = h /\ header["BitsPerPixel"] = d
      /\ header["ImageDataSize"] = n /\ header["FileSize"] = start + n /\ header["DataOffset"] = start
      /\ \A f \in {"Reserved1", "Reserved2", "CompressionType", "HPixelsPerMeter",
                   "VPixelsPerMeter", "ColorsUsed", "ColorsRequired"} : header[f] = 0
  BY <1>0, NewHeaderOf
<1> HIDE DEF header, n, start
<1>4. \A f \in DOMAIN Place : f \notin Short => Segment(Format!Long(header[f]), bytes, Place[f], 4)
  BY <1>1, LongSegment
<1>5. \A f \in DOMAIN Place : header[f] = 0 => \A k \in 1..Size(f) : bytes[Place[f] + k] = 0
  BY <1>1, ZeroField
<1>6. \A f \in DOMAIN Place, k \in 1..2 : f \in Short => bytes[Place[f] + k] = Little(header[f], k - 1)
  <2>1. \A f \in DOMAIN Place : f \in Short => Size(f) = 2
    BY Fields
  <2> QED
    BY <1>1, <2>1, FieldBytes
<1> HIDE DEF bytes, u1, u2, u3, u4, u5, u6, u7, u8, u9, u10, u11
<1>7. /\ Segment(Format!Long(start + n), bytes, 2, 4) /\ Segment(Format!Long(start), bytes, 10, 4)
      /\ Segment(Format!Long(40), bytes, 14, 4) /\ Segment(Format!Long(w), bytes, 18, 4)
      /\ Segment(Format!Long(h), bytes, 22, 4) /\ Segment(Format!Long(n), bytes, 34, 4)
  BY <1>3, <1>4, Fields, Places DEF Short
<1>8. /\ bytes[0 + 1] = Little(19778, 1 - 1) /\ bytes[0 + 2] = Little(19778, 2 - 1)
      /\ bytes[26 + 1] = Little(1, 1 - 1) /\ bytes[26 + 2] = Little(1, 2 - 1)
      /\ bytes[28 + 1] = Little(d, 1 - 1) /\ bytes[28 + 2] = Little(d, 2 - 1)
  <2>1. 1 \in 1..2 /\ 2 \in 1..2
    OBVIOUS
  <2>2. /\ {"Magic", "Planes", "BitsPerPixel"} \subseteq DOMAIN Place \cap Short
        /\ Place["Magic"] = 0 /\ Place["Planes"] = 26 /\ Place["BitsPerPixel"] = 28
    BY Fields, Places DEF Short
  <2> QED
    BY <1>3, <1>6, <2>1, <2>2
<1>9. /\ Little(19778, 0) = 66 /\ Little(19778, 1) = 77 /\ Little(1, 0) = 1 /\ Little(1, 1) = 0
      /\ Little(d, 0) = d /\ Little(d, 1) = 0
  BY DEF Little, Weight, Depths
<1>10. /\ bytes[1] = 66 /\ bytes[2] = 77 /\ bytes[27] = 1 /\ bytes[28] = 0
       /\ bytes[29] = d /\ bytes[30] = 0
  BY <1>8, <1>9
<1>11. Segment(<<1, 0, d, 0>>, bytes, 26, 4)
  <2>1. <<1, 0, d, 0>> \in Seq(Bytes)
    BY DEF Bytes, Depths
  <2>2. ASSUME NEW e \in 1..4 PROVE <<1, 0, d, 0>>[e] = bytes[26 + e]
    <3>1. (e = 1 /\ 26 + e = 27) \/ (e = 2 /\ 26 + e = 28) \/ (e = 3 /\ 26 + e = 29)
          \/ (e = 4 /\ 26 + e = 30)
      OBVIOUS
    <3> QED
      BY <1>10, <3>1
  <2> QED
    BY <2>1, <2>2 DEF Segment
<1>12. ASSUME NEW m \in Nat, NEW c \in Nat, \A e \in 1..c : bytes[m + e] = 0
       PROVE  Segment(Format!Pad(c), bytes, m, c)
  BY <1>12, PadIs DEF Segment
<1>13. /\ \A e \in 1..4 : bytes[6 + e] = 0
       /\ \A e \in 1..4 : bytes[30 + e] = 0
       /\ \A e \in 1..16 : bytes[38 + e] = 0
  <2>1. \A f \in {"Reserved1", "Reserved2"}, k \in 1..2 : bytes[Place[f] + k] = 0
    BY <1>3, <1>5, Fields DEF Short
  <2>2. \A f \in {"CompressionType", "HPixelsPerMeter", "VPixelsPerMeter", "ColorsUsed",
                  "ColorsRequired"}, k \in 1..4 : bytes[Place[f] + k] = 0
    BY <1>3, <1>5, Fields DEF Short
  <2>3. /\ \A k \in 1..2 : bytes[6 + k] = 0 /\ bytes[8 + k] = 0
        /\ \A k \in 1..4 : /\ bytes[30 + k] = 0 /\ bytes[38 + k] = 0 /\ bytes[42 + k] = 0
                           /\ bytes[46 + k] = 0 /\ bytes[50 + k] = 0
    BY <2>1, <2>2, Places
  <2>4. ASSUME NEW e \in 1..4 PROVE bytes[6 + e] = 0
    <3>1. e \in 1..2 \/ (e - 2 \in 1..2 /\ 8 + (e - 2) = 6 + e)
      OBVIOUS
    <3> QED
      BY <2>3, <3>1
  <2>5. ASSUME NEW e \in 1..16 PROVE bytes[38 + e] = 0
    <3>1. e \in 1..4 \/ (e - 4 \in 1..4 /\ 42 + (e - 4) = 38 + e)
          \/ (e - 8 \in 1..4 /\ 46 + (e - 8) = 38 + e) \/ (e - 12 \in 1..4 /\ 50 + (e - 12) = 38 + e)
      OBVIOUS
    <3> QED
      BY <2>3, <3>1
  <2> QED
    BY <2>3, <2>4, <2>5
<1>14. /\ Segment(Format!Pad(4), bytes, 6, 4) /\ Segment(Format!Pad(4), bytes, 30, 4)
       /\ Segment(Format!Pad(16), bytes, 38, 16)
  BY <1>12, <1>13
<1>15. Prefix(u1, bytes, 2)
  <2>1. <<66, 77>> \in Seq(Bytes)
    BY DEF Bytes
  <2>2. ASSUME NEW e \in 1..2 PROVE <<66, 77>>[e] = bytes[e]
    <3>1. e = 1 \/ e = 2
      OBVIOUS
    <3> QED
      BY <1>10, <3>1
  <2> QED
    BY <2>1, <2>2 DEF Prefix, u1
<1>a. \A m, c, u, s : /\ m \in Nat /\ c \in Nat /\ Prefix(u, bytes, m) /\ Segment(s, bytes, m, c)
                      => Prefix(u \o s, bytes, m + c)
  BY PrefixGrows
<1>b. /\ 2 + 4 = 6 /\ 6 + 4 = 10 /\ 10 + 4 = 14 /\ 14 + 4 = 18 /\ 18 + 4 = 22 /\ 22 + 4 = 26
      /\ 26 + 4 = 30 /\ 30 + 4 = 34 /\ 34 + 4 = 38 /\ 38 + 16 = 54
      /\ {2, 6, 10, 14, 18, 22, 26, 30, 34, 38, 4, 16} \subseteq Nat
  OBVIOUS
<1>16. Prefix(u2, bytes, 6)
  BY <1>7, <1>15, <1>a, <1>b, ZenonT(30) DEF u2
<1>17. Prefix(u3, bytes, 10)
  BY <1>14, <1>16, <1>a, <1>b, SMTT(30) DEF u3
<1>18. Prefix(u4, bytes, 14)
  BY <1>7, <1>17, <1>a, <1>b, SMTT(30) DEF u4
<1>19. Prefix(u5, bytes, 18)
  BY <1>7, <1>18, <1>a, <1>b, SMTT(30) DEF u5
<1>20. Prefix(u6, bytes, 22)
  BY <1>7, <1>19, <1>a, <1>b, SMTT(30) DEF u6
<1>21. Prefix(u7, bytes, 26)
  BY <1>7, <1>20, <1>a, <1>b, SMTT(30) DEF u7
<1>22. Prefix(u8, bytes, 30)
  BY <1>11, <1>21, <1>a, <1>b, ZenonT(30) DEF u8
<1>23. Prefix(u9, bytes, 34)
  BY <1>14, <1>22, <1>a, <1>b, SMTT(30) DEF u9
<1>24. Prefix(u10, bytes, 38)
  BY <1>7, <1>23, <1>a, <1>b, SMTT(30) DEF u10
<1>25. Prefix(u11, bytes, 54)
  BY <1>14, <1>24, <1>a, <1>b, SMTT(30) DEF u11
<1>26. u11 = bytes
  <2>1. Prefix(u11, bytes, Len(bytes))
    BY <1>2, <1>25
  <2> QED
    BY <1>2, <2>1, PrefixIsAll
<1> QED
  BY <1>26, Zenon DEF u1, u2, u3, u4, u5, u6, u7, u8, u9, u10, u11, bytes, header, n, start

----------------------------------------------------------------------------
(* Pixels, rows and palettes in the format *)

ColoursOf(picture) == {picture.pixels[p] : p \in DOMAIN picture.pixels}

(* The colours of an 8-bit picture have room in the palette, and their     *)
(* numbers in a byte.                                                      *)
CanHave(picture, d) ==
    /\ d \in Depths
    /\ d = 8 => /\ PaletteSize <= 1024
                /\ 4 * Cardinality(ColoursOf(picture)) <= PaletteSize

(* The reference's list of colours has each of them once. *)
LEMMA ColourListIs ==
    ASSUME NEW w \in Nat \ {0}, NEW h \in Nat \ {0}, NEW pixels \in [Grid(w, h) -> Colours]
    PROVE  LET pic == PictureOf(w, h, pixels)  list == Format!ColourList(pic) IN
           /\ list \in Seq(Colours)
           /\ Len(list) = Cardinality(ColoursOf(pic)) /\ Len(list) \in Nat \ {0}
           /\ \A p \in Grid(w, h) : \E k \in 1..Len(list) : list[k] = pixels[p]
<1> DEFINE pic == PictureOf(w, h, pixels)
           all == ColoursOf(pic)
           list == Format!ColourList(pic)
           n == Cardinality(all)
<1>1. pic.pixels = pixels /\ DOMAIN pixels = Grid(w, h)
  BY DEF PictureOf
<1>2. IsFiniteSet(Grid(w, h))
  <2>1. IsFiniteSet(0..(w - 1)) /\ IsFiniteSet(0..(h - 1))
    BY FS_Interval
  <2> QED
    BY <2>1, FS_Product DEF Grid
<1>3. all = {pixels[p] : p \in Grid(w, h)}
  BY <1>1 DEF ColoursOf
<1>4. IsFiniteSet(all)
  <2>1. pixels \in Surjection(Grid(w, h), all)
    <3>1. pixels = [p \in Grid(w, h) |-> pixels[p]]
      OBVIOUS
    <3>2. pixels \in [Grid(w, h) -> all]
      BY <1>3, <3>1
    <3> QED
      BY <1>3, <3>2 DEF Surjection
  <2> QED
    BY <1>2, <2>1, FS_Surjection
<1>5. n \in Nat /\ ExistsBijection(1..n, all)
  BY <1>4, FS_CardinalityType
<1>6. n # 0
  <2>1. <<0, 0>> \in Grid(w, h)
    BY DEF Grid
  <2>2. all # {}
    BY <1>3, <2>1
  <2> QED
    BY <1>4, <2>2, FS_EmptySet
<1>7. list = CHOOSE f \in [1..Format!Cardinality(all) -> all] : Format!IsInjective(f)
  BY DEF Format!SetToSeq, Format!ColourList, ColoursOf
<1>8. Format!Cardinality(all) = Cardinality(all)
  BY DEF Format!Cardinality, Cardinality
<1> HIDE DEF all, n, list
<1>9. list = CHOOSE f \in [1..n -> all] : Format!IsInjective(f)
  BY <1>7, <1>8 DEF n
<1>10. \E f \in [1..n -> all] : Format!IsInjective(f)
  BY <1>5 DEF ExistsBijection, Bijection, Injection, IsInjective, Format!IsInjective
<1>11. list \in [1..n -> all] /\ Format!IsInjective(list)
  BY <1>9, <1>10
<1>12. list \in Surjection(1..n, all)
  <2>1. list \in Injection(1..n, all)
    BY <1>11 DEF Injection, IsInjective, Format!IsInjective
  <2>2. Cardinality(1..n) = Cardinality(all)
    BY <1>5, <1>6, FS_Interval DEF n
  <2> QED
    BY <1>4, <2>1, <2>2, FS_Injection
<1>13. \A p \in Grid(w, h) : \E k \in 1..n : list[k] = pixels[p]
  BY <1>3, <1>12 DEF Surjection
<1>14. \A c \in all : c \in Colours
  BY <1>3
<1>15. list \in Seq(Colours) /\ Len(list) = n
  BY <1>5, <1>11, <1>14
<1> QED
  BY <1>5, <1>6, <1>13, <1>15 DEF pic, all, list, n

(* The number of a colour in the list. *)
IndexOf(picture, colour) ==
    CHOOSE k \in DOMAIN Format!ColourList(picture) : Format!ColourList(picture)[k] = colour

(* Each colour of the picture is in the list, where its number says. *)
LEMMA IndexIs ==
    ASSUME NEW w \in Nat \ {0}, NEW h \in Nat \ {0}, NEW pixels \in [Grid(w, h) -> Colours],
           NEW p \in Grid(w, h)
    PROVE  LET pic == PictureOf(w, h, pixels) IN
           /\ IndexOf(pic, pixels[p]) \in 1..Len(Format!ColourList(pic))
           /\ Format!ColourList(pic)[IndexOf(pic, pixels[p])] = pixels[p]
<1> DEFINE list == Format!ColourList(PictureOf(w, h, pixels))
<1>1. list \in Seq(Colours) /\ \E k \in 1..Len(list) : list[k] = pixels[p]
  BY ColourListIs
<1>2. DOMAIN list = 1..Len(list)
  <2> HIDE DEF list
  <2> QED
    BY <1>1
<1> QED
  BY <1>1, <1>2 DEF IndexOf

IsPixel(bytes, picture, d, colour) ==
    /\ bytes \in Seq(Bytes) /\ Len(bytes) = Width(d)
    /\ d = 8 => bytes[1] = IndexOf(picture, colour) - 1
    /\ d # 8 => \A l \in 1..Width(d) : bytes[l] = ByteOf(colour, l)

(* The bytes of a pixel: the number of its colour, or the colour. *)
LEMMA PixelIs ==
    ASSUME NEW w \in Nat \ {0}, NEW h \in Nat \ {0}, NEW pixels \in [Grid(w, h) -> Colours],
           NEW d, CanHave(PictureOf(w, h, pixels), d), NEW p \in Grid(w, h)
    PROVE  IsPixel(Format!PixelBytes(PictureOf(w, h, pixels), d, p),
                   PictureOf(w, h, pixels), d, pixels[p])
<1> DEFINE pic == PictureOf(w, h, pixels)  c == pixels[p]
<1>1. pic.pixels[p] = c
  BY DEF PictureOf
<1>2. c \in Colours /\ c[1] \in Bytes /\ c[2] \in Bytes /\ c[3] \in Bytes /\ 0 \in Bytes
  BY ProgramsAssumption DEF Bytes
<1>3. Format!BlueGreenRed(c) = <<c[3], c[2], c[1]>>
  BY DEF Format!BlueGreenRed
<1>4. ASSUME d = 8
      PROVE  LET bytes == Format!PixelBytes(pic, d, p) IN
             /\ bytes \in Seq(Bytes) /\ Len(bytes) = Width(d)
             /\ bytes[1] = IndexOf(pic, c) - 1
  <2> DEFINE k == IndexOf(pic, c)
  <2>1. Format!PixelBytes(pic, d, p) = <<k - 1>>
    BY <1>1, <1>4 DEF Format!PixelBytes, IndexOf
  <2>2. k \in 1..Len(Format!ColourList(pic))
    BY IndexIs
  <2>3. Len(Format!ColourList(pic)) \in Nat /\ 4 * Len(Format!ColourList(pic)) <= 1024
    <3>1. Len(Format!ColourList(pic)) \in Nat
          /\ Len(Format!ColourList(pic)) = Cardinality(ColoursOf(pic))
      BY ColourListIs
    <3>2. 4 * Cardinality(ColoursOf(pic)) <= PaletteSize
          /\ PaletteSize <= 1024 /\ PaletteSize \in Nat
      BY <1>4, BitMapAssumption DEF CanHave
    <3> HIDE DEF pic
    <3> QED
      BY <3>1, <3>2
  <2> HIDE DEF k, pic
  <2>4. k - 1 \in Bytes
    BY <2>2, <2>3 DEF Bytes
  <2>6. Width(d) = 1
    BY <1>4 DEF Width
  <2>5. <<k - 1>> \in Seq(Bytes) /\ Len(<<k - 1>>) = 1 /\ <<k - 1>>[1] = k - 1
    BY <2>4
  <2> QED
    BY <1>4, <2>1, <2>5, <2>6 DEF k
<1> HIDE DEF pic, c
<1>5. ASSUME d # 8
      PROVE  LET bytes == Format!PixelBytes(pic, d, p) IN
             /\ bytes \in Seq(Bytes) /\ Len(bytes) = Width(d)
             /\ \A l \in 1..Width(d) : bytes[l] = ByteOf(c, l)
  <2> DEFINE s == <<c[3], c[2], c[1]>>  t == <<0>>
  <2>1. /\ s \in Seq(Bytes) /\ t \in Seq(Bytes) /\ Len(s) = 3 /\ Len(t) = 1
        /\ s[1] = c[3] /\ s[2] = c[2] /\ s[3] = c[1] /\ t[1] = 0
    BY <1>2
  <2>2. \A l \in 1..3 : s[l] = ByteOf(c, l)
    <3> TAKE l \in 1..3
    <3>1. l = 1 \/ l = 2 \/ l = 3
      OBVIOUS
    <3> HIDE DEF s, c
    <3> QED
      BY <1>2, <2>1, <3>1, ColoursAre
  <2>3. CASE d = 24
    <3>1. Format!PixelBytes(pic, d, p) = s
      BY <1>1, <1>3, <2>3 DEF Format!PixelBytes
    <3>2. Width(d) = 3
      BY <2>3 DEF Width
    <3> HIDE DEF s
    <3> QED
      BY <1>5, <2>1, <2>2, <3>1, <3>2
  <2>4. CASE d = 32
    <3>1. Format!PixelBytes(pic, d, p) = s \o t
      BY <1>1, <1>3, <2>4 DEF Format!PixelBytes
    <3>2. Width(d) = 4
      BY <2>4 DEF Width
    <3> HIDE DEF s, t
    <3>3. IsJoined(s \o t, s, t, 3, 1)
      BY <2>1, Joining
    <3> DEFINE u == s \o t
    <3> HIDE DEF u
    <3>4. /\ u \in Seq(Bytes) /\ Len(u) = 4 /\ u[3 + 1] = 0
          /\ \A l \in 1..3 : u[l] = ByteOf(c, l)
      BY <2>1, <2>2, <3>3 DEF IsJoined, u
    <3>6. ByteOf(c, 4) = 0
      BY DEF ByteOf
    <3>7. \A l \in 1..4 : u[l] = ByteOf(c, l)
      <4> TAKE l \in 1..4
      <4>1. l \in 1..3 \/ l = 4
        OBVIOUS
      <4> QED
        BY <3>4, <3>6, <4>1
    <3>5. Format!PixelBytes(pic, d, p) = u
      BY <3>1 DEF u
    <3> QED
      BY <1>5, <3>2, <3>4, <3>5, <3>7
  <2> QED
    BY <1>5, <2>3, <2>4 DEF CanHave, Depths, pic, c
<1> QED
  BY <1>4, <1>5 DEF IsPixel, pic, c

IsRow(row, picture, d, w, r) ==
    /\ row \in Seq(Bytes) /\ Len(row) = Stride(w, d)
    /\ \A k \in 1..w, l \in 1..Width(d) :
         row[(k - 1) * Width(d) + l] = Format!PixelBytes(picture, d, <<k - 1, r>>)[l]

(* A row has the bytes of its pixels, one after another, and then zeros. *)
LEMMA RowOf ==
    ASSUME NEW w \in Nat \ {0}, NEW h \in Nat \ {0}, NEW pixels \in [Grid(w, h) -> Colours],
           NEW d, CanHave(PictureOf(w, h, pixels), d), NEW r \in 0..(h - 1)
    PROVE  IsRow(Format!Row(PictureOf(w, h, pixels), d, r), PictureOf(w, h, pixels), d, w, r)
<1> DEFINE pic == PictureOf(w, h, pixels)
           b == Width(d)
           q == [k \in 1..w |-> Format!PixelBytes(pic, d, <<k - 1, r>>)]
           s == Format!FlattenSeq(q)
<1>1. pic.width = w /\ d \in Depths
  BY DEF PictureOf, CanHave
<1>2. \A k \in 1..w : <<k - 1, r>> \in Grid(w, h)
  BY DEF Grid
<1>3. Even(q, w, b)
  <2>1. \A k \in 1..w : q[k] \in Seq(Bytes) /\ Len(q[k]) = b
    BY <1>2, PixelIs DEF IsPixel
  <2>2. Len(q) = w
    OBVIOUS
  <2> HIDE DEF q, b
  <2> QED
    BY <2>1, <2>2 DEF Even
<1>4. \A k \in 1..w : q[k] = Format!PixelBytes(pic, d, <<k - 1, r>>)
  OBVIOUS
<1>5. b \in Nat /\ b >= 1 /\ w * b \in Nat /\ Stride(w, d) = w * b + Padding(w * b) /\ Padding(w * b) \in Nat
  BY <1>1, StrideIs
<1>6. Format!Row(pic, d, r) = s \o Format!Pad(Padding(Len(s)))
  <2> HIDE DEF pic
  <2> QED
    BY <1>1 DEF Format!Row, Padding
<1> HIDE DEF q, b
<1>7. /\ s \in Seq(Bytes) /\ Len(s) = w * b
      /\ \A k \in 1..w, l \in 1..b : s[(k - 1) * b + l] = q[k][l]
  BY <1>3, <1>5, FlattenEven
<1>8. ASSUME NEW k \in 1..w, NEW l \in 1..b PROVE (k - 1) * b + l \in 1..(w * b)
  <2>1. k * b <= w * b /\ k * b = (k - 1) * b + b /\ 0 * b <= (k - 1) * b /\ 0 * b = 0
    BY <1>5, ProductGrows
  <2>2. (k - 1) * b \in Int /\ k * b \in Int /\ w * b \in Int
    BY <1>5
  <2> QED
    BY <1>5, <2>1, <2>2
<1> DEFINE n == w * b  m == Padding(n)  t == Format!Pad(m)
<1>9. n \in Nat /\ m \in Nat
  BY <1>5
<1>10. t \in Seq(Bytes) /\ Len(t) = m
  BY <1>9, PadIs
<1>11. Format!Row(pic, d, r) = s \o t
  BY <1>6, <1>7
<1>a. Stride(w, d) = n + m
  BY <1>5
<1>b. \A k \in 1..w, l \in 1..b : (k - 1) * b + l \in 1..n
  BY <1>8
<1>c. s \in Seq(Bytes) /\ Len(s) = n
  BY <1>7
<1> HIDE DEF s, t, n, m, pic
<1>12. IsJoined(s \o t, s, t, n, m)
  BY <1>9, <1>10, <1>c, Joining
<1> DEFINE u == s \o t
<1> HIDE DEF u
<1>13. u \in Seq(Bytes) /\ Len(u) = n + m /\ \A e \in 1..n : u[e] = s[e]
  BY <1>12 DEF IsJoined, u
<1>14. Format!Row(pic, d, r) = u
  BY <1>11 DEF u
<1>15. \A k \in 1..w, l \in 1..b : u[(k - 1) * b + l] = Format!PixelBytes(pic, d, <<k - 1, r>>)[l]
  BY <1>4, <1>7, <1>13, <1>b
<1> QED
  BY <1>13, <1>14, <1>15, <1>a DEF IsRow, pic, b

(* Where the bytes of a pixel are in the rows, the lowest first. *)
SpotOf(w, h, d, p) == (h - p[2] - 1) * Stride(w, d) + p[1] * Width(d)

(* They are inside. *)
LEMMA SpotIs ==
    ASSUME NEW w \in Nat \ {0}, NEW h \in Nat \ {0}, NEW d \in Depths, NEW p \in Grid(w, h)
    PROVE  /\ SpotOf(w, h, d, p) \in Nat
           /\ SpotOf(w, h, d, p) + Width(d) <= h * Stride(w, d)
<1> DEFINE c == Stride(w, d)  b == Width(d)  r == h - p[2] - 1  a == p[1]
<1>1. /\ b \in Nat /\ w * b \in Nat /\ c \in Nat
      /\ c = w * b + Padding(w * b) /\ Padding(w * b) \in Nat
  BY StrideIs
<1>2. w * b <= c
  <2> HIDE DEF b, c
  <2> QED
    BY <1>1
<1>3. a \in Nat /\ a + 1 <= w /\ r \in Nat /\ r + 1 <= h
  BY GridIs
<1>a. SpotOf(w, h, d, p) = r * c + a * b
  BY DEF SpotOf
<1> HIDE DEF c, b, r, a
<1>4. (a + 1) * b <= w * b /\ (a + 1) * b = a * b + b /\ a * b \in Nat
  BY <1>1, <1>3, ProductGrows
<1>5. (r + 1) * c <= h * c /\ (r + 1) * c = r * c + c /\ r * c \in Nat /\ h * c \in Nat
  BY <1>1, <1>3, ProductGrows
<1>6. r * c + a * b \in Nat /\ r * c + a * b + b <= h * c
  <2> DEFINE x1 == r * c  x2 == a * b  x3 == (a + 1) * b  x4 == (r + 1) * c  x5 == w * b  x6 == h * c
  <2>1. /\ x1 \in Nat /\ x2 \in Nat /\ x3 <= x5 /\ x3 = x2 + b /\ x4 <= x6 /\ x4 = x1 + c
        /\ x5 <= c /\ x5 \in Nat /\ x6 \in Nat /\ b \in Nat /\ c \in Nat
    BY <1>1, <1>2, <1>4, <1>5
  <2> HIDE DEF x1, x2, x3, x4, x5, x6
  <2>2. x1 + x2 \in Nat /\ x1 + x2 + b <= x6
    BY <2>1
  <2> QED
    BY <2>2 DEF x1, x2, x6
<1> QED
  BY <1>6, <1>a DEF b, c

(* The rows have them there. *)
LEMMA RowsOf ==
    ASSUME NEW w \in Nat \ {0}, NEW h \in Nat \ {0}, NEW pixels \in [Grid(w, h) -> Colours],
           NEW d, CanHave(PictureOf(w, h, pixels), d)
    PROVE  LET pic == PictureOf(w, h, pixels)  rows == Format!Rows(pic, d) IN
           /\ rows \in Seq(Bytes) /\ Len(rows) = h * Stride(w, d)
           /\ \A p \in Grid(w, h), l \in 1..Width(d) :
                rows[SpotOf(w, h, d, p) + l] = Format!PixelBytes(pic, d, p)[l]
<1> DEFINE pic == PictureOf(w, h, pixels)
           q == [k \in 1..h |-> Format!Row(pic, d, h - k)]
           s == Format!FlattenSeq(q)
           b == Width(d)
           c == Stride(w, d)
<1>1. d \in Depths /\ pic.height = h
  BY DEF CanHave, PictureOf
<1>2. c \in Nat /\ b \in Nat /\ 1 <= b /\ w * b \in Nat /\ w * b <= c
  <2>1. /\ c \in Nat /\ b \in Nat /\ 1 <= b /\ w * b \in Nat
        /\ c = w * b + Padding(w * b) /\ Padding(w * b) \in Nat
    BY <1>1, StrideIs
  <2> HIDE DEF b, c
  <2> QED
    BY <2>1
<1>3. Format!Rows(pic, d) = s
  <2> HIDE DEF pic
  <2> QED
    BY <1>1 DEF Format!Rows
<1>4. \A k \in 1..h : h - k \in 0..(h - 1)
  OBVIOUS
<1>5. /\ Len(q) = h
      /\ \A k \in 1..h : /\ q[k] \in Seq(Bytes) /\ Len(q[k]) = c
                         /\ \A a \in 1..w, l \in 1..b :
                              q[k][(a - 1) * b + l] = Format!PixelBytes(pic, d, <<a - 1, h - k>>)[l]
  <2> DEFINE At1(r) == Format!Row(pic, d, r)
  <2>1. \A r \in 0..(h - 1) : IsRow(At1(r), pic, d, w, r)
    BY RowOf
  <2>2. Len(q) = h /\ \A k \in 1..h : q[k] = At1(h - k)
    OBVIOUS
  <2> HIDE DEF q, At1, pic
  <2>3. \A k \in 1..h : IsRow(q[k], pic, d, w, h - k)
    BY <1>4, <2>1, <2>2
  <2> QED
    BY <2>2, <2>3 DEF IsRow
<1>a. \A p : SpotOf(w, h, d, p) = (h - p[2] - 1) * c + p[1] * b
  BY DEF SpotOf
<1> HIDE DEF q, b, c, pic
<1>6. Even(q, h, c)
  BY <1>5 DEF Even
<1>b. c \in Nat
  BY <1>2
<1>7. /\ s \in Seq(Bytes) /\ Len(s) = h * c
      /\ \A k \in 1..h, l \in 1..c : s[(k - 1) * c + l] = q[k][l]
  BY <1>b, <1>6, FlattenEven
<1> HIDE DEF s
<1>8. ASSUME NEW p \in Grid(w, h), NEW l \in 1..b
      PROVE  s[SpotOf(w, h, d, p) + l] = Format!PixelBytes(pic, d, p)[l]
  <2> DEFINE k == h - p[2]  a == p[1] + 1  m == p[1] * b + l
  <2>1. p[1] \in Nat /\ p[2] \in Nat /\ p[1] < w /\ p[2] < h /\ p = <<p[1], p[2]>>
    BY GridIs
  <2>2. k \in 1..h /\ k - 1 = h - p[2] - 1 /\ h - k = p[2]
    BY <2>1
  <2>3. a \in 1..w /\ a - 1 = p[1] /\ (a - 1) * b + l = m
    BY <1>2, <2>1
  <2>4. m \in 1..c
    <3>1. a * b <= w * b /\ a * b = (a - 1) * b + b /\ 0 * b <= (a - 1) * b /\ 0 * b = 0
      BY <1>2, <2>3, ProductGrows
    <3>2. (a - 1) * b \in Int /\ a * b \in Int /\ w * b \in Int
      BY <1>2, <2>3
    <3> HIDE DEF a, m
    <3> QED
      BY <1>2, <2>3, <3>1, <3>2
  <2>5. SpotOf(w, h, d, p) + l = (k - 1) * c + m
    <3>1. (h - p[2] - 1) * c \in Int /\ p[1] * b \in Int
      BY <1>2, <2>1
    <3>2. (k - 1) * c = (h - p[2] - 1) * c
      BY <2>2
    <3>3. l \in Int
      BY <1>2
    <3> QED
      BY <1>a, <3>1, <3>2, <3>3
  <2> HIDE DEF k, a, m
  <2>6. s[(k - 1) * c + m] = q[k][m]
    BY <1>7, <2>2, <2>4
  <2>7. q[k][m] = Format!PixelBytes(pic, d, <<a - 1, h - k>>)[l]
    BY <1>5, <2>2, <2>3
  <2> QED
    BY <2>1, <2>2, <2>3, <2>5, <2>6, <2>7
<1> QED
  BY <1>3, <1>7, <1>8 DEF pic, b, c

(* The rows of 32 bits, the lowest first, are the image's data. *)
LEMMA RowsAre ==
    ASSUME NEW w \in Nat \ {0}, NEW h \in Nat \ {0}, NEW bmp, NEW pixels,
           Canvas(bmp, w, h, pixels)
    PROVE  Format!Rows(PictureOf(w, h, pixels), 32) = bmp.Data
<1> DEFINE rows == Format!Rows(PictureOf(w, h, pixels), 32)
           data == bmp.Data
           n == h * Row(w)
<1>1. /\ pixels \in [Grid(w, h) -> Colours] /\ data \in Seq(Bytes) /\ Len(data) = n
      /\ \A p \in Grid(w, h), l \in 1..4 : data[Spot(w, h, p) + l] = ByteOf(pixels[p], l)
  BY DEF Canvas
<1>2. Stride(w, 32) = Row(w) /\ Width(32) = 4 /\ CanHave(PictureOf(w, h, pixels), 32)
  BY Of32 DEF CanHave
<1>3. \A p : SpotOf(w, h, 32, p) = Spot(w, h, p)
  BY <1>2 DEF SpotOf, Spot
<1>4. \A p \in Grid(w, h), l \in 1..4 :
        Format!PixelBytes(PictureOf(w, h, pixels), 32, p)[l] = ByteOf(pixels[p], l)
  <2> DEFINE pic == PictureOf(w, h, pixels)
  <2>1. CanHave(pic, 32) /\ pixels \in [Grid(w, h) -> Colours]
    BY <1>1, <1>2
  <2>2. \A p \in Grid(w, h) : 32 # 8 => \A l \in 1..Width(32) :
          Format!PixelBytes(pic, 32, p)[l] = ByteOf(pixels[p], l)
    BY <2>1, PixelIs DEF IsPixel
  <2> HIDE DEF pic
  <2>3. \A p \in Grid(w, h), l \in 1..4 : Format!PixelBytes(pic, 32, p)[l] = ByteOf(pixels[p], l)
    BY <1>2, <2>2
  <2> QED
    BY <2>3 DEF pic
<1>5. /\ rows \in Seq(Bytes) /\ Len(rows) = h * Stride(w, 32)
      /\ \A p \in Grid(w, h), l \in 1..Width(32) :
           rows[SpotOf(w, h, 32, p) + l] = Format!PixelBytes(PictureOf(w, h, pixels), 32, p)[l]
  BY <1>1, <1>2, RowsOf
<1> HIDE DEF rows, data
<1>6. \A p \in Grid(w, h), l \in 1..4 : rows[Spot(w, h, p) + l] = data[Spot(w, h, p) + l]
  BY <1>1, <1>2, <1>3, <1>4, <1>5, SMTT(30)
<1>7. \A d \in 1..n : \E p \in Grid(w, h), l \in 1..4 : d = Spot(w, h, p) + l
  BY SpotsCover
<1> HIDE DEF n
<1>8. \A d \in 1..n : rows[d] = data[d]
  BY <1>6, <1>7
<1>9. Len(rows) = n
  BY <1>2, <1>5 DEF n
<1>10. rows \in Seq(Bytes) /\ data \in Seq(Bytes) /\ Len(data) = n
  BY <1>1, <1>5 DEF n
<1>11. rows = data
  BY <1>8, <1>9, <1>10
<1> QED
  BY <1>11 DEF rows, data

----------------------------------------------------------------------------
(* Files in the format *)

(* The palette has four bytes for each colour of the list. *)
LEMMA PaletteIs ==
    ASSUME NEW w \in Nat \ {0}, NEW h \in Nat \ {0}, NEW pixels \in [Grid(w, h) -> Colours],
           CanHave(PictureOf(w, h, pixels), 8)
    PROVE  LET pic == PictureOf(w, h, pixels)  palette == Format!PaletteOf(pic) IN
           /\ palette \in Seq(Bytes) /\ Len(palette) = PaletteSize
           /\ \A k \in 1..Len(Format!ColourList(pic)), l \in 1..4 :
                palette[(k - 1) * 4 + l] = ByteOf(Format!ColourList(pic)[k], l)
<1> DEFINE pic == PictureOf(w, h, pixels)
           list == Format!ColourList(pic)
           n == Len(list)
           Entry(k) == Format!BlueGreenRed(list[k]) \o <<0>>
           q == [k \in DOMAIN list |-> Entry(k)]
           s == Format!FlattenSeq(q)
           t == Format!Pad(PaletteSize - Len(s))
<1>1. list \in Seq(Colours) /\ n \in Nat \ {0} /\ n = Cardinality(ColoursOf(pic))
  BY ColourListIs
<1>2. 4 * n <= PaletteSize /\ PaletteSize \in Nat
  BY <1>1, BitMapAssumption DEF CanHave
<1>3. Format!PaletteOf(pic) = s \o t
  BY DEF Format!PaletteOf
<1> HIDE DEF pic, list
<1>4. ASSUME NEW k \in 1..n
      PROVE  Entry(k) \in Seq(Bytes) /\ Len(Entry(k)) = 4 /\ \A l \in 1..4 : Entry(k)[l] = ByteOf(list[k], l)
  <2> DEFINE c == list[k]  a == <<c[3], c[2], c[1]>>  z == <<0>>
  <2>1. c \in Colours
    BY <1>1
  <2> HIDE DEF c
  <2>2. c[1] \in Bytes /\ c[2] \in Bytes /\ c[3] \in Bytes /\ 0 \in Bytes
    BY <2>1, ProgramsAssumption DEF Bytes
  <2>3. /\ a \in Seq(Bytes) /\ z \in Seq(Bytes) /\ Len(a) = 3 /\ Len(z) = 1
        /\ a[1] = c[3] /\ a[2] = c[2] /\ a[3] = c[1] /\ z[1] = 0
    BY <2>2
  <2>4. Entry(k) = a \o z
    BY DEF Format!BlueGreenRed, c
  <2> HIDE DEF a, z
  <2>5. IsJoined(a \o z, a, z, 3, 1)
    BY <2>3, Joining
  <2> DEFINE u == a \o z
  <2> HIDE DEF u
  <2>6. u \in Seq(Bytes) /\ Len(u) = 4 /\ u[1] = c[3] /\ u[2] = c[2] /\ u[3] = c[1] /\ u[3 + 1] = 0
    BY <2>3, <2>5 DEF IsJoined, u
  <2>7. \A l \in 1..4 : u[l] = ByteOf(c, l)
    <3> TAKE l \in 1..4
    <3>1. l = 1 \/ l = 2 \/ l = 3 \/ l = 4
      OBVIOUS
    <3> QED
      BY <2>1, <2>6, <3>1, ColoursAre
  <2>8. Entry(k) = u
    BY <2>4 DEF u
  <2> HIDE DEF Entry
  <2> QED
    BY <2>6, <2>7, <2>8 DEF c
<1> HIDE DEF Entry
<1>5. Even(q, n, 4)
  <2>1. DOMAIN list = 1..n
    BY <1>1
  <2>2. q = [k \in 1..n |-> Entry(k)]
    BY <2>1
  <2>3. Len(q) = n /\ \A k \in 1..n : q[k] = Entry(k)
    BY <1>1, <2>2
  <2> HIDE DEF q
  <2> QED
    BY <1>4, <2>3 DEF Even
<1>6. \A k \in 1..n, l \in 1..4 : q[k][l] = ByteOf(list[k], l)
  <2>1. DOMAIN list = 1..n
    BY <1>1
  <2>2. \A k \in 1..n : q[k] = Entry(k)
    BY <2>1
  <2> QED
    BY <1>4, <2>2
<1> HIDE DEF q
<1>7. /\ s \in Seq(Bytes) /\ Len(s) = n * 4
      /\ \A k \in 1..n, l \in 1..4 : s[(k - 1) * 4 + l] = q[k][l]
  <2>1. n \in Nat \ {0} /\ 4 \in Nat
    BY <1>1
  <2> HIDE DEF n
  <2>2. \A c \in Nat : Even(q, n, c) => /\ s \in Seq(Bytes) /\ Len(s) = n * c
                                        /\ \A k \in 1..n, l \in 1..c : s[(k - 1) * c + l] = q[k][l]
    <3> HIDE DEF s
    <3> QED
      BY <2>1, FlattenEven DEF s
  <2> QED
    BY <1>5, <2>1, <2>2
<1> DEFINE m == PaletteSize - n * 4
<1>8. m \in Nat /\ n * 4 + m = PaletteSize /\ n * 4 \in Nat
  BY <1>1, <1>2
<1>9. t \in Seq(Bytes) /\ Len(t) = m
  <2>1. t = Format!Pad(m)
    BY <1>7
  <2> QED
    BY <1>8, <2>1, PadIs
<1> HIDE DEF s, t, m
<1>10. IsJoined(s \o t, s, t, n * 4, m)
  BY <1>7, <1>8, <1>9, Joining
<1> DEFINE u == s \o t
<1> HIDE DEF u
<1>11. u \in Seq(Bytes) /\ Len(u) = PaletteSize /\ \A e \in 1..(n * 4) : u[e] = s[e]
  BY <1>8, <1>10 DEF IsJoined, u
<1>12. ASSUME NEW k \in 1..n, NEW l \in 1..4 PROVE u[(k - 1) * 4 + l] = ByteOf(list[k], l)
  <2>1. (k - 1) * 4 + l \in 1..(n * 4)
    BY <1>1
  <2> QED
    BY <1>6, <1>7, <1>11, <2>1
<1>13. Format!PaletteOf(pic) = u
  BY <1>3 DEF u
<1> QED
  BY <1>11, <1>12, <1>13 DEF pic, list

FormatPalette(picture, d) == IF d = 8 THEN Format!PaletteOf(picture) ELSE << >>

IsEncoded(file, w, h, picture, d) ==
    /\ file \in Seq(Bytes) /\ Len(file) = Start(d) + h * Stride(w, d)
    /\ \A k \in 1..HeaderLength : file[k] = WriteHeader(NewHeader(w, h, d))[k]
    /\ \A k \in 1..(Start(d) - HeaderLength) :
         file[HeaderLength + k] = FormatPalette(picture, d)[k]
    /\ \A k \in 1..(h * Stride(w, d)) : file[Start(d) + k] = Format!Rows(picture, d)[k]

(* A file in the format: the header that BMP_Create makes, the palette and *)
(* the rows.                                                               *)
LEMMA EncodedOf ==
    ASSUME NEW w, NEW h, Fits(w, h), NEW pixels \in [Grid(w, h) -> Colours],
           NEW d, CanHave(PictureOf(w, h, pixels), d)
    PROVE  IsEncoded(Format!Encoded(PictureOf(w, h, pixels), d), w, h, PictureOf(w, h, pixels), d)
<1> DEFINE pic == PictureOf(w, h, pixels)
           n == h * Stride(w, d)
           start == Start(d)
           rows == Format!Rows(pic, d)
           palette == FormatPalette(pic, d)
           header == WriteHeader(NewHeader(w, h, d))
           prefix == <<66, 77>> \o Format!Long(start + n) \o Format!Pad(4) \o Format!Long(start)
                       \o Format!Long(40) \o Format!Long(w) \o Format!Long(h) \o <<1, 0, d, 0>>
                       \o Format!Pad(4) \o Format!Long(n) \o Format!Pad(16)
<1>1. /\ w \in Nat \ {0} /\ h \in Nat \ {0} /\ d \in Depths /\ (d = 8 => PaletteSize <= 1024)
      /\ PaletteSize \in Nat
  BY BitMapAssumption DEF Fits, CanHave
<1>2. rows \in Seq(Bytes) /\ Len(rows) = n
  BY <1>1, RowsOf
<1>3. n \in Nat /\ start \in Nat /\ HeaderLength <= start /\ HeaderLength = 54
  BY <1>1, HeaderFitsOf DEF HeaderLength
<1>4. header \in Seq(Bytes) /\ Len(header) = HeaderLength
  BY <1>1, HeaderFitsOf, HeaderBytes
<1>5. palette \in Seq(Bytes) /\ Len(palette) = start - 54 /\ start = 54 + Len(palette)
  <2>1. CASE d = 8
    <3>1. palette = Format!PaletteOf(pic)
      BY <2>1 DEF FormatPalette
    <3>2. Format!PaletteOf(pic) \in Seq(Bytes) /\ Len(Format!PaletteOf(pic)) = PaletteSize
      BY <1>1, <2>1, PaletteIs
    <3>3. start = 54 + PaletteSize
      BY <2>1 DEF Start, HeaderLength
    <3> HIDE DEF palette, start
    <3> QED
      BY <1>1, <3>1, <3>2, <3>3
  <2>2. CASE d # 8
    <3>1. palette = << >>
      BY <2>2 DEF FormatPalette
    <3>2. start = 54
      BY <2>2 DEF Start, HeaderLength
    <3> HIDE DEF palette, start
    <3> QED
      BY <3>1, <3>2
  <2> QED
    BY <2>1, <2>2
<1>6. pic.width = w /\ pic.height = h
  BY DEF PictureOf
<1>7. prefix = header
  BY <1>1, HeaderOf
<1>8. palette = (IF d = 8 THEN Format!PaletteOf(pic) ELSE << >>)
  BY DEF FormatPalette
<1> HIDE DEF pic, rows, palette, n, start
<1>9. Format!Encoded(pic, d) =
        <<66, 77>> \o Format!Long(54 + Len(palette) + Len(rows)) \o Format!Pad(4)
          \o Format!Long(54 + Len(palette)) \o Format!Long(40)
          \o Format!Long(w) \o Format!Long(h) \o <<1, 0, d, 0>>
          \o Format!Pad(4) \o Format!Long(Len(rows)) \o Format!Pad(16) \o palette \o rows
  BY <1>6, <1>8, ZenonT(30) DEF Format!Encoded, rows
<1>10. Format!Encoded(pic, d) = prefix \o palette \o rows
  BY <1>2, <1>5, <1>9, ZenonT(30)
<1> HIDE DEF prefix, header
<1>11. Format!Encoded(pic, d) = header \o palette \o rows
  BY <1>7, <1>10, Zenon
<1> DEFINE m == start - 54
<1>12. m \in Nat /\ Len(palette) = m /\ 54 + m = start
  BY <1>3, <1>5
<1> HIDE DEF m
<1>13. IsJoined(header \o palette, header, palette, 54, m)
  BY <1>3, <1>4, <1>5, <1>12, Joining
<1> DEFINE u == header \o palette
<1> HIDE DEF u
<1>14. /\ u \in Seq(Bytes) /\ Len(u) = start
       /\ \A e \in 1..54 : u[e] = header[e]
       /\ \A e \in 1..m : u[54 + e] = palette[e]
  BY <1>12, <1>13 DEF IsJoined, u
<1>15. IsJoined(u \o rows, u, rows, start, n)
  BY <1>2, <1>3, <1>14, Joining
<1> DEFINE v == u \o rows
<1> HIDE DEF v
<1>16. /\ v \in Seq(Bytes) /\ Len(v) = start + n
       /\ \A e \in 1..start : v[e] = u[e]
       /\ \A e \in 1..n : v[start + e] = rows[e]
  BY <1>15 DEF IsJoined, v
<1>17. \A e \in 1..54 : v[e] = header[e]
  <2> TAKE e \in 1..54
  <2>1. e \in 1..start
    BY <1>3
  <2> QED
    BY <1>14, <1>16, <2>1
<1>18. \A e \in 1..m : v[54 + e] = palette[e]
  <2> TAKE e \in 1..m
  <2>1. 54 + e \in 1..start
    BY <1>12
  <2> QED
    BY <1>14, <1>16, <2>1
<1>19. Format!Encoded(pic, d) = v
  BY <1>11, Zenon DEF u, v
<1>20. HeaderLength = 54 /\ start - HeaderLength = m
  BY <1>3 DEF m
<1> QED
  BY <1>16, <1>17, <1>18, <1>19, <1>20 DEF IsEncoded, pic, n, start, rows, palette, header

(* The file that is written is the one that the format asks for. *)
LEMMA EncodedIs ==
    ASSUME NEW w, NEW h, Fits(w, h), NEW bmp, NEW pixels, Canvas(bmp, w, h, pixels)
    PROVE  Contents(bmp) = Format!Encoded(PictureOf(w, h, pixels), 32)
<1> DEFINE n == h * Row(w)
           pic == PictureOf(w, h, pixels)
           file == Contents(bmp)
           header == WriteHeader(NewHeader(w, h, 32))
           encoded == Format!Encoded(pic, 32)
           data == bmp.Data
<1>1. w \in Nat \ {0} /\ h \in Nat \ {0}
  BY DEF Fits
<1>2. 32 \in Depths /\ Stride(w, 32) = Row(w) /\ Start(32) = 54 /\ HeaderLength = 54
  BY <1>1, Of32 DEF HeaderLength
<1>3. CanHave(pic, 32) /\ pixels \in [Grid(w, h) -> Colours]
  <2>1. 32 = 8 => FALSE
    OBVIOUS
  <2> QED
    BY <1>2, <2>1 DEF CanHave, Canvas
<1>4. Format!Rows(pic, 32) = data
  BY <1>1, RowsAre
<1>5. /\ file \in Seq(Bytes) /\ Len(file) = 54 + n /\ n \in Nat
      /\ \A k \in 1..54 : file[k] = header[k]
      /\ \A k \in 1..n : file[54 + k] = data[k]
  <2>1. n \in Nat
    BY <1>1 DEF Row
  <2>2. /\ file \in Seq(Bytes) /\ Len(file) = HeaderLength + n
        /\ \A k \in 1..HeaderLength : file[k] = header[k]
        /\ \A k \in 1..n : file[HeaderLength + k] = data[k]
    BY ContentsIs
  <2> HIDE DEF n, file, header, data
  <2> QED
    BY <1>2, <2>1, <2>2
<1>6. /\ encoded \in Seq(Bytes) /\ Len(encoded) = 54 + n
      /\ \A k \in 1..54 : encoded[k] = header[k]
      /\ \A k \in 1..n : encoded[54 + k] = data[k]
  <2>1. IsEncoded(encoded, w, h, pic, 32)
    BY <1>3, EncodedOf
  <2> QED
    BY <1>2, <1>4, <2>1 DEF IsEncoded
<1> HIDE DEF n, pic, file, header, encoded, data
<1>7. ASSUME NEW k \in 1..(54 + n) PROVE file[k] = encoded[k]
  <2>1. CASE k \in 1..54
    BY <1>5, <1>6, <2>1
  <2>2. CASE k \notin 1..54
    <3> DEFINE l == k - 54
    <3>1. l \in 1..n /\ 54 + l = k
      BY <1>5, <2>2
    <3> HIDE DEF l
    <3> QED
      BY <1>5, <1>6, <3>1
  <2> QED
    BY <2>1, <2>2
<1>8. file = [k \in 1..(54 + n) |-> file[k]] /\ encoded = [k \in 1..(54 + n) |-> encoded[k]]
  BY <1>5, <1>6
<1>9. file = encoded
  BY <1>7, <1>8, Zenon
<1> QED
  BY <1>9 DEF file, encoded, pic

(* Some bytes out of the middle. *)
LEMMA PartIs ==
    ASSUME NEW s \in Seq(Bytes), NEW m \in Nat, NEW n \in Nat, m + n <= Len(s)
    PROVE  /\ SubSeq(s, m + 1, m + n) \in Seq(Bytes) /\ Len(SubSeq(s, m + 1, m + n)) = n
           /\ \A k \in 1..n : SubSeq(s, m + 1, m + n)[k] = s[m + k]
  BY SMTT(30)

(* Such a file is read, with all of its palette and its rows. *)
LEMMA EncodedLoads ==
    ASSUME NEW w, NEW h, Fits(w, h), NEW pixels \in [Grid(w, h) -> Colours],
           NEW d, CanHave(PictureOf(w, h, pixels), d)
    PROVE  LET pic == PictureOf(w, h, pixels)  file == Format!Encoded(pic, d) IN
           /\ file \in Seq(Bytes) /\ IsWhole(file)
           /\ Loaded(file) = [Header  |-> NewHeader(w, h, d),
                              Palette |-> IF d = 8 THEN Format!PaletteOf(pic) ELSE NULL,
                              Data    |-> Format!Rows(pic, d)]
<1> DEFINE pic == PictureOf(w, h, pixels)
           file == Format!Encoded(pic, d)
           n == h * Stride(w, d)
           start == Start(d)
           header == NewHeader(w, h, d)
           rows == Format!Rows(pic, d)
<1>1. /\ w \in Nat \ {0} /\ h \in Nat \ {0} /\ d \in Depths /\ (d = 8 => PaletteSize <= 1024)
      /\ PaletteSize \in Nat /\ HeaderLength = 54
  BY BitMapAssumption DEF Fits, CanHave, HeaderLength
<1>2. n \in Nat /\ start \in Nat /\ HeaderLength <= start
  BY <1>1, HeaderFitsOf
<1>3. /\ file \in Seq(Bytes) /\ Len(file) = start + n
      /\ \A k \in 1..HeaderLength : file[k] = WriteHeader(header)[k]
      /\ \A k \in 1..(start - HeaderLength) : file[HeaderLength + k] = FormatPalette(pic, d)[k]
      /\ \A k \in 1..n : file[start + k] = rows[k]
  BY EncodedOf DEF IsEncoded
<1>b. file \in Seq(Bytes) /\ Len(file) = start + n
  BY <1>3
<1>4. rows \in Seq(Bytes) /\ Len(rows) = n
  BY <1>1, RowsOf
<1>5. /\ header.Magic = 19778 /\ header.BitsPerPixel = d /\ header.CompressionType = 0
      /\ header.HeaderSize = 40 /\ header.ImageDataSize = n
  BY <1>1, NewHeaderOf
<1>a. d = 8 => start = HeaderLength + PaletteSize
  BY <1>1 DEF Start
<1>6. HeaderLength + PaletteLength(header) = start /\ DataEnd(header) = start + n
  <2>1. start = HeaderLength + (IF d = 8 THEN PaletteSize ELSE 0)
    BY DEF Start
  <2>2. PaletteLength(header) = IF d = 8 THEN PaletteSize ELSE 0
    <3> HIDE DEF header
    <3> QED
      BY <1>5 DEF PaletteLength
  <2> HIDE DEF header, start, n
  <2> QED
    BY <1>5, <2>1, <2>2 DEF DataEnd
<1>7. ReadHeader(file) = header
  <2>1. Len(file) >= HeaderLength
    <3> HIDE DEF file, start, n
    <3> QED
      BY <1>1, <1>2, <1>b
  <2>2. header \in [DOMAIN Place -> Nat]
        /\ \A f \in DOMAIN Place : IF f \in Short THEN Fits2(header[f]) ELSE Fits4(header[f])
    BY <1>1, HeaderFitsOf
  <2> HIDE DEF file, header
  <2> QED
    BY <1>3, <2>1, <2>2, HeaderRoundTrip
<1>8. (IF d = 8 THEN Format!PaletteOf(pic) ELSE << >>) = FormatPalette(pic, d)
  BY DEF FormatPalette
<1>9. d = 8 => Format!PaletteOf(pic) \in Seq(Bytes) /\ Len(Format!PaletteOf(pic)) = PaletteSize
  BY <1>1, PaletteIs
<1> HIDE DEF file, header, start, n, rows, pic
<1>10. IsWhole(file)
  <2>1. file # NULL
    BY <1>3, NullIsNot
  <2>2. Len(file) >= HeaderLength /\ Len(file) >= start /\ Len(file) >= start + n
    BY <1>1, <1>2, <1>3
  <2>3. header.BitsPerPixel \in {8, 24, 32}
    BY <1>1, <1>5 DEF Depths
  <2> QED
    BY <1>5, <1>6, <1>7, <2>1, <2>2, <2>3 DEF IsWhole
<1>11. SubSeq(file, start + 1, start + n) = rows
  <2> DEFINE s == SubSeq(file, start + 1, start + n)
  <2>1. s \in Seq(Bytes) /\ Len(s) = n /\ \A k \in 1..n : s[k] = file[start + k]
    <3>1. start + n <= Len(file)
      BY <1>2, <1>b
    <3> QED
      BY <1>2, <1>b, <3>1, PartIs
  <2>2. \A k \in 1..n : s[k] = rows[k]
    BY <1>3, <2>1
  <2> HIDE DEF s
  <2>3. s = rows
    BY <1>4, <2>1, <2>2
  <2> QED
    BY <2>3 DEF s
<1>12. ASSUME d = 8 PROVE SubSeq(file, HeaderLength + 1, start) = Format!PaletteOf(pic)
  <2> DEFINE s == SubSeq(file, HeaderLength + 1, start)  palette == Format!PaletteOf(pic)
  <2>1. start = HeaderLength + PaletteSize /\ start - HeaderLength = PaletteSize
        /\ HeaderLength \in Nat
    BY <1>1, <1>12, <1>a
  <2>2. s \in Seq(Bytes) /\ Len(s) = PaletteSize
        /\ \A k \in 1..PaletteSize : s[k] = file[HeaderLength + k]
    <3>1. HeaderLength + PaletteSize <= Len(file)
      BY <1>1, <1>2, <1>b, <2>1
    <3> HIDE DEF s
    <3>2. s = SubSeq(file, HeaderLength + 1, HeaderLength + PaletteSize)
      BY <2>1 DEF s
    <3>3. HeaderLength \in Nat /\ PaletteSize \in Nat
      BY <1>1, <2>1
    <3> QED
      BY <1>b, <3>1, <3>2, <3>3, PartIs
  <2>3. palette \in Seq(Bytes) /\ Len(palette) = PaletteSize
    BY <1>9, <1>12
  <2>4. \A k \in 1..PaletteSize : s[k] = palette[k]
    <3>1. palette = FormatPalette(pic, d)
      BY <1>8, <1>12
    <3> HIDE DEF s, palette
    <3> QED
      BY <1>3, <2>1, <2>2, <3>1
  <2> HIDE DEF s, palette
  <2>5. s = palette
    BY <2>2, <2>3, <2>4
  <2> QED
    BY <2>5 DEF s, palette
<1>13. Loaded(file) = [Header  |-> header,
                       Palette |-> IF d = 8 THEN Format!PaletteOf(pic) ELSE NULL,
                       Data    |-> rows]
  <2>1. Loaded(file) = [Header  |-> header,
                        Palette |-> IF d = 8 THEN SubSeq(file, HeaderLength + 1, start) ELSE NULL,
                        Data    |-> SubSeq(file, start + 1, start + n)]
    <3>1. Loaded(file) =
            [Header  |-> header,
             Palette |-> IF header.BitsPerPixel = 8
                         THEN SubSeq(file, HeaderLength + 1, HeaderLength + PaletteLength(header))
                         ELSE NULL,
             Data    |-> SubSeq(file, HeaderLength + PaletteLength(header) + 1, DataEnd(header))]
      BY <1>7, Zenon DEF Loaded
    <3>2. header.BitsPerPixel = d
      BY <1>5
    <3> QED
      BY <1>6, <3>1, <3>2, Zenon
  <2> QED
    BY <1>11, <1>12, <2>1
<1> QED
  BY <1>3, <1>10, <1>13 DEF file, header, rows, pic

(* get_pixel finds the colours of the picture in it. *)
LEMMA EncodedPixel ==
    ASSUME NEW w, NEW h, Fits(w, h), NEW pixels \in [Grid(w, h) -> Colours],
           NEW d, CanHave(PictureOf(w, h, pixels), d), NEW p \in Grid(w, h), NEW before
    PROVE  BMP_GetPixelRGB(Loaded(Format!Encoded(PictureOf(w, h, pixels), d)), p[1], p[2], before)
             = pixels[p]
<1> DEFINE pic == PictureOf(w, h, pixels)
           bmp == Loaded(Format!Encoded(pic, d))
           header == NewHeader(w, h, d)
           c == Stride(w, d)
           b == Width(d)
           spot == SpotOf(w, h, d, p)
           bytes == Format!PixelBytes(pic, d, p)
           rows == Format!Rows(pic, d)
           palette == Format!PaletteOf(pic)
           list == Format!ColourList(pic)
           k == IndexOf(pic, pixels[p])
<1>1. w \in Nat \ {0} /\ h \in Nat \ {0} /\ d \in Depths /\ (d = 8 => PaletteSize <= 1024)
  BY DEF Fits, CanHave
<1>2. bmp = [Header  |-> header, Palette |-> IF d = 8 THEN palette ELSE NULL, Data |-> rows]
      /\ Format!Encoded(pic, d) \in Seq(Bytes) /\ IsWhole(Format!Encoded(pic, d))
  BY EncodedLoads
<1>3. /\ header.Width = w /\ header.Height = h /\ header.BitsPerPixel = d
      /\ header.ImageDataSize = h * c
  BY <1>1, NewHeaderOf
<1>4. c \in Nat /\ b \in Nat /\ 1 <= b
  BY <1>1, StrideIs
<1>5. (h * c) \div h = c
  <2>1. ASSUME NEW m \in Nat PROVE (h * m) \div h = m
    <3>1. h * m \in Nat /\ h * m = m * h + 0
      BY <1>1
    <3> QED
      BY <1>1, <3>1
  <2> QED
    BY <1>4, <2>1
<1>6. p[1] \in Nat /\ p[2] \in Nat /\ p[1] < w /\ p[2] < h /\ p = <<p[1], p[2]>>
  BY <1>1, GridIs
<1>7. spot \in Nat /\ spot = (h - p[2] - 1) * c + p[1] * b
  <2>1. spot \in Nat
    BY <1>1, SpotIs
  <2> QED
    BY <2>1 DEF SpotOf
<1>8. \A l \in 1..b : rows[spot + l] = bytes[l]
  <2>1. \A s \in Grid(w, h), l \in 1..Width(d) :
          Format!Rows(pic, d)[SpotOf(w, h, d, s) + l] = Format!PixelBytes(pic, d, s)[l]
    BY <1>1, RowsOf
  <2> HIDE DEF pic
  <2> QED
    BY <2>1
<1>9. /\ bytes \in Seq(Bytes) /\ Len(bytes) = b
      /\ d = 8 => bytes[1] = k - 1
      /\ d # 8 => \A l \in 1..b : bytes[l] = ByteOf(pixels[p], l)
  <2>1. IsPixel(bytes, pic, d, pixels[p])
    BY <1>1, PixelIs
  <2> HIDE DEF bytes, k, b, pic
  <2> QED
    BY <2>1 DEF IsPixel, k, b
<1>10. k \in 1..Len(list) /\ list[k] = pixels[p]
  BY <1>1, IndexIs
<1>11. list \in Seq(Colours)
  BY <1>1, ColourListIs
<1>12. d = 8 => \A l \in 1..4 : palette[(k - 1) * 4 + l] = ByteOf(list[k], l)
  BY <1>1, <1>10, PaletteIs
<1>13. pixels[p] \in Colours
  OBVIOUS
<1>14. b = d \div 8
  BY DEF Width
<1>15. bmp # NULL
  BY <1>2, LoadedIs
<1> HIDE DEF pic, bmp, header, c, b, spot, bytes, rows, palette, list, k
<1>16. ~Outside(bmp, p[1], p[2])
  BY <1>1, <1>2, <1>3, <1>6, <1>15 DEF Outside
<1>17. At(bmp, p[1], p[2]) = spot
  <2>1. bmp.Header = header
    BY <1>2
  <2>2. At(bmp, p[1], p[2]) = (h - p[2] - 1) * ((h * c) \div h) + p[1] * (d \div 8)
    BY <1>3, <2>1 DEF At
  <2> QED
    BY <1>5, <1>7, <1>14, <2>2
<1>18. CASE d = 8
  <2>1. bmp.Header.BitsPerPixel = 8 /\ bmp.Palette = palette /\ bmp.Data = rows
    BY <1>2, <1>3, <1>18
  <2>2. rows[spot + 1] = k - 1
    <3>1. 1 \in 1..b
      BY <1>4
    <3> QED
      BY <1>8, <1>9, <1>18, <3>1
  <2> DEFINE at == (k - 1) * 4
  <2>3. BMP_GetPixelRGB(bmp, p[1], p[2], before) = <<palette[at + 3], palette[at + 2], palette[at + 1]>>
    BY <1>16, <1>17, <2>1, <2>2 DEF BMP_GetPixelRGB
  <2> HIDE DEF at
  <2>4. \A l \in 1..4 : palette[at + l] = ByteOf(pixels[p], l)
    BY <1>10, <1>12, <1>18 DEF at
  <2> QED
    BY <1>13, <2>3, <2>4, ColoursAre DEF bmp, pic
<1>19. CASE d # 8
  <2>1. bmp.Header.BitsPerPixel # 8 /\ bmp.Data = rows
    BY <1>2, <1>3, <1>19
  <2>2. BMP_GetPixelRGB(bmp, p[1], p[2], before) = <<rows[spot + 3], rows[spot + 2], rows[spot + 1]>>
    BY <1>16, <1>17, <2>1 DEF BMP_GetPixelRGB
  <2>3. \A l \in 1..3 : l \in 1..b
    BY <1>1, <1>14, <1>19 DEF Depths
  <2>4. \A l \in 1..3 : rows[spot + l] = ByteOf(pixels[p], l)
    BY <1>8, <1>9, <1>19, <2>3
  <2> QED
    BY <1>13, <2>2, <2>4, ColoursAre DEF bmp, pic
<1> QED
  BY <1>18, <1>19

----------------------------------------------------------------------------
(* The programs *)

Commands == [program : Programs, in : Names, out : Names]

Errors == {"BMP_OK", "BMP_OUT_OF_MEMORY", "BMP_IO_ERROR", "BMP_FILE_NOT_FOUND",
           "BMP_FILE_NOT_SUPPORTED", "BMP_FILE_INVALID"}

Sized(bmp) == bmp # NULL => Len(bmp.Data) = bmp.Header.ImageDataSize

Typed ==
    /\ todo \in Seq(Commands)
    /\ pc \in {"read", "check read", "second", "check second", "loop", "write", "check write"}
    /\ error \in Errors
    /\ ended \in Seq([command : Commands, code : {"success", "failure", "crashed"},
                      verdict : {"none", "equal", "different"}])
    /\ Sized(first) /\ Sized(second)

(* What should be on the disk can be. *)
Disk ==
    /\ files \in [Names -> Seq(Bytes) \cup {NULL}]
    /\ drawn = [n \in DOMAIN drawn |-> drawn[n]] /\ DOMAIN drawn \subseteq Names
    /\ \A n \in DOMAIN drawn : IsPicture(drawn[n])
    /\ lost \subseteq Names

(* blur_parallel comes first, and finds its threads as they begin. *)
ParallelFirst ==
    /\ \A k \in 1..Len(todo) : todo[k].program = "blur_parallel" => k = 1 /\ todo[k].in = In
    /\ todo # << >> /\ Command.program = "blur_parallel" =>
         /\ pc # "check write" /\ In \in DOMAIN drawn => drawn[In] = image
         /\ pc \in {"read", "check read", "second", "check second"} =>
              blur = [p \in AllPixels |-> Black]

Shows(bmp, n) == bmp # NULL /\ n \in DOMAIN drawn /\ Picture(bmp) = drawn[n]

(* The second image has the size of the first one, and these pixels. *)
SecondIs(pixels) ==
    Canvas(second, drawn[Command.in].width, drawn[Command.in].height, pixels)

AllBlack == [p \in Grid(drawn[Command.in].width, drawn[Command.in].height) |-> Black]

SecondReady ==
    IF Command.program = "compare_bmp" THEN Shows(second, Command.out)
    ELSE SecondIs(IF Command.program = "blur_parallel" THEN blur ELSE AllBlack)

(* What a writer has done when its success is about to be reported. *)
Written(command) ==
    \/ command.out \in lost \/ PartLeftOut(command.program)
    \/ files[command.out] = Format!Encoded(meant, BMP_DEPTH)

(* What a program has done where it is. *)
Stage ==
    todo # << >> =>
      /\ pc = "check read" /\ error = "BMP_OK" => Shows(first, Command.in)
      /\ pc \in {"second", "check second", "loop", "write"} => Shows(first, Command.in)
      /\ pc = "check second" /\ error = "BMP_OK" => SecondReady
      /\ pc = "loop" => SecondReady
      /\ pc = "write" => /\ Command.program \in {"negative", "blur_sequential"}
                         /\ SecondIs(Output.pixels)
      /\ pc = "check write" => /\ Command.program \in Writers
                               /\ error = "BMP_OK" => Written(Command)

(* A file there is at first is one, and shows its picture or is refused:   *)
(* ProgTypeOK and ReadableMeansWhole say so of the initial states.         *)
FilesShowPictures ==
    /\ \A input \in Inputs :
         /\ input.file \in Seq(Bytes) \cup {NULL}
         /\ Readable(input.file) => input.whole /\ Shown(input.file) = input.picture
    /\ \A n \in DOMAIN Samples :
         /\ Samples[n].file \in Seq(Bytes) \cup {NULL}
         /\ Readable(Samples[n].file) => Shown(Samples[n].file) = Samples[n].picture

ProgInv ==
    /\ ThreadInv /\ Typed /\ Disk /\ ParallelFirst /\ Stage
    /\ ReadableMeansWhole /\ SuccessMeansDone

----------------------------------------------------------------------------
(* The threads, whatever main and the other programs do. *)

(* A step of a program is one of blur_parallel's, or leaves it alone. *)
LEMMA ProgKeepsThreads == ASSUME ThreadInv, [ProgNext]_<<progVars, vars>> PROVE ThreadInv'
<1>1. CASE UNCHANGED vars
  BY <1>1, StillKeeps
<1>2. CASE BlurThreads
  <2>1. \/ \E t \in Threads : SetPixel(t) \/ NextRow(t) \/ ThreadEnds(t)
        \/ Create \/ CreateFails \/ Join
    BY <1>2 DEF BlurThreads
  <2> QED
    BY <2>1, ThreadKeeps, MainKeeps
<1>3. CASE BlurCrashes
  BY <1>3, MainKeeps DEF BlurCrashes
<1>4. CASE WriteImage
  <2>1. UNCHANGED vars \/ WriteFile
    BY <1>4 DEF WriteImage
  <2> QED
    BY <1>1, <2>1, MainKeeps
<1>5. CASE ProgNext
  <2>1. \/ UNCHANGED vars \/ BlurThreads \/ BlurCrashes \/ WriteImage
    BY <1>5 DEF ProgNext, ReadImage, CheckRead, CreateImage, ReadOther, CheckSecond, Negate,
                BlurAll, Compare, CheckWrite, Finished
  <2> QED
    BY <1>1, <1>2, <1>3, <1>4, <2>1
<1> QED
  BY <1>1, <1>5

----------------------------------------------------------------------------
(* Pictures, and what the programs make of them *)

(* A picture whose file has numbers below 2^31. *)
LEMMA PictureIs ==
    ASSUME NEW m
    PROVE  IsPicture(m) <=> /\ Fits(m.width, m.height)
                            /\ m = PictureOf(m.width, m.height, m.pixels)
                            /\ m.pixels \in [Grid(m.width, m.height) -> Colours]
  BY ProgramsAssumption DEF IsPicture, Fits, PictureOf, Grid

(* An image has the size of the picture that it shows. *)
LEMMA ShowsIs ==
    ASSUME Disk, NEW bmp, NEW n, Shows(bmp, n)
    PROVE  /\ n \in DOMAIN drawn /\ IsPicture(drawn[n]) /\ bmp # NULL
           /\ Picture(bmp) = drawn[n]
           /\ BMP_GetWidth(bmp) = drawn[n].width /\ BMP_GetHeight(bmp) = drawn[n].height
           /\ bmp.Header.Width = drawn[n].width /\ bmp.Header.Height = drawn[n].height
<1>1. n \in DOMAIN drawn /\ IsPicture(drawn[n]) /\ bmp # NULL /\ Picture(bmp) = drawn[n]
  BY DEF Shows, Disk
<1>2. Picture(bmp).width = BMP_GetWidth(bmp) /\ Picture(bmp).height = BMP_GetHeight(bmp)
  BY DEF Picture
<1> QED
  BY <1>1, <1>2 DEF BMP_GetWidth, BMP_GetHeight

(* An inverted colour is a colour. *)
LEMMA InvertedIsColour == ASSUME NEW colour \in Colours PROVE Inverted(colour) \in Colours
<1>1. Colours = Bytes \X Bytes \X Bytes
  BY ProgramsAssumption
<1>2. colour[1] \in 0..255 /\ colour[2] \in 0..255 /\ colour[3] \in 0..255
  BY <1>1 DEF Bytes
<1>3. 255 - colour[1] \in Bytes /\ 255 - colour[2] \in Bytes /\ 255 - colour[3] \in Bytes
  BY <1>2 DEF Bytes
<1> QED
  BY <1>1, <1>3 DEF Inverted

(* What each of the three programs is for. *)
LEMMA ResultIs ==
    ASSUME Disk, Command.in \in DOMAIN drawn, Command.program \in Writers
    PROVE  LET m == drawn[Command.in]
               pixels == Result.pixels IN
           /\ Result = PictureOf(m.width, m.height, pixels)
           /\ Command.program = "negative" => pixels = [p \in DOMAIN m.pixels |-> Inverted(m.pixels[p])]
           /\ Command.program # "negative" => pixels = Sequential!Blurred(m, box_size)
<1> DEFINE m == drawn[Command.in]
           b == Sequential!Blurred(m, box_size)
           v == IF Command.program = "negative" THEN [p \in DOMAIN m.pixels |-> Inverted(m.pixels[p])]
                                                ELSE b
<1>1. m = PictureOf(m.width, m.height, m.pixels)
  BY PictureIs DEF Disk
<1>2. Result = [m EXCEPT !.pixels = v]
  BY DEF Result
<1>3. /\ Command.program = "negative" => v = [p \in DOMAIN m.pixels |-> Inverted(m.pixels[p])]
      /\ Command.program # "negative" => v = b
  OBVIOUS
<1> HIDE DEF v
<1>4. [m EXCEPT !.pixels = v] = PictureOf(m.width, m.height, v)
  <2> DEFINE w == m.width  h == m.height  px == m.pixels
  <2>1. m = PictureOf(w, h, px)
    BY <1>1
  <2> HIDE DEF m, w, h, px
  <2>2. [PictureOf(w, h, px) EXCEPT !.pixels = v] = PictureOf(w, h, v)
    BY DEF PictureOf
  <2>3. [m EXCEPT !.pixels = v] = PictureOf(w, h, v)
    BY <2>1, <2>2
  <2> QED
    BY <2>3 DEF w, h
<1>5. Result.pixels = v
  BY <1>2, <1>4 DEF PictureOf
<1> QED
  BY <1>2, <1>3, <1>4, <1>5

(* What each of them puts into its output. *)
LEMMA OutputIs ==
    ASSUME Disk, Command.in \in DOMAIN drawn, Command.program \in Writers
    PROVE  LET m == drawn[Command.in]
               pixels == Output.pixels IN
           /\ Output = PictureOf(m.width, m.height, pixels)
           /\ Command.program = "negative" => pixels = [p \in DOMAIN m.pixels |-> Inverted(m.pixels[p])]
           /\ Command.program = "blur_sequential" => pixels = Sequential!Blurred(m, box_size)
           /\ Command.program = "blur_parallel" =>
                pixels = [p \in DOMAIN m.pixels |->
                            IF p \in LeftOut THEN Black ELSE Sequential!Blurred(m, box_size)[p]]
<1> DEFINE m == drawn[Command.in]
           b == Sequential!Blurred(m, box_size)
           dark == [p \in DOMAIN m.pixels |-> IF p \in LeftOut THEN Black ELSE b[p]]
<1>1. DOMAIN m.pixels = Grid(m.width, m.height)
  BY PictureIs DEF Disk
<1>2. b = [p \in DOMAIN m.pixels |-> b[p]]
  <2>1. DOMAIN m.pixels = Sequential!Pixels(m)
    BY <1>1 DEF Grid, Sequential!Pixels
  <2> QED
    BY <2>1 DEF Sequential!Blurred
<1>3. CASE PartLeftOut(Command.program)
  <2>1. Command.program = "blur_parallel"
    BY <1>3 DEF PartLeftOut
  <2>2. Result.pixels = b /\ Result = PictureOf(m.width, m.height, b)
    BY <2>1, ResultIs
  <2>3. Output = [Result EXCEPT !.pixels = dark]
    <3> HIDE DEF b, m
    <3>1. DOMAIN b = DOMAIN m.pixels
      BY <1>2
    <3> QED
      BY <1>3, <2>2, <3>1 DEF Output, dark
  <2> HIDE DEF dark, b
  <2>4. Output = PictureOf(m.width, m.height, dark)
    BY <2>2, <2>3 DEF PictureOf
  <2>5. Output.pixels = dark
    BY <2>4 DEF PictureOf
  <2> QED
    BY <2>1, <2>4, <2>5 DEF dark, b
<1>4. CASE ~PartLeftOut(Command.program)
  <2>1. Output = Result
    BY <1>4 DEF Output
  <2>2. Command.program = "blur_parallel" => dark = b
    <3>1. Command.program = "blur_parallel" => LeftOut = {}
      BY <1>4 DEF PartLeftOut
    <3> HIDE DEF b, m
    <3> QED
      BY <1>2, <3>1 DEF dark
  <2> HIDE DEF dark, b
  <2>3. Command.program = "blur_parallel" => Output.pixels = dark
    BY <2>1, <2>2, ResultIs DEF b
  <2> QED
    BY <2>1, <2>3, ResultIs DEF dark, b
<1> QED
  BY <1>3, <1>4

(* They make pictures of pictures. *)
LEMMA OutputIsPicture ==
    ASSUME Disk, ThreadInv, Command.in \in DOMAIN drawn, Command.program \in Writers
    PROVE  LET m == drawn[Command.in] IN
           /\ IsPicture(Output)
           /\ Output.pixels \in [Grid(m.width, m.height) -> Colours]
           /\ Output.width = m.width /\ Output.height = m.height
<1> DEFINE m == drawn[Command.in]
           w == m.width
           h == m.height
           b == Sequential!Blurred(m, box_size)
           G == Grid(w, h)
           pixels == Output.pixels
<1>1. Fits(w, h) /\ m = PictureOf(w, h, m.pixels) /\ m.pixels \in [G -> Colours]
  BY PictureIs DEF Disk
<1>2. w \in Nat \ {0} /\ h \in Nat \ {0}
  BY <1>1 DEF Fits
<1>3. box_size \in Nat /\ Black \in Colours
  BY Sizes, BlurAssumption DEF ThreadInv, IInv
<1>4. b \in [G -> Colours]
  <2> DEFINE px == m.pixels
  <2>1. m = PictureOf(w, h, px) /\ px \in [Grid(w, h) -> Colours]
    BY <1>1
  <2> HIDE DEF w, h, px, m
  <2>2. Sequential!Blurred(PictureOf(w, h, px), box_size) \in [Grid(w, h) -> Colours]
    BY <1>2, <1>3, <2>1, BlurredIs
  <2> QED
    BY <2>1, <2>2
<1>5. DOMAIN m.pixels = G
  BY <1>1
<1>6. Output = PictureOf(w, h, pixels)
  BY OutputIs
<1>7. pixels \in [G -> Colours]
  <2>1. CASE Command.program = "negative"
    <3>1. pixels = [p \in DOMAIN m.pixels |-> Inverted(m.pixels[p])]
      BY <2>1, OutputIs
    <3> DEFINE px == m.pixels
    <3>2. pixels = [p \in G |-> Inverted(px[p])] /\ px \in [G -> Colours]
      BY <1>1, <1>5, <3>1
    <3> HIDE DEF px, pixels, G
    <3>3. \A p \in G : Inverted(px[p]) \in Colours
      BY <3>2, InvertedIsColour
    <3> QED
      BY <3>2, <3>3
  <2>2. CASE Command.program = "blur_sequential"
    BY <1>4, <2>2, OutputIs
  <2>3. CASE Command.program = "blur_parallel"
    <3>1. pixels = [p \in G |-> IF p \in LeftOut THEN Black ELSE b[p]]
      BY <1>5, <2>3, OutputIs
    <3> HIDE DEF pixels, b, G
    <3>2. \A p \in G : (IF p \in LeftOut THEN Black ELSE b[p]) \in Colours
      BY <1>3, <1>4
    <3> QED
      BY <3>1, <3>2
  <2> QED
    BY <2>1, <2>2, <2>3 DEF Writers, Programs
<1>8. Output.width = w /\ Output.height = h
  <2> HIDE DEF w, h, pixels
  <2> QED
    BY <1>6 DEF PictureOf
<1>9. IsPicture(Output)
  BY <1>1, <1>6, <1>7, <1>8, PictureIs
<1> QED
  BY <1>7, <1>8, <1>9

(* The threads have made theirs when main writes it. *)
LEMMA ParallelOutput ==
    ASSUME Disk, ThreadInv, main = "join", i = num_threads,
           Command.program = "blur_parallel", Command.in \in DOMAIN drawn,
           drawn[Command.in] = image
    PROVE  Output.pixels = blur
<1>1. IsPicture(image)
  BY DEF Disk
<1>2. image = PictureOf(image.width, image.height, image.pixels)
      /\ image.pixels \in [Grid(image.width, image.height) -> Colours]
      /\ image.width \in Nat \ {0} /\ image.height \in Nat \ {0}
  BY <1>1, PictureIs DEF Fits
<1>3. DOMAIN image.pixels = AllPixels
  BY <1>2 DEF Grid, AllPixels
<1> DEFINE b == Sequential!Blurred(image, box_size)
<1>5. Output.pixels = [p \in AllPixels |-> IF p \in LeftOut THEN Black ELSE b[p]]
  BY <1>3, OutputIs DEF Writers, Programs
<1>6. \A p \in AllPixels : blur[p] = IF p \in LeftOut THEN Black ELSE b[p]
  <2> TAKE p \in AllPixels
  <2> DEFINE failed == \E t \in Threads : status[t] = "failed" /\ p[1] \in Left(t)..(Right(t) - 1)
  <2>1. blur[p] = IF failed THEN Black ELSE b[p]
    BY BandsDone
  <2>2. p \in LeftOut <=> failed
    BY DEF LeftOut
  <2> QED
    BY <2>1, <2>2
<1>7. blur = [p \in AllPixels |-> blur[p]]
  BY DEF ThreadInv, IInv, TypeOK
<1> HIDE DEF b
<1> QED
  BY <1>5, <1>6, <1>7

----------------------------------------------------------------------------
(* What most steps leave alone *)

(* The command that is running, and those after it. *)
LEMMA CommandIs ==
    ASSUME Typed, todo # << >>
    PROVE  /\ Command = todo[1] /\ 1 \in 1..Len(todo)
           /\ Command \in Commands /\ Command.program \in Programs
           /\ Command.in \in Names /\ Command.out \in Names
           /\ Tail(todo) \in Seq(Commands)
           /\ \A k \in 1..Len(Tail(todo)) : k + 1 # 1 /\ k + 1 \in 1..Len(todo)
                                            /\ Tail(todo)[k] = todo[k + 1]
<1>1. todo \in Seq(Commands)
  BY DEF Typed
<1> HIDE DEF Commands
<1>2. Command = todo[1] /\ 1 \in 1..Len(todo) /\ Command \in Commands
  BY <1>1 DEF Command
<1>3. /\ Tail(todo) \in Seq(Commands)
      /\ \A k \in 1..Len(Tail(todo)) : k + 1 # 1 /\ k + 1 \in 1..Len(todo)
                                       /\ Tail(todo)[k] = todo[k + 1]
  BY <1>1
<1> QED
  BY <1>2, <1>3 DEF Commands

(* What is true of the disk stays true while nothing is written. *)
LEMMA DiskKept ==
    ASSUME Disk, ReadableMeansWhole, UNCHANGED <<files, drawn, meant, lost>>
    PROVE  Disk' /\ ReadableMeansWhole'
  BY DEF Disk, ReadableMeansWhole

(* Inside a program nothing is asked of the last one. *)
LEMMA MovingOn == ASSUME pc' # "read" PROVE SuccessMeansDone'
  BY DEF SuccessMeansDone

(* What was left out stays so. *)
LEMMA LeftOutKept ==
    ASSUME UNCHANGED <<image, num_threads, status>>
    PROVE  LeftOut' = LeftOut
<1>1. Threads' = Threads
  BY DEF Threads
<1>2. \A t : Left(t)' = Left(t) /\ Right(t)' = Right(t)
  BY DEF Left, Right
<1> QED
  BY <1>1, <1>2 DEF LeftOut, AllPixels

(* What was appended is the last. *)
LEMMA LastAppended ==
    ASSUME NEW S, NEW s \in Seq(S), NEW e \in S
    PROVE  /\ Append(s, e) \in Seq(S) /\ Append(s, e) # << >> /\ Last(Append(s, e)) = e
  BY DEF Last

(* The next program begins where this one has ended. *)
LEMMA ExitKeeps ==
    ASSUME Typed, Disk, ParallelFirst, ReadableMeansWhole, todo # << >>,
           NEW code \in {"success", "failure", "crashed"},
           NEW verdict \in {"none", "equal", "different"},
           Exit(code, verdict),
           code = "success" =>
             /\ UNCHANGED vars
             /\ IF Command.program = "compare_bmp"
                THEN verdict = "equal" <=> drawn[Command.in] = drawn[Command.out]
                ELSE Written(Command)
    PROVE  Typed' /\ Disk' /\ ParallelFirst' /\ Stage' /\ ReadableMeansWhole' /\ SuccessMeansDone'
<1> DEFINE exit == [command |-> Command, code |-> code, verdict |-> verdict]
           Exits == [command : Commands, code : {"success", "failure", "crashed"},
                     verdict : {"none", "equal", "different"}]
<1>1. /\ ended' = Append(ended, exit) /\ todo' = Tail(todo) /\ pc' = "read"
      /\ first' = NULL /\ second' = NULL /\ error' = "BMP_OK"
      /\ UNCHANGED <<files, drawn, meant, lost>>
  BY DEF Exit
<1>2. Disk' /\ ReadableMeansWhole'
  BY <1>1, DiskKept
<1>3. ended' \in Seq(Exits) /\ ended' # << >> /\ Last(ended') = exit
  <2>1. ended \in Seq(Exits) /\ exit \in Exits
    BY CommandIs DEF Typed
  <2> HIDE DEF exit, Exits
  <2> QED
    BY <1>1, <2>1, LastAppended
<1>4. Typed'
  <2>1. todo' \in Seq(Commands)
    BY <1>1, CommandIs
  <2> QED
    BY <1>1, <1>3, <2>1 DEF Typed, Sized, Errors
<1>5. ParallelFirst'
  <2>1. \A k \in 1..Len(todo') : todo'[k].program # "blur_parallel"
    BY <1>1, CommandIs DEF ParallelFirst
  <2>2. todo' # << >> => Command'.program # "blur_parallel"
    <3> SUFFICES ASSUME todo' # << >> PROVE Command'.program # "blur_parallel"
      OBVIOUS
    <3>1. todo' \in Seq(Commands)
      BY <1>4 DEF Typed
    <3>2. 1 \in 1..Len(todo') /\ Command' = todo'[1]
      BY <3>1 DEF Command
    <3> QED
      BY <2>1, <3>2
  <2> QED
    BY <2>1, <2>2 DEF ParallelFirst
<1>6. Stage'
  BY <1>1 DEF Stage
<1>7. SuccessMeansDone'
  <2> SUFFICES ASSUME Last(ended').code = "success"
               PROVE  LET command == Last(ended').command IN
                      IF command.program = "compare_bmp"
                      THEN Last(ended').verdict = "equal" <=> drawn[command.in] = drawn[command.out]
                      ELSE \/ command.out \in lost
                           \/ command.program = "blur_parallel" /\ LeftOut' # {}
                           \/ files[command.out] = Format!Encoded(meant, BMP_DEPTH)
    BY <1>1 DEF SuccessMeansDone, PartLeftOut
  <2>1. exit.command = Command /\ exit.code = code /\ exit.verdict = verdict
    OBVIOUS
  <2> HIDE DEF exit
  <2>2. code = "success"
    BY <1>3, <2>1
  <2>3. LeftOut' = LeftOut
    BY <2>2, LeftOutKept DEF vars
  <2> QED
    BY <1>3, <2>1, <2>2, <2>3 DEF Written, PartLeftOut
<1> QED
  BY <1>2, <1>4, <1>5, <1>6, <1>7

(* A step inside a program that writes nothing. *)
LEMMA InsideKeeps ==
    ASSUME Typed, Disk, ParallelFirst, ReadableMeansWhole, todo # << >>,
           UNCHANGED <<files, todo, drawn, meant, lost, ended, image>>,
           pc # "check write",
           pc' \in {"check read", "second", "check second", "loop", "write"},
           pc' \in {"check read", "second", "check second"} =>
             pc \in {"read", "check read", "second", "check second"} /\ blur' = blur,
           error' \in Errors, Sized(first)', Sized(second)', Stage'
    PROVE  Typed' /\ Disk' /\ ParallelFirst' /\ Stage' /\ ReadableMeansWhole' /\ SuccessMeansDone'
<1>1. Disk' /\ ReadableMeansWhole'
  BY DiskKept
<1>2. SuccessMeansDone'
  BY MovingOn
<1>3. Typed'
  BY DEF Typed
<1>4. ParallelFirst'
  <2>1. Command' = Command
    BY DEF Command
  <2>2. AllPixels' = AllPixels
    BY DEF AllPixels
  <2> QED
    BY <2>1, <2>2 DEF ParallelFirst
<1> QED
  BY <1>1, <1>2, <1>3, <1>4

(* What a program puts into its output does not change while it runs. *)
LEMMA OutputKept ==
    ASSUME UNCHANGED <<todo, drawn, image, box_size, num_threads, status>>
    PROVE  Output' = Output
<1>1. Command' = Command /\ Threads' = Threads
  BY DEF Command, Threads
<1>2. LeftOut' = LeftOut
  BY LeftOutKept
<1>3. Result' = Result
  BY <1>1 DEF Result
<1> QED
  BY <1>1, <1>2, <1>3 DEF Output, PartLeftOut

(* A file that a program has read shows what it should. *)
LEMMA ReadShows ==
    ASSUME Disk, ReadableMeansWhole, NEW n \in Names, NEW memory \in 0..3
    PROVE  LET result == BMP_ReadFile(files[n], memory) IN
           /\ result.status \in Errors /\ Sized(result.bmp)
           /\ result.status = "BMP_OK" => Shows(result.bmp, n)
<1> DEFINE file == files[n]
           result == BMP_ReadFile(file, memory)
<1>1. file \in Seq(Bytes) \cup {NULL}
  BY DEF Disk
<1> HIDE DEF file
<1>2. /\ result.status \in Statuses
      /\ result.status = "BMP_OK" => IsWhole(file) /\ result.bmp = Loaded(file)
      /\ result.status # "BMP_OK" => result.bmp = NULL
  BY <1>1, ReadIs
<1> HIDE DEF result
<1>3. CASE result.status # "BMP_OK"
  BY <1>2, <1>3 DEF Statuses, Errors, Sized, file, result
<1>4. CASE result.status = "BMP_OK"
  <2>1. IsWhole(file) /\ result.bmp = Loaded(file) /\ file # NULL
    BY <1>2, <1>4 DEF IsWhole
  <2>2. file \in Seq(Bytes)
    BY <1>1, <2>1
  <2>3. Loaded(file) # NULL /\ Len(Loaded(file).Data) = Loaded(file).Header.ImageDataSize
    BY <2>1, <2>2, LoadedIs
  <2>4. Readable(file) /\ Shown(file) = Picture(Loaded(file))
    BY <1>1, <2>1, ReadableIs
  <2>5. n \in DOMAIN drawn /\ Shown(file) = drawn[n]
    BY <2>1, <2>4 DEF file, ReadableMeansWhole
  <2>6. Shows(result.bmp, n) /\ Sized(result.bmp)
    BY <2>1, <2>3, <2>4, <2>5 DEF Shows, Sized
  <2> QED
    BY <1>4, <2>6 DEF Errors, file, result
<1> QED
  BY <1>3, <1>4

----------------------------------------------------------------------------
(* The steps *)

(* All but what the threads keep. *)
RestInv == Typed /\ Disk /\ ParallelFirst /\ Stage /\ ReadableMeansWhole /\ SuccessMeansDone

(* BMP_ReadFile of the input: an image that is read shows the picture. *)
LEMMA ReadImageKeeps == ASSUME ProgInv, ReadImage PROVE RestInv'
<1> USE DEF ProgInv
<1>1. PICK memory \in 0..3 : LET result == BMP_ReadFile(files[Command.in], memory)
                             IN  first' = result.bmp /\ error' = result.status
  BY DEF ReadImage
<1>2. /\ todo # << >> /\ pc = "read" /\ pc' = "check read"
      /\ UNCHANGED <<files, todo, second, drawn, meant, lost, ended, vars>>
  BY DEF ReadImage
<1>3. /\ error' \in Errors /\ Sized(first')
      /\ error' = "BMP_OK" => Shows(first', Command.in)
  BY <1>1, <1>2, ReadShows, CommandIs
<1>4. image' = image /\ blur' = blur
  BY <1>2 DEF vars
<1>5. Command' = Command
  BY <1>2 DEF Command
<1>6. Stage'
  BY <1>2, <1>3, <1>5 DEF Stage, Shows
<1>7. Sized(first)' /\ Sized(second)'
  BY <1>2, <1>3 DEF Sized, Typed
<1> QED
  BY <1>2, <1>3, <1>4, <1>6, <1>7, InsideKeeps DEF RestInv

(* The status of the read. *)
LEMMA CheckReadKeeps == ASSUME ProgInv, CheckRead PROVE RestInv'
<1> USE DEF ProgInv
<1>1. todo # << >> /\ pc = "check read" /\ Check("second") /\ UNCHANGED vars
  BY DEF CheckRead
<1>2. CASE error # "BMP_OK"
  BY <1>1, <1>2, ExitKeeps DEF Check, RestInv
<1>3. CASE error = "BMP_OK"
  <2>1. /\ pc' = "second" /\ image' = image /\ blur' = blur
        /\ UNCHANGED <<files, todo, first, second, error, drawn, meant, lost, ended>>
    BY <1>1, <1>3 DEF Check, vars
  <2>2. Command' = Command
    BY <2>1 DEF Command
  <2>3. Stage'
    BY <1>1, <1>3, <2>1, <2>2 DEF Stage, Shows
  <2>4. Sized(first)' /\ Sized(second)' /\ error' \in Errors
    BY <2>1 DEF Sized, Typed
  <2> QED
    BY <1>1, <2>1, <2>3, <2>4, InsideKeeps DEF RestInv
<1> QED
  BY <1>2, <1>3

(* The second image of a writer is black, like what the threads begin with. *)
LEMMA CreateImageKeeps == ASSUME ProgInv, CreateImage PROVE RestInv'
<1> USE DEF ProgInv
<1>1. PICK memory \in 0..3 :
        LET result == BMP_Create(BMP_GetWidth(first), BMP_GetHeight(first), BMP_DEPTH, memory)
        IN  second' = result.bmp /\ error' = result.status
  BY DEF CreateImage
<1>2. /\ todo # << >> /\ pc = "second" /\ pc' = "check second" /\ Command.program \in Writers
      /\ UNCHANGED <<files, todo, first, drawn, meant, lost, ended, vars>>
  BY DEF CreateImage, Runs
<1>3. image' = image /\ blur' = blur
  BY <1>2 DEF vars
<1>4. Command' = Command
  BY <1>2 DEF Command
<1>5. Shows(first, Command.in)
  BY <1>2 DEF Stage
<1> DEFINE m == drawn[Command.in]
           w == m.width
           h == m.height
           result == BMP_Create(w, h, 32, memory)
<1>6. /\ BMP_GetWidth(first) = w /\ BMP_GetHeight(first) = h /\ IsPicture(m)
      /\ Command.in \in DOMAIN drawn
  BY <1>5, ShowsIs
<1>7. Fits(w, h) /\ m = PictureOf(w, h, m.pixels) /\ w \in Nat \ {0} /\ h \in Nat \ {0}
  BY <1>6, PictureIs DEF Fits
<1>8. second' = result.bmp /\ error' = result.status
  BY <1>1, <1>6 DEF BMP_DEPTH
<1> HIDE DEF w, h, result
<1>9. result = Failed("BMP_OUT_OF_MEMORY") \/ result.status = "BMP_OK"
  BY <1>7 DEF result, BMP_Create, Done
<1>10. ASSUME result.status = "BMP_OK" PROVE SecondReady' /\ Sized(second')
  <2>1. Canvas(second', w, h, [p \in Grid(w, h) |-> Black])
    BY <1>7, <1>8, <1>10, BlankCanvas DEF result
  <2>2. Command.program = "blur_parallel" => blur = [p \in Grid(w, h) |-> Black]
    <3> SUFFICES ASSUME Command.program = "blur_parallel"
                 PROVE  blur = [p \in Grid(w, h) |-> Black]
      OBVIOUS
    <3>1. Command.in = In
      BY <1>2, CommandIs DEF ParallelFirst
    <3>2. blur = [p \in AllPixels |-> Black] /\ drawn[In] = image
      BY <1>2, <1>6, <3>1 DEF ParallelFirst
    <3>3. Grid(w, h) = AllPixels
      BY <3>1, <3>2 DEF Grid, AllPixels, w, h
    <3> QED
      BY <3>2, <3>3
  <2>3. AllBlack' = [p \in Grid(w, h) |-> Black]
    BY <1>2, <1>4 DEF AllBlack, w, h
  <2>4. Command.program # "compare_bmp"
    BY <1>2 DEF Writers
  <2>5. w = drawn'[Command'.in].width /\ h = drawn'[Command'.in].height
    BY <1>2, <1>4 DEF w, h
  <2>6. SecondReady'
    BY <1>3, <1>4, <2>1, <2>2, <2>3, <2>4, <2>5 DEF SecondReady, SecondIs
  <2>7. Sized(second')
    BY <1>7, <2>1, CanvasIs DEF Sized
  <2> QED
    BY <2>6, <2>7
<1>11. Sized(second') /\ error' \in Errors /\ (error' = "BMP_OK" => SecondReady')
  <2>1. CASE result.status = "BMP_OK"
    BY <1>8, <1>10, <2>1 DEF Errors
  <2>2. CASE result = Failed("BMP_OUT_OF_MEMORY")
    BY <1>8, <2>2 DEF Failed, Sized, Errors
  <2> QED
    BY <1>9, <2>1, <2>2
<1>12. Stage'
  BY <1>2, <1>4, <1>5, <1>11 DEF Stage, Shows
<1>13. Sized(first)' /\ Sized(second)'
  BY <1>2, <1>11 DEF Sized, Typed
<1> QED
  BY <1>2, <1>3, <1>11, <1>12, <1>13, InsideKeeps DEF RestInv

(* compare_bmp reads its second file. *)
LEMMA ReadOtherKeeps == ASSUME ProgInv, ReadOther PROVE RestInv'
<1> USE DEF ProgInv
<1>1. PICK memory \in 0..3 : LET result == BMP_ReadFile(files[Command.out], memory)
                             IN  second' = result.bmp /\ error' = result.status
  BY DEF ReadOther
<1>2. /\ todo # << >> /\ pc = "second" /\ pc' = "check second"
      /\ Command.program = "compare_bmp"
      /\ UNCHANGED <<files, todo, first, drawn, meant, lost, ended, vars>>
  BY DEF ReadOther, Runs
<1>3. /\ error' \in Errors /\ Sized(second')
      /\ error' = "BMP_OK" => Shows(second', Command.out)
  BY <1>1, <1>2, ReadShows, CommandIs
<1>4. image' = image /\ blur' = blur
  BY <1>2 DEF vars
<1>5. Command' = Command
  BY <1>2 DEF Command
<1>6. error' = "BMP_OK" => SecondReady'
  BY <1>2, <1>3, <1>5 DEF SecondReady, Shows
<1>7. Shows(first, Command.in)'
  BY <1>2, <1>5 DEF Stage, Shows
<1>8. Stage'
  BY <1>2, <1>6, <1>7 DEF Stage
<1>9. Sized(first)' /\ Sized(second)'
  BY <1>2, <1>3 DEF Sized, Typed
<1> QED
  BY <1>2, <1>3, <1>4, <1>8, <1>9, InsideKeeps DEF RestInv

(* The second image stays ready. *)
LEMMA SecondReadyKept ==
    ASSUME SecondReady, UNCHANGED <<todo, second, drawn, blur>> PROVE SecondReady'
<1>1. Command' = Command
  BY DEF Command
<1>2. AllBlack' = AllBlack
  BY <1>1 DEF AllBlack
<1> QED
  BY <1>1, <1>2 DEF SecondReady, SecondIs, Shows

(* The status of the second image. *)
LEMMA CheckSecondKeeps == ASSUME ProgInv, CheckSecond PROVE RestInv'
<1> USE DEF ProgInv
<1>1. todo # << >> /\ pc = "check second" /\ Check("loop") /\ UNCHANGED vars
  BY DEF CheckSecond
<1>2. CASE error # "BMP_OK"
  BY <1>1, <1>2, ExitKeeps DEF Check, RestInv
<1>3. CASE error = "BMP_OK"
  <2>1. /\ pc' = "loop" /\ image' = image /\ blur' = blur
        /\ UNCHANGED <<files, todo, first, second, error, drawn, meant, lost, ended>>
    BY <1>1, <1>3 DEF Check, vars
  <2>2. Command' = Command
    BY <2>1 DEF Command
  <2>3. SecondReady'
    BY <1>1, <1>3, <2>1, SecondReadyKept DEF Stage
  <2>4. Shows(first, Command.in)'
    BY <1>1, <2>1, <2>2 DEF Stage, Shows
  <2>5. Stage'
    BY <2>1, <2>3, <2>4 DEF Stage
  <2>6. Sized(first)' /\ Sized(second)' /\ error' \in Errors
    BY <2>1 DEF Sized, Typed
  <2> QED
    BY <1>1, <2>1, <2>5, <2>6, InsideKeeps DEF RestInv
<1> QED
  BY <1>2, <1>3

(* A loop that paints what a program is for. *)
LEMMA LoopKeeps ==
    ASSUME ProgInv, todo # << >>, pc = "loop", pc' = "write",
           Command.program \in {"negative", "blur_sequential"},
           second' = Filled(Output.pixels),
           UNCHANGED <<files, todo, first, error, drawn, meant, lost, ended, vars>>
    PROVE  RestInv'
<1> USE DEF ProgInv
<1> DEFINE m == drawn[Command.in]
           w == m.width
           h == m.height
           colours == Output.pixels
<1>1. Shows(first, Command.in) /\ SecondReady
  BY DEF Stage
<1>2. /\ BMP_GetWidth(first) = w /\ BMP_GetHeight(first) = h /\ IsPicture(m)
      /\ Command.in \in DOMAIN drawn
  BY <1>1, ShowsIs
<1>3. w \in Nat \ {0} /\ h \in Nat \ {0}
  BY <1>2, PictureIs DEF Fits
<1>4. colours \in [Grid(w, h) -> Colours]
  BY <1>2, OutputIsPicture DEF Writers, Programs
<1>5. Canvas(second, w, h, AllBlack)
  BY <1>1 DEF SecondReady, SecondIs
<1> HIDE DEF colours, w, h
<1>6. Canvas(second', w, h, colours)
  BY <1>2, <1>3, <1>4, <1>5, FilledCanvas DEF colours
<1>7. UNCHANGED <<image, blur, box_size, num_threads, status>>
  BY DEF vars
<1>8. Output' = Output /\ Command' = Command
  BY <1>7, OutputKept DEF Command
<1>9. SecondIs(Output.pixels)'
  BY <1>6, <1>8 DEF SecondIs, colours, w, h
<1>10. Stage'
  BY <1>1, <1>8, <1>9 DEF Stage, Shows
<1>11. Sized(first)' /\ Sized(second)'
  BY <1>3, <1>6, CanvasIs DEF Sized, Typed
<1>12. error' \in Errors
  BY DEF Typed
<1> QED
  BY <1>7, <1>10, <1>11, <1>12, InsideKeeps DEF RestInv

(* The loop of negative paints the inverted picture. *)
LEMMA NegateKeeps == ASSUME ProgInv, Negate PROVE RestInv'
<1> USE DEF ProgInv
<1>1. /\ todo # << >> /\ pc = "loop" /\ pc' = "write" /\ Command.program = "negative"
      /\ UNCHANGED <<files, todo, first, error, drawn, meant, lost, ended, vars>>
  BY DEF Negate, Runs
<1>2. Picture(first) = drawn[Command.in] /\ Command.in \in DOMAIN drawn
  BY <1>1 DEF Stage, Shows
<1>3. Output.pixels = [p \in DOMAIN Picture(first).pixels |-> Inverted(Picture(first).pixels[p])]
  BY <1>1, <1>2, OutputIs DEF Writers, Programs
<1>4. second' = Filled(Output.pixels)
  BY <1>3 DEF Negate
<1> QED
  BY <1>1, <1>4, LoopKeeps

(* The loop of blur_sequential paints the blurred picture. *)
LEMMA BlurAllKeeps == ASSUME ProgInv, BlurAll PROVE RestInv'
<1> USE DEF ProgInv
<1>1. /\ todo # << >> /\ pc = "loop" /\ pc' = "write" /\ Command.program = "blur_sequential"
      /\ UNCHANGED <<files, todo, first, error, drawn, meant, lost, ended, vars>>
  BY DEF BlurAll, Runs
<1>2. Picture(first) = drawn[Command.in] /\ Command.in \in DOMAIN drawn
  BY <1>1 DEF Stage, Shows
<1>3. Output.pixels = Sequential!Blurred(Picture(first), box_size)
  BY <1>1, <1>2, OutputIs DEF Writers, Programs
<1>4. second' = Filled(Output.pixels)
  BY <1>3 DEF BlurAll
<1> QED
  BY <1>1, <1>4, LoopKeeps

(* In blur_parallel the input shows the threads' image. *)
LEMMA ParallelIs ==
    ASSUME ProgInv, Runs("loop", {"blur_parallel"})
    PROVE  /\ todo # << >> /\ pc = "loop" /\ Command.program = "blur_parallel"
           /\ Command.in = In /\ In \in DOMAIN drawn /\ drawn[In] = image /\ IsPicture(image)
           /\ Shows(first, Command.in)
           /\ image.width \in Nat \ {0} /\ image.height \in Nat \ {0}
           /\ Canvas(second, image.width, image.height, blur)
           /\ Grid(image.width, image.height) = AllPixels
<1> USE DEF ProgInv
<1>1. todo # << >> /\ pc = "loop" /\ Command.program = "blur_parallel"
  BY DEF Runs
<1>2. Command.in = In
  BY <1>1, CommandIs DEF ParallelFirst
<1>3. Shows(first, Command.in) /\ SecondReady
  BY <1>1 DEF Stage
<1>4. In \in DOMAIN drawn /\ IsPicture(drawn[In])
  BY <1>2, <1>3, ShowsIs
<1>5. drawn[In] = image
  BY <1>1, <1>4 DEF ParallelFirst
<1>6. image.width \in Nat \ {0} /\ image.height \in Nat \ {0}
  BY <1>4, <1>5, PictureIs DEF Fits
<1>7. Canvas(second, image.width, image.height, blur)
  BY <1>1, <1>2, <1>3, <1>5 DEF SecondReady, SecondIs
<1> QED
  BY <1>1, <1>2, <1>3, <1>4, <1>5, <1>6, <1>7 DEF Grid, AllPixels

(* The second image has the pixels that the threads have set. *)
LEMMA BlurThreadsKeeps == ASSUME ProgInv, BlurThreads PROVE RestInv'
<1> USE DEF ProgInv
<1>1. /\ Runs("loop", {"blur_parallel"})
      /\ UNCHANGED <<files, todo, pc, first, error, drawn, meant, lost, ended>>
  BY DEF BlurThreads
<1> DEFINE w == image.width
           h == image.height
<1>2. /\ todo # << >> /\ pc = "loop" /\ Command.program = "blur_parallel"
      /\ Command.in = In /\ In \in DOMAIN drawn /\ drawn[In] = image
      /\ Shows(first, Command.in)
      /\ w \in Nat \ {0} /\ h \in Nat \ {0}
      /\ Canvas(second, w, h, blur)
      /\ Grid(w, h) = AllPixels
  BY <1>1, ParallelIs
<1>3. image' = image
  BY DEF BlurThreads, SetPixel, NextRow, ThreadEnds, Create, CreateFails, Join
<1>4. Canvas(second', w, h, blur')
  <2>1. CASE second' = second /\ blur' = blur
    BY <1>2, <2>1
  <2>2. ASSUME NEW t \in Threads, SetPixel(t),
               second' = BMP_SetPixelRGB(second, x[t], y[t], blur'[<<x[t], y[t]>>])
        PROVE  Canvas(second', w, h, blur')
    <3> DEFINE here == <<x[t], y[t]>>
               colour == Colour(x[t], y[t])
    <3>1. TypeOK /\ Left(t) <= x[t] /\ x[t] < Right(t) /\ y[t] < image.height
      BY <2>2 DEF SetPixel, ThreadInv, IInv, Inside
    <3>2. Left(t) \in 0..w /\ Right(t) \in 0..w
      BY <1>2, <3>1, Sizes, BandInside DEF Threads, Left, Right
    <3>3. x[t] \in 0..w /\ y[t] \in 0..h
      BY <3>1 DEF TypeOK
    <3>4. here \in AllPixels /\ here[1] = x[t] /\ here[2] = y[t]
      BY <1>2, <3>1, <3>2, <3>3 DEF AllPixels
    <3>5. colour \in Colours
      BY <3>1, <3>4, ColourIsBlurred
    <3>6. blur' = [blur EXCEPT ![here] = colour]
      BY <2>2 DEF SetPixel
    <3>7. blur \in [AllPixels -> Colours]
      BY <3>1 DEF TypeOK
    <3> HIDE DEF here, colour
    <3>8. blur'[here] = colour
      BY <3>4, <3>6, <3>7
    <3>9. second' = BMP_SetPixelRGB(second, here[1], here[2], colour)
      BY <2>2, <3>4, <3>8 DEF here
    <3> HIDE DEF w, h
    <3>10. here \in Grid(w, h)
      BY <1>2, <3>4
    <3>11. Canvas(BMP_SetPixelRGB(second, here[1], here[2], colour), w, h,
                  [blur EXCEPT ![here] = colour])
      BY <1>2, <3>5, <3>10, PixelSet
    <3> QED
      BY <3>6, <3>9, <3>11
  <2>3. (second' = second /\ blur' = blur)
        \/ \E t \in Threads :
             SetPixel(t) /\ second' = BMP_SetPixelRGB(second, x[t], y[t], blur'[<<x[t], y[t]>>])
    BY DEF BlurThreads, NextRow, ThreadEnds, Create, CreateFails, Join
  <2> QED
    BY <2>1, <2>2, <2>3
<1>5. Command' = Command
  BY <1>1 DEF Command
<1>6. SecondReady'
  BY <1>1, <1>2, <1>4, <1>5 DEF SecondReady, SecondIs
<1>7. Stage'
  BY <1>1, <1>2, <1>5, <1>6 DEF Stage, Shows
<1>8. Sized(first)' /\ Sized(second)' /\ error' \in Errors
  BY <1>1, <1>2, <1>4, CanvasIs DEF Sized, Typed
<1> QED
  BY <1>1, <1>2, <1>3, <1>7, <1>8, InsideKeeps DEF RestInv

(* A crash in a join leaves the disk alone. *)
LEMMA BlurCrashesKeeps == ASSUME ProgInv, BlurCrashes PROVE RestInv'
  BY ExitKeeps DEF ProgInv, BlurCrashes, Runs, RestInv

(* compare_bmp compares the pictures. *)
LEMMA CompareKeeps == ASSUME ProgInv, Compare PROVE RestInv'
<1> USE DEF ProgInv
<1> DEFINE equal == /\ BMP_GetWidth(first) = BMP_GetWidth(second)
                    /\ BMP_GetHeight(first) = BMP_GetHeight(second)
                    /\ Incorrect = 0
           verdict == IF equal THEN "equal" ELSE "different"
<1>1. /\ todo # << >> /\ pc = "loop" /\ Command.program = "compare_bmp"
      /\ Exit("success", verdict) /\ UNCHANGED vars
  BY DEF Compare, Runs
<1>2. Shows(first, Command.in) /\ Shows(second, Command.out)
  BY <1>1 DEF Stage, SecondReady
<1> DEFINE w == drawn[Command.in].width
           h == drawn[Command.in].height
<1>3. /\ first # NULL /\ BMP_GetWidth(first) = w /\ BMP_GetHeight(first) = h
      /\ Picture(first) = drawn[Command.in] /\ IsPicture(drawn[Command.in])
  BY <1>2, ShowsIs
<1>4. /\ second # NULL /\ Picture(second) = drawn[Command.out]
      /\ BMP_GetWidth(second) = drawn[Command.out].width
      /\ BMP_GetHeight(second) = drawn[Command.out].height
  BY <1>2, ShowsIs
<1>5. w \in Nat \ {0} /\ h \in Nat \ {0}
  BY <1>3, PictureIs DEF Fits
<1>6. equal <=> drawn[Command.in] = drawn[Command.out]
  <2>1. CASE BMP_GetWidth(second) = w /\ BMP_GetHeight(second) = h
    <3> HIDE DEF w, h
    <3>1. Incorrect = 0 <=> Picture(first) = Picture(second)
      BY <1>3, <1>4, <1>5, <2>1, ComparedIs
    <3> QED
      BY <1>3, <1>4, <2>1, <3>1
  <2>2. CASE ~(BMP_GetWidth(second) = w /\ BMP_GetHeight(second) = h)
    BY <1>3, <1>4, <2>2
  <2> QED
    BY <2>1, <2>2
<1> HIDE DEF equal
<1>7. verdict \in {"none", "equal", "different"} /\ (verdict = "equal" <=> equal)
  OBVIOUS
<1> HIDE DEF verdict
<1> QED
  BY <1>1, <1>6, <1>7, ExitKeeps DEF RestInv

(* The status of the write: success is reported of what was written. *)
LEMMA CheckWriteKeeps == ASSUME ProgInv, CheckWrite PROVE RestInv'
<1> USE DEF ProgInv
<1>1. todo # << >> /\ pc = "check write"
  BY DEF CheckWrite
<1>2. CASE error = "BMP_OK"
  <2>1. Exit("success", "none") /\ UNCHANGED vars
    BY <1>2 DEF CheckWrite
  <2>2. Written(Command) /\ Command.program # "compare_bmp"
    BY <1>1, <1>2 DEF Stage, Writers
  <2> QED
    BY <1>1, <2>1, <2>2, ExitKeeps DEF RestInv
<1>3. CASE error # "BMP_OK"
  <2>1. Exit("failure", "none")
    BY <1>3 DEF CheckWrite
  <2> QED
    BY <1>1, <2>1, ExitKeeps DEF RestInv
<1> QED
  BY <1>2, <1>3

(* What is written is the program's output. *)
LEMMA ReadyToWrite ==
    ASSUME ProgInv,
           \/ Runs("write", {"negative", "blur_sequential"}) /\ UNCHANGED vars
           \/ Runs("loop", {"blur_parallel"}) /\ WriteFile
    PROVE  LET m == drawn[Command.in] IN
           /\ todo # << >> /\ pc # "check write" /\ Command.program \in Writers
           /\ Command.in \in DOMAIN drawn
           /\ Shows(first, Command.in)
           /\ Canvas(second, m.width, m.height, Output.pixels)
           /\ UNCHANGED <<image, blur, num_threads, status>>
<1> USE DEF ProgInv
<1>1. CASE Runs("write", {"negative", "blur_sequential"}) /\ UNCHANGED vars
  <2>1. todo # << >> /\ pc = "write" /\ Command.program \in Writers
    BY <1>1 DEF Runs, Writers, Programs
  <2>2. Shows(first, Command.in) /\ SecondIs(Output.pixels)
    BY <2>1 DEF Stage
  <2>3. UNCHANGED <<image, blur, num_threads, status>>
    BY <1>1 DEF vars
  <2> QED
    BY <2>1, <2>2, <2>3 DEF Shows, SecondIs
<1>2. CASE Runs("loop", {"blur_parallel"}) /\ WriteFile
  <2>1. /\ todo # << >> /\ pc = "loop" /\ Command.program = "blur_parallel"
        /\ Command.in = In /\ In \in DOMAIN drawn /\ drawn[In] = image
        /\ Shows(first, Command.in)
        /\ Canvas(second, image.width, image.height, blur)
    BY <1>2, ParallelIs
  <2>2. main = "join" /\ i = num_threads /\ UNCHANGED <<image, blur, num_threads, status>>
    BY <1>2 DEF WriteFile
  <2>3. Output.pixels = blur
    BY <2>1, <2>2, ParallelOutput
  <2> QED
    BY <2>1, <2>2, <2>3 DEF Writers, Programs
<1> QED
  BY <1>1, <1>2

(* A write leaves the output, an incomplete file that is refused, or       *)
(* nothing new.                                                            *)
LEMMA WriteImageKeeps == ASSUME ProgInv, WriteImage PROVE RestInv'
<1> USE DEF ProgInv
<1> DEFINE m == drawn[Command.in]
           w == m.width
           h == m.height
           out == Command.out
           new == Contents(second)
<1>1. /\ todo # << >> /\ pc # "check write" /\ Command.program \in Writers
      /\ Command.in \in DOMAIN drawn
      /\ Shows(first, Command.in) /\ Canvas(second, w, h, Output.pixels)
      /\ UNCHANGED <<image, blur, num_threads, status>>
  <2>1. \/ Runs("write", {"negative", "blur_sequential"}) /\ UNCHANGED vars
        \/ Runs("loop", {"blur_parallel"}) /\ WriteFile
    BY DEF WriteImage
  <2> QED
    BY <2>1, ReadyToWrite
<1>2. Fits(w, h) /\ w \in Nat \ {0} /\ h \in Nat \ {0}
  BY <1>1, PictureIs DEF Disk, Fits
<1>3. IsPicture(Output) /\ Output = PictureOf(w, h, Output.pixels)
  BY <1>1, OutputIs, OutputIsPicture
<1>4. /\ new \in Seq(Bytes) /\ IsWhole(new) /\ Shown(new) = Output
      /\ new = Format!Encoded(Output, BMP_DEPTH)
  <2> DEFINE pixels == Output.pixels
  <2>1. Canvas(second, w, h, pixels) /\ Output = PictureOf(w, h, pixels)
    BY <1>1, <1>3
  <2> HIDE DEF w, h, pixels
  <2>2. new \in Seq(Bytes)
    BY <1>2, <2>1, ContentsIs
  <2>3. IsWhole(new) /\ Loaded(new) = second
    BY <1>2, <2>1, WrittenIsRead
  <2>4. Picture(second) = PictureOf(w, h, pixels)
    BY <1>2, <2>1, CanvasPicture
  <2>5. new = Format!Encoded(PictureOf(w, h, pixels), 32)
    BY <1>2, <2>1, EncodedIs
  <2>6. Shown(new) = Picture(Loaded(new))
    BY <2>2, <2>3, ReadableIs
  <2> QED
    BY <2>1, <2>2, <2>3, <2>4, <2>5, <2>6 DEF BMP_DEPTH
<1>5. PICK result \in BMP_WriteFile(second, files[out]) :
        /\ files' = [files EXCEPT ![out] = result.file]
        /\ error' = result.status
        /\ IF result.status = "BMP_FILE_NOT_FOUND" THEN UNCHANGED <<drawn, lost>>
           ELSE /\ drawn' = [n \in DOMAIN drawn \cup {out} |->
                               IF n = out THEN Output ELSE drawn[n]]
                /\ lost' = IF /\ result.status = "BMP_OK"
                              /\ result.file # new
                           THEN lost \cup {out} ELSE lost \ {out}
  BY DEF WriteImage
<1>6. pc' = "check write" /\ meant' = Result /\ UNCHANGED <<todo, first, second, ended>>
  BY DEF WriteImage
<1>7. \/ result.status = "BMP_FILE_NOT_FOUND" /\ result.file = files[out]
      \/ /\ result.status \in {"BMP_IO_ERROR", "BMP_OK"}
         /\ \/ result.file = new
            \/ result.file \in Seq(Bytes) /\ ~IsWhole(result.file)
  <2>1. CASE result \in {[status |-> "BMP_FILE_NOT_FOUND", file |-> files[out]],
                         [status |-> "BMP_OK", file |-> new]}
    BY <2>1
  <2>2. CASE result \in [status : {"BMP_IO_ERROR", "BMP_OK"},
                         file : {SubSeq(new, 1, Len(new) - cut) : cut \in Cuts}]
    <3>1. result.status \in {"BMP_IO_ERROR", "BMP_OK"}
      BY <2>2
    <3>2. PICK cut \in Cuts : result.file = SubSeq(new, 1, Len(new) - cut)
      BY <2>2
    <3>3. cut \in Nat \ {0}
      BY BitMapAssumption
    <3>4. SubSeq(new, 1, Len(new) - cut) \in Seq(Bytes)
          /\ ~IsWhole(SubSeq(new, 1, Len(new) - cut))
      <4> DEFINE pixels == Output.pixels
      <4>1. Canvas(second, w, h, pixels)
        BY <1>1
      <4> HIDE DEF w, h, pixels
      <4> QED
        BY <1>2, <3>3, <4>1, CutIsRefused
    <3> QED
      BY <3>1, <3>2, <3>4
  <2> QED
    BY <2>1, <2>2 DEF BMP_WriteFile
<1>8. out \in Names
  BY <1>1, CommandIs
<1> HIDE DEF new, w, h, out
<1>9. /\ files \in [Names -> Seq(Bytes) \cup {NULL}] /\ DOMAIN drawn \subseteq Names
      /\ lost \subseteq Names /\ \A n \in DOMAIN drawn : IsPicture(drawn[n])
      /\ drawn = [n \in DOMAIN drawn |-> drawn[n]]
  BY DEF Disk
<1>10. result.file \in Seq(Bytes) \cup {NULL}
  BY <1>4, <1>7, <1>8, <1>9
<1>11. files'[out] = result.file /\ \A n \in Names \ {out} : files'[n] = files[n]
  BY <1>5, <1>8, <1>9
<1>12. Disk'
  <2>1. files' \in [Names -> Seq(Bytes) \cup {NULL}]
    BY <1>5, <1>9, <1>10
  <2>2. lost' \subseteq Names
    BY <1>5, <1>8, <1>9
  <2>3. CASE result.status = "BMP_FILE_NOT_FOUND"
    BY <1>5, <1>9, <2>1, <2>2, <2>3 DEF Disk
  <2>4. CASE result.status # "BMP_FILE_NOT_FOUND"
    <3>1. drawn' = [n \in DOMAIN drawn \cup {out} |-> IF n = out THEN Output ELSE drawn[n]]
      BY <1>5, <2>4
    <3>2. DOMAIN drawn' = DOMAIN drawn \cup {out}
      BY <3>1
    <3>3. \A n \in DOMAIN drawn' : drawn'[n] = IF n = out THEN Output ELSE drawn[n]
      BY <3>1, <3>2
    <3>4. \A n \in DOMAIN drawn' : IsPicture(drawn'[n])
      BY <1>3, <1>9, <3>2, <3>3
    <3>5. drawn' = [n \in DOMAIN drawn' |-> drawn'[n]]
      BY <3>1
    <3> QED
      BY <1>8, <1>9, <2>1, <2>2, <3>2, <3>4, <3>5 DEF Disk
  <2> QED
    BY <2>3, <2>4
<1>13. ReadableMeansWhole'
  <2> SUFFICES ASSUME NEW n \in Names, files'[n] # NULL, Readable(files'[n])
               PROVE  n \in DOMAIN drawn' /\ Shown(files'[n]) = drawn'[n]
    BY DEF ReadableMeansWhole
  <2>1. files[n] # NULL /\ Readable(files[n]) =>
          n \in DOMAIN drawn /\ Shown(files[n]) = drawn[n]
    BY DEF ReadableMeansWhole
  <2>2. CASE result.status = "BMP_FILE_NOT_FOUND"
    <3>1. files'[n] = files[n] /\ drawn' = drawn
      BY <1>5, <1>7, <1>11, <2>2
    <3> QED
      BY <2>1, <3>1
  <2>3. CASE result.status # "BMP_FILE_NOT_FOUND"
    <3>1. drawn' = [k \in DOMAIN drawn \cup {out} |-> IF k = out THEN Output ELSE drawn[k]]
      BY <1>5, <2>3
    <3>2. CASE n # out
      <4>1. n \in DOMAIN drawn => n \in DOMAIN drawn' /\ drawn'[n] = drawn[n]
        BY <3>1, <3>2
      <4> QED
        BY <1>11, <2>1, <3>2, <4>1
    <3>3. CASE n = out
      <4>1. drawn'[n] = Output /\ n \in DOMAIN drawn'
        BY <3>1, <3>3
      <4>2. files'[n] = result.file
        BY <1>11, <3>3
      <4>3. IsWhole(files'[n])
        BY <1>10, <4>2, ReadableIs
      <4>4. files'[n] = new
        BY <1>7, <2>3, <4>2, <4>3
      <4> QED
        BY <1>4, <4>1, <4>4
    <3> QED
      BY <3>2, <3>3
  <2> QED
    BY <2>2, <2>3
<1>14. Command' = Command
  BY <1>6 DEF Command
<1>15. error' = "BMP_OK" => Written(Command)'
  <2> SUFFICES ASSUME result.status = "BMP_OK" PROVE Written(Command)'
    BY <1>5
  <2>1. Command'.out = out /\ Command'.program = Command.program
    BY <1>14 DEF out
  <2>2. CASE result.file # new
    <3>1. out \in lost'
      BY <1>5, <2>2
    <3> QED
      BY <2>1, <3>1 DEF Written
  <2>3. CASE PartLeftOut(Command.program)
    <3>1. LeftOut' = LeftOut
      BY <1>1, LeftOutKept
    <3> QED
      BY <2>1, <2>3, <3>1 DEF Written, PartLeftOut
  <2>4. CASE result.file = new /\ ~PartLeftOut(Command.program)
    <3>1. Output = meant'
      BY <1>6, <2>4 DEF Output
    <3>2. files'[out] = Format!Encoded(meant', BMP_DEPTH)
      BY <1>4, <1>11, <2>4, <3>1
    <3> QED
      BY <2>1, <3>2 DEF Written
  <2> QED
    BY <2>2, <2>3, <2>4
<1>16. Stage'
  BY <1>1, <1>6, <1>14, <1>15 DEF Stage
<1>17. Typed'
  <2>1. error' \in Errors
    BY <1>5, <1>7 DEF Errors
  <2> QED
    BY <1>6, <2>1 DEF Typed, Sized
<1>18. ParallelFirst'
  BY <1>6, <1>14 DEF ParallelFirst
<1>19. SuccessMeansDone'
  BY <1>6, MovingOn
<1> QED
  BY <1>12, <1>13, <1>16, <1>17, <1>18, <1>19 DEF RestInv

----------------------------------------------------------------------------
(* The files that there are at first *)

(* A file in the format, of any depth that the picture can have, is read,  *)
(* and shows the picture.                                                  *)
LEMMA FormatIsShown ==
    ASSUME NEW picture, IsPicture(picture), NEW d, CanHave(picture, d)
    PROVE  /\ Format!Encoded(picture, d) \in Seq(Bytes)
           /\ Readable(Format!Encoded(picture, d))
           /\ Shown(Format!Encoded(picture, d)) = picture
<1> DEFINE w == picture.width  h == picture.height  pixels == picture.pixels
           file == Format!Encoded(picture, d)
           bmp == Loaded(file)
<1>1. /\ Fits(w, h) /\ w \in Nat \ {0} /\ h \in Nat \ {0}
      /\ picture = PictureOf(w, h, pixels) /\ pixels \in [Grid(w, h) -> Colours]
  BY PictureIs DEF Fits
<1> HIDE DEF w, h, pixels
<1>2. CanHave(PictureOf(w, h, pixels), d) /\ file = Format!Encoded(PictureOf(w, h, pixels), d)
      /\ d \in Depths
  BY <1>1 DEF CanHave
<1>3. file \in Seq(Bytes) /\ IsWhole(file) /\ bmp.Header = NewHeader(w, h, d)
  BY <1>1, <1>2, EncodedLoads
<1>4. BMP_GetWidth(bmp) = w /\ BMP_GetHeight(bmp) = h
  <2>1. bmp # NULL
    BY <1>3, LoadedIs
  <2>2. bmp.Header.Width = w /\ bmp.Header.Height = h
    BY <1>1, <1>2, <1>3, NewHeaderOf
  <2> HIDE DEF bmp
  <2> QED
    BY <2>1, <2>2 DEF BMP_GetWidth, BMP_GetHeight
<1>5. \A p \in Grid(w, h) : BMP_GetPixelRGB(bmp, p[1], p[2], NULL) = pixels[p]
  BY <1>1, <1>2, EncodedPixel
<1> HIDE DEF bmp, file
<1>6. Picture(bmp) = picture
  <2> DEFINE px == [p \in Grid(w, h) |-> BMP_GetPixelRGB(bmp, p[1], p[2], NULL)]
  <2>1. Picture(bmp) = [width |-> w, height |-> h, pixels |-> px]
    BY <1>4 DEF Picture, Grid
  <2>2. px = pixels
    BY <1>1, <1>5
  <2> HIDE DEF px
  <2> QED
    BY <1>1, <2>1, <2>2 DEF PictureOf
<1>7. Readable(file) /\ Shown(file) = Picture(bmp)
  BY <1>3, ReadableIs DEF bmp
<1> QED
  BY <1>3, <1>6, <1>7 DEF file

(* If some of its end is missing, it is refused. *)
LEMMA FormatCut ==
    ASSUME NEW picture, IsPicture(picture), NEW d, CanHave(picture, d),
           NEW m \in 0..(Len(Format!Encoded(picture, d)) - 1)
    PROVE  /\ SubSeq(Format!Encoded(picture, d), 1, m) \in Seq(Bytes)
           /\ ~Readable(SubSeq(Format!Encoded(picture, d), 1, m))
<1> DEFINE w == picture.width  h == picture.height  pixels == picture.pixels
           file == Format!Encoded(picture, d)
           part == SubSeq(file, 1, m)
           header == NewHeader(w, h, d)
           end == Start(d) + h * Stride(w, d)
<1>1. /\ Fits(w, h) /\ w \in Nat \ {0} /\ h \in Nat \ {0}
      /\ picture = PictureOf(w, h, pixels) /\ pixels \in [Grid(w, h) -> Colours]
  BY PictureIs DEF Fits
<1> HIDE DEF w, h, pixels
<1>2. CanHave(PictureOf(w, h, pixels), d) /\ file = Format!Encoded(PictureOf(w, h, pixels), d)
      /\ d \in Depths /\ (d = 8 => PaletteSize <= 1024) /\ HeaderLength = 54
  BY <1>1 DEF CanHave, HeaderLength
<1>3. /\ file \in Seq(Bytes) /\ Len(file) = end
      /\ \A k \in 1..HeaderLength : file[k] = WriteHeader(header)[k]
  <2> DEFINE whole == Format!Encoded(PictureOf(w, h, pixels), d)
  <2>1. /\ whole \in Seq(Bytes) /\ Len(whole) = end
        /\ \A k \in 1..HeaderLength : whole[k] = WriteHeader(header)[k]
    <3>1. IsEncoded(whole, w, h, PictureOf(w, h, pixels), d)
      BY <1>1, <1>2, EncodedOf
    <3> HIDE DEF whole
    <3> QED
      BY <3>1 DEF IsEncoded
  <2>2. file = whole
    BY <1>2
  <2> HIDE DEF file, whole, end, header
  <2> QED
    BY <2>1, <2>2
<1>4. m \in Nat /\ m < end /\ m <= Len(file)
  <2> HIDE DEF end, file
  <2>1. m \in 0..(Len(file) - 1)
    BY DEF file
  <2> QED
    BY <1>3, <2>1
<1>5. header \in [DOMAIN Place -> Nat]
      /\ \A f \in DOMAIN Place : IF f \in Short THEN Fits2(header[f]) ELSE Fits4(header[f])
  BY <1>1, <1>2, HeaderFitsOf
<1>6. DataEnd(header) = end
  <2>1. header.BitsPerPixel = d /\ header.ImageDataSize = h * Stride(w, d)
    BY <1>1, <1>2, NewHeaderOf
  <2>2. HeaderLength + PaletteLength(header) = Start(d)
    <3> HIDE DEF header
    <3> QED
      BY <2>1 DEF PaletteLength, Start
  <2> HIDE DEF header
  <2> QED
    BY <2>1, <2>2, Zenon DEF DataEnd
<1> HIDE DEF file, header, end
<1>7. part \in Seq(Bytes) /\ Len(part) = m /\ \A k \in 1..m : part[k] = file[k]
  <2>1. 0 + m <= Len(file) /\ 0 \in Nat
    BY <1>4
  <2>2. part = SubSeq(file, 0 + 1, 0 + m) /\ \A k \in 1..m : 0 + k = k
    BY <1>4
  <2> HIDE DEF part
  <2> QED
    BY <1>3, <1>4, <2>1, <2>2, PartIs
<1> HIDE DEF part
<1>8. ASSUME IsWhole(part) PROVE FALSE
  <2>1. Len(part) >= HeaderLength
    BY <1>8 DEF IsWhole
  <2>2. \A k \in 1..HeaderLength : part[k] = WriteHeader(header)[k]
    <3> TAKE k \in 1..HeaderLength
    <3>1. k \in 1..m
      BY <1>2, <1>4, <1>7, <2>1
    <3> QED
      BY <1>3, <1>7, <3>1
  <2>3. ReadHeader(part) = header
    BY <1>5, <1>7, <2>1, <2>2, HeaderRoundTrip
  <2>4. Len(part) >= end
    BY <1>6, <1>8, <2>3 DEF IsWhole
  <2>5. end \in Nat
    <3>1. h * Stride(w, d) \in Nat /\ Start(d) \in Nat
      BY <1>1, <1>2, HeaderFitsOf
    <3> QED
      BY <3>1 DEF end
  <2> QED
    BY <1>4, <1>7, <2>4, <2>5
<1>9. ~Readable(part)
  BY <1>7, <1>8, ReadableIs
<1> QED
  BY <1>7, <1>9 DEF part, file

(* The files of the users: whole files in the format, and files that are   *)
(* missing or that end too early.                                          *)
InFormat(file, picture) ==
    \E d \in Depths : CanHave(picture, d) /\ file = Format!Encoded(picture, d)

CutShort(file, picture) ==
    \E d \in Depths : /\ CanHave(picture, d)
                      /\ \E m \in 0..(Len(Format!Encoded(picture, d)) - 1) :
                           file = SubSeq(Format!Encoded(picture, d), 1, m)

FilesInFormat ==
    /\ \A input \in Inputs :
         IF input.whole THEN InFormat(input.file, input.picture)
         ELSE input.file = NULL \/ CutShort(input.file, input.picture)
    /\ \A n \in DOMAIN Samples : InFormat(Samples[n].file, Samples[n].picture)

(* All such files show their pictures or are refused: the hypothesis of    *)
(* the theorems below holds of every choice of them.                       *)
THEOREM FormatShowsPictures == ASSUME FilesInFormat PROVE FilesShowPictures
<1>1. ASSUME NEW picture, IsPicture(picture), NEW file, InFormat(file, picture)
      PROVE  file \in Seq(Bytes) /\ Readable(file) /\ Shown(file) = picture
  <2>1. PICK d \in Depths : CanHave(picture, d) /\ file = Format!Encoded(picture, d)
    BY <1>1 DEF InFormat
  <2> QED
    BY <1>1, <2>1, FormatIsShown
<1>2. ASSUME NEW picture, IsPicture(picture), NEW file, CutShort(file, picture)
      PROVE  file \in Seq(Bytes) /\ ~Readable(file)
  <2>1. PICK d \in Depths : /\ CanHave(picture, d)
                            /\ \E m \in 0..(Len(Format!Encoded(picture, d)) - 1) :
                                 file = SubSeq(Format!Encoded(picture, d), 1, m)
    BY <1>2 DEF CutShort
  <2>2. PICK m \in 0..(Len(Format!Encoded(picture, d)) - 1) :
          file = SubSeq(Format!Encoded(picture, d), 1, m)
    BY <2>1
  <2> QED
    BY <1>2, <2>1, <2>2, FormatCut
<1>3. ~Readable(NULL)
  BY ReadableIs DEF IsWhole
<1>4. ASSUME NEW input \in Inputs
      PROVE  /\ input.file \in Seq(Bytes) \cup {NULL}
             /\ Readable(input.file) => input.whole /\ Shown(input.file) = input.picture
  <2>1. IsPicture(input.picture)
    BY ProgramsAssumption
  <2>2. IF input.whole THEN InFormat(input.file, input.picture)
        ELSE input.file = NULL \/ CutShort(input.file, input.picture)
    BY DEF FilesInFormat
  <2> QED
    BY <1>1, <1>2, <1>3, <2>1, <2>2
<1>5. ASSUME NEW n \in DOMAIN Samples
      PROVE  /\ Samples[n].file \in Seq(Bytes) \cup {NULL}
             /\ Readable(Samples[n].file) => Shown(Samples[n].file) = Samples[n].picture
  <2>1. IsPicture(Samples[n].picture) /\ InFormat(Samples[n].file, Samples[n].picture)
    BY ProgramsAssumption DEF FilesInFormat
  <2> QED
    BY <1>1, <2>1
<1> QED
  BY <1>4, <1>5 DEF FilesShowPictures

(* At first every file shows its picture, or is refused. *)
LEMMA InitProgInv == ASSUME FilesShowPictures, ProgInit PROVE ProgInv
<1>1. PICK input \in Inputs :
         /\ image = input.picture
         /\ files = [n \in Names |->
                       IF n = In THEN input.file
                       ELSE IF n \in DOMAIN Samples THEN Samples[n].file ELSE NULL]
         /\ drawn = [n \in DOMAIN Samples \cup {m \in {In} : input.whole} |->
                       IF n = In THEN image ELSE Samples[n].picture]
  BY DEF ProgInit
<1>2. /\ Init /\ todo \in Sessions /\ pc = "read"
      /\ first = NULL /\ second = NULL /\ error = "BMP_OK"
      /\ lost = {} /\ ended = << >>
  BY DEF ProgInit
<1>3. /\ In \in Names /\ DOMAIN Samples \subseteq Names \ {In}
      /\ Sessions \subseteq Seq([program : Programs, in : Names, out : Names])
      /\ \A session \in Sessions : \A k \in DOMAIN session :
           session[k].program = "blur_parallel" => k = 1 /\ session[k].in = In
  BY ProgramsAssumption
<1>4. /\ IsPicture(input.picture)
      /\ input.file \in Seq(Bytes) \cup {NULL}
      /\ Readable(input.file) => input.whole /\ Shown(input.file) = input.picture
  BY ProgramsAssumption DEF FilesShowPictures
<1>5. \A n \in DOMAIN Samples :
         /\ IsPicture(Samples[n].picture)
         /\ Samples[n].file \in Seq(Bytes) \cup {NULL}
         /\ Readable(Samples[n].file) => Shown(Samples[n].file) = Samples[n].picture
  BY ProgramsAssumption DEF FilesShowPictures
<1>6. ThreadInv
  BY <1>2, InitThreads
<1>7. todo \in Seq(Commands)
  BY <1>2, <1>3 DEF Commands
<1>8. Typed
  BY <1>2, <1>7 DEF Typed, Errors, Sized
<1>9. DOMAIN drawn = DOMAIN Samples \cup {m \in {In} : input.whole}
  BY <1>1
<1>10. /\ In \in DOMAIN drawn <=> input.whole
       /\ In \in DOMAIN drawn => drawn[In] = image
       /\ \A n \in DOMAIN Samples : n # In /\ n \in DOMAIN drawn /\ drawn[n] = Samples[n].picture
  BY <1>1, <1>3, <1>9
<1>11. Disk
  <2>1. files \in [Names -> Seq(Bytes) \cup {NULL}]
    BY <1>1, <1>4, <1>5
  <2>2. \A n \in DOMAIN drawn : n = In \/ n \in DOMAIN Samples
    BY <1>9
  <2>3. \A n \in DOMAIN drawn : IsPicture(drawn[n])
    BY <1>1, <1>4, <1>5, <1>10, <2>2
  <2>4. DOMAIN drawn \subseteq Names
    BY <1>3, <2>2
  <2>5. drawn = [n \in DOMAIN drawn |-> drawn[n]]
    BY <1>1
  <2> QED
    BY <1>2, <2>1, <2>3, <2>4, <2>5 DEF Disk
<1>12. ParallelFirst
  <2>1. \A k \in 1..Len(todo) : todo[k].program = "blur_parallel" => k = 1 /\ todo[k].in = In
    <3>1. DOMAIN todo = 1..Len(todo)
      BY <1>7
    <3> QED
      BY <1>2, <1>3, <3>1
  <2>2. blur = [p \in AllPixels |-> Black]
    BY <1>2 DEF Init, AllPixels
  <2> QED
    BY <1>10, <2>1, <2>2 DEF ParallelFirst
<1>13. Stage
  BY <1>2 DEF Stage
<1>14. ReadableMeansWhole
  <2> SUFFICES ASSUME NEW n \in Names, files[n] # NULL, Readable(files[n])
               PROVE  n \in DOMAIN drawn /\ Shown(files[n]) = drawn[n]
    BY DEF ReadableMeansWhole
  <2>1. CASE n = In
    BY <1>1, <1>4, <1>10, <2>1
  <2>2. CASE n # In
    BY <1>1, <1>5, <1>10, <2>2
  <2> QED
    BY <2>1, <2>2
<1>15. SuccessMeansDone
  BY <1>2 DEF SuccessMeansDone
<1> QED
  BY <1>6, <1>8, <1>11, <1>12, <1>13, <1>14, <1>15 DEF ProgInv

(* A step that changes nothing. *)
LEMMA StillRest == ASSUME ProgInv, UNCHANGED <<progVars, vars>> PROVE RestInv'
<1> USE DEF ProgInv
<1>1. /\ UNCHANGED <<files, todo, pc, first, second, error, drawn, meant, lost, ended>>
      /\ UNCHANGED <<image, blur, box_size, num_threads, main, i, status, x, y>>
  BY DEF progVars, vars
<1>2. Command' = Command /\ Output' = Output
  BY <1>1, OutputKept DEF Command
<1>3. Disk' /\ ReadableMeansWhole'
  BY <1>1, DiskKept
<1>4. Typed'
  BY <1>1 DEF Typed, Sized
<1>5. ParallelFirst'
  <2>1. AllPixels' = AllPixels
    BY <1>1 DEF AllPixels
  <2> QED
    BY <1>1, <1>2, <2>1 DEF ParallelFirst
<1>6. Stage'
  <2>1. SecondReady => SecondReady'
    BY <1>1, SecondReadyKept
  <2>2. Shows(first, Command.in) => Shows(first, Command.in)'
    BY <1>1, <1>2 DEF Shows
  <2>3. SecondIs(Output.pixels) => SecondIs(Output.pixels)'
    BY <1>1, <1>2 DEF SecondIs
  <2>4. Written(Command) => Written(Command)'
    <3>1. LeftOut' = LeftOut
      BY <1>1, LeftOutKept
    <3> QED
      BY <1>1, <1>2, <3>1 DEF Written, PartLeftOut
  <2> QED
    BY <1>1, <1>2, <2>1, <2>2, <2>3, <2>4 DEF Stage
<1>7. SuccessMeansDone'
  <2>1. LeftOut' = LeftOut
    BY <1>1, LeftOutKept
  <2> QED
    BY <1>1, <2>1 DEF SuccessMeansDone, PartLeftOut
<1> QED
  BY <1>3, <1>4, <1>5, <1>6, <1>7 DEF RestInv

(* Every step of a session keeps the invariant. *)
LEMMA NextProgInv == ProgInv /\ [ProgNext]_<<progVars, vars>> => ProgInv'
<1> SUFFICES ASSUME ProgInv, [ProgNext]_<<progVars, vars>> PROVE ProgInv'
  OBVIOUS
<1>1. ThreadInv'
  BY ProgKeepsThreads DEF ProgInv
<1>2. RestInv'
  <2>1. CASE ProgNext
    BY <2>1, ReadImageKeeps, CheckReadKeeps, CreateImageKeeps, ReadOtherKeeps, CheckSecondKeeps,
       NegateKeeps, BlurAllKeeps, BlurThreadsKeeps, BlurCrashesKeeps, CompareKeeps,
       WriteImageKeeps, CheckWriteKeeps, StillRest DEF ProgNext, Finished
  <2>2. CASE UNCHANGED <<progVars, vars>>
    BY <2>2, StillRest
  <2> QED
    BY <2>1, <2>2
<1> QED
  BY <1>1, <1>2 DEF ProgInv, RestInv

(* The invariant of a session: what holds at each place of a program, of   *)
(* the threads and of the disk.                                            *)
THEOREM ProgInductive == ASSUME FilesShowPictures PROVE ProgSpec => []ProgInv
<1>1. ProgInit => ProgInv
  BY InitProgInv
<1> QED
  BY <1>1, NextProgInv, PTL DEF ProgSpec

(* A file that can be read shows the picture that was put into it: an      *)
(* input that the library refuses, or a file that a failed write has cut   *)
(* off anywhere, is never taken for another picture.                       *)
THEOREM ReadableIsWhole == ASSUME FilesShowPictures PROVE ProgSpec => []ReadableMeansWhole
<1>1. ProgInv => ReadableMeansWhole
  BY DEF ProgInv
<1> QED
  BY <1>1, ProgInductive, PTL

(* A program that ends with success has done what it is for: the file it   *)
(* leaves is the one the format asks for, unless fclose alone lost some    *)
(* of it, or a band of blur_parallel was left out because its thread could *)
(* not be created; and compare_bmp finds two files equal if and only if    *)
(* the same picture was put into them.                                     *)
THEOREM SuccessIsDone == ASSUME FilesShowPictures PROVE ProgSpec => []SuccessMeansDone
<1>1. ProgInv => SuccessMeansDone
  BY DEF ProgInv
<1> QED
  BY <1>1, ProgInductive, PTL

(* The file that blur_parallel writes in a session is the one of           *)
(* blur_sequential, but for the black bands of threads that could not be   *)
(* created.                                                                *)
THEOREM ParallelInSessions == ProgSpec => []OutputIsSequential
<1>1. ProgInit => ThreadInv
  BY InitThreads DEF ProgInit
<1>2. ThreadInv => OutputIsSequential
  BY OutputDone
<1> QED
  BY <1>1, <1>2, ProgKeepsThreads, PTL DEF ProgSpec

(* get_pixel finds the pixels of the file, whatever its depth; in an       *)
(* 8-bit image they are the palette's colours at the indices; and while    *)
(* the threads run the second image has the pixels they have set.          *)
THEOREM PicturesAreInBytes == ASSUME FilesShowPictures PROVE ProgSpec => []PicturesInBytes
<1>1. ProgInv => PicturesInBytes
  <2> SUFFICES ASSUME ProgInv, todo # << >>, pc \in {"second", "loop"} PROVE PicturesInBytes
    BY DEF PicturesInBytes
  <2> USE DEF ProgInv
  <2>1. Shows(first, Command.in)
    BY DEF Stage
  <2> DEFINE w == first.Header.Width
             h == first.Header.Height
  <2>2. /\ Command.in \in DOMAIN drawn /\ Picture(first) = drawn[Command.in]
        /\ first # NULL /\ BMP_GetWidth(first) = w /\ BMP_GetHeight(first) = h
        /\ w \in Nat \ {0} /\ h \in Nat \ {0}
    BY <2>1, ShowsIs, PictureIs DEF Fits
  <2>3. ASSUME BMP_GetDepth(first) = 8, NEW p \in DOMAIN Picture(first).pixels
        PROVE  Picture(first).pixels[p] =
                 BMP_GetPaletteColor(first, BMP_GetPixelIndex(first, p[1], p[2], NULL), NULL)
    <3>1. first.Header.BitsPerPixel = 8
      BY <2>2, <2>3 DEF BMP_GetDepth
    <3>2. p \in Grid(w, h)
      BY <2>2, <2>3 DEF Picture, Grid
    <3>3. Picture(first).pixels[p] = BMP_GetPixelRGB(first, p[1], p[2], NULL)
      BY <2>3, Zenon DEF Picture
    <3>4. p[1] \in Nat /\ p[2] \in Nat /\ p[1] < w /\ p[2] < h
      <4> HIDE DEF w, h
      <4> QED
        BY <2>2, <3>2, GridIs
    <3>5. ~Outside(first, p[1], p[2])
      BY <2>2, <3>4 DEF Outside
    <3>6. BMP_GetPixelIndex(first, p[1], p[2], NULL) = first.Data[At(first, p[1], p[2]) + 1]
      BY <3>1, <3>5 DEF BMP_GetPixelIndex
    <3> DEFINE index == first.Data[At(first, p[1], p[2]) + 1]
    <3>7. BMP_GetPixelRGB(first, p[1], p[2], NULL) =
            <<first.Palette[index * 4 + 3], first.Palette[index * 4 + 2],
              first.Palette[index * 4 + 1]>>
      BY <3>1, <3>5 DEF BMP_GetPixelRGB
    <3> HIDE DEF index
    <3>8. BMP_GetPaletteColor(first, index, NULL) =
            <<first.Palette[index * 4 + 3], first.Palette[index * 4 + 2],
              first.Palette[index * 4 + 1]>>
      BY <2>2, <3>1 DEF BMP_GetPaletteColor
    <3> QED
      BY <3>3, <3>6, <3>7, <3>8 DEF index
  <2>4. ASSUME Runs("loop", {"blur_parallel"}) PROVE Picture(second).pixels = blur
    <3>1. /\ Canvas(second, image.width, image.height, blur)
          /\ image.width \in Nat \ {0} /\ image.height \in Nat \ {0}
      BY <2>4, ParallelIs
    <3>2. Picture(second) = PictureOf(image.width, image.height, blur)
      BY <3>1, CanvasPicture
    <3> QED
      BY <3>2 DEF PictureOf
  <2> QED
    BY <2>2, <2>3, <2>4 DEF PicturesInBytes
<1> QED
  BY <1>1, ProgInductive, PTL

(* Every byte on the disk is a byte, every image has all of its data, and  *)
(* the threads keep to their bands.                                        *)
THEOREM ProgTypeCorrect == ASSUME FilesShowPictures PROVE ProgSpec => []ProgTypeOK
<1>1. ProgInv => ProgTypeOK
  <2> SUFFICES ASSUME ProgInv PROVE ProgTypeOK
    OBVIOUS
  <2>1. TypeOK
    BY DEF ProgInv, ThreadInv, IInv
  <2>2. /\ pc \in {"read", "check read", "second", "check second", "loop", "write", "check write"}
        /\ error \in Errors /\ Sized(first) /\ Sized(second)
    BY DEF ProgInv, Typed
  <2>3. ASSUME NEW n \in Names, files[n] # NULL, NEW k \in DOMAIN files[n]
        PROVE  files[n][k] \in Bytes
    <3>1. files[n] \in Seq(Bytes)
      BY <2>3 DEF ProgInv, Disk
    <3> QED
      BY <2>3, <3>1
  <2>4. lost \subseteq Names
    BY DEF ProgInv, Disk
  <2> QED
    BY <2>1, <2>2, <2>3, <2>4 DEF ProgTypeOK, Errors, Sized
<1> QED
  BY <1>1, ProgInductive, PTL
=============================================================================
