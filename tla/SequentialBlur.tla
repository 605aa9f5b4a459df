--------------------------- MODULE SequentialBlur ---------------------------
(***************************************************************************)
(* blur_sequential.cc: the image as a function of the one that is blurred. *)
(* An image is [width, height, pixels], the colour of a pixel, named by    *)
(* its <<column, row>>, is <<red, green, blue>>.                           *)
(***************************************************************************)
EXTENDS Integers, FiniteSets, FiniteSetsExt

Pixels(image) == (0..(image.width - 1)) \X (0..(image.height - 1))

(* The pixels of the image at most size columns and rows away. *)
Box(image, size, p) ==
    {q \in Pixels(image) :
       /\ q[1] \in (p[1] - size)..(p[1] + size)
       /\ q[2] \in (p[2] - size)..(p[2] + size)}

(* The average of each of the three, cut off to an integer. *)
Average(image, box) ==
    LET Total(k) == FoldSet(LAMBDA q, sum : sum + image.pixels[q][k], 0, box)
        Mean(k)  == Total(k) \div Cardinality(box)
    IN  <<Mean(1), Mean(2), Mean(3)>>

Blurred(image, size) ==
    [p \in Pixels(image) |-> Average(image, Box(image, size, p))]
=============================================================================
