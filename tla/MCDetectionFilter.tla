------------------------- MODULE MCDetectionFilter -------------------------
(* Instances of DetectionFilter for TLC.                                   *)
EXTENDS DetectionFilter

Box(l, r) == [left |-> l, right |-> r]

Det(class, p, box) == [c |-> class, prob |-> p, left |-> box.left, right |-> box.right]

\* Boxes of which the first and the third overlap the second by three
\* fifths, and a box apart from them and outside the region, which for one
\* detection is a single pixel.
MCDetections ==
  {Det("car", p, b) : p \in 1 .. 2, b \in {Box(0, 8), Box(2, 10), Box(4, 12)}}
    \union {Det(class, 1, Box(20, 24)) : class \in {"car", "bike"}}
    \union {Det("bike", 1, Box(0, 8)), Det("car", 2, Box(20, 21))}

MCRegion == Box(0, 12)
=============================================================================
