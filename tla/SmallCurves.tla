----------------------------- MODULE SmallCurves -----------------------------
(* The multiples of the base point of the curve the instances use. *)

\* P = 101, D = 42, base point (6, 40) of order 13 on a curve of 104 points.
Multiples101 ==
  << <<0, 1>>, <<6, 40>>, <<84, 49>>, <<46, 74>>, <<28, 15>>, <<38, 9>>,
     <<9, 68>>, <<92, 68>>, <<63, 9>>, <<73, 15>>, <<55, 74>>, <<17, 49>>,
     <<95, 40>> >>
=============================================================================
