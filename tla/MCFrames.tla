------------------------------ MODULE MCFrames ------------------------------
(***************************************************************************)
(* An instance of the frame ranges for TLC: ints of four bits, longs of    *)
(* six, and numbers around zero and around the limits of both.             *)
(***************************************************************************)
EXTENDS Frames

SomeNumbers == {-40, -8, -2, 0, 1, 2, 6, 7, 17}
=============================================================================
