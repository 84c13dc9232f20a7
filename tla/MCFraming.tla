------------------------------ MODULE MCFraming ------------------------------
(***************************************************************************)
(* An instance of the framing for TLC: sizes below, at and above what a    *)
(* stream holds, and responses up to and above the largest that is taken.  *)
(***************************************************************************)
EXTENDS FramingProperties

Requests == {1, 3}
Responses == {1, 2, 3, 4}
=============================================================================
