------------------------------- MODULE Strtol -------------------------------
(***************************************************************************)
(* "int value = strtol(s, &e, 10);", how Frames.cpp and util.cpp read a    *)
(* number: strtol() returns a long, and nothing checks whether it fits.    *)
(***************************************************************************)
EXTENDS Integers

CONSTANTS INT_MAX, LONG_MAX

\* A long holds every int.
ASSUME LimitsAssumption ==
  INT_MAX \in Nat /\ LONG_MAX \in Nat /\ INT_MAX <= LONG_MAX

INT_MIN == -INT_MAX - 1
LONG_MIN == -LONG_MAX - 1

\* strtol() stops at the limits of long; the int keeps the low bits of that.
Clamped(n) == IF n > LONG_MAX THEN LONG_MAX ELSE IF n < LONG_MIN THEN LONG_MIN ELSE n
AsInt(n) == ((n - INT_MIN) % (2 * (INT_MAX + 1))) + INT_MIN
=============================================================================
