-------------------------------- MODULE CInt --------------------------------
(* The int of the build. *)
EXTENDS Integers

CONSTANT IntMax         \* INT_MAX; INT_MIN is -IntMax - 1

ASSUME IntMaxAssumption == IntMax \in Nat \ {0}

(* n++ on an int: the add instruction wraps. *)
Incr(n) == IF n = IntMax THEN -IntMax - 1 ELSE n + 1
=============================================================================
