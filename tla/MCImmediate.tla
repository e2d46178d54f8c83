------------------------------ MODULE MCImmediate ------------------------------
(***************************************************************************)
(* Instances of Immediate for TLC: every I, S and B immediate, and for the *)
(* 20-bit formats every run of ones, which has each bit at each border of  *)
(* a field, its lower neighbour clear and its upper one set, and back.     *)
(***************************************************************************)
EXTENDS Immediate

Runs(lo, hi) == {a .. b : a \in lo .. hi, b \in lo - 1 .. hi}

MCImmediates ==
  [I |-> SUBSET (0 .. 11), S |-> SUBSET (0 .. 11), B |-> SUBSET (1 .. 12),
   U |-> Runs(12, 31), J |-> Runs(1, 20)]
MCBackground == {{}, 0 .. 31}
=============================================================================
