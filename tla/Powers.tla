--------------------------------- MODULE Powers ---------------------------------
(***************************************************************************)
(* Powers of two: what a shift multiplies or divides by, and the number of *)
(* values a register or a word has.  It is a recursive function rather     *)
(* than "2 ^ n", of which the provers know no law.                         *)
(***************************************************************************)
EXTENDS Integers

Pow2[n \in Nat] == IF n = 0 THEN 1 ELSE 2 * Pow2[n - 1]
=============================================================================
