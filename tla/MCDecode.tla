------------------------------- MODULE MCDecode -------------------------------
(***************************************************************************)
(* Instances of Decode for TLC: the opcodes the table has and their        *)
(* neighbours, all funct3, every funct7 that is used, with its lower bits  *)
(* set and clear, and operand registers that matter to the exact words.    *)
(***************************************************************************)
EXTENDS Decode

Word(op, rd, f3, rs1, rs2, f7) ==
  [op |-> op, rd |-> rd, f3 |-> f3, rs1 |-> rs1, rs2 |-> rs2, f7 |-> f7,
   f6 |-> f7 \div 2, f5 |-> f7 \div 4]

MCOps == {3, 7, 15, 19, 23, 27, 35, 39, 47, 51, 55, 59, 63, 99, 103, 111, 115, 119}

\* Atomics compare the upper five bits of funct7; the others all of it or the
\* upper six bits.
MCFunct7(op) ==
  IF op = 47 THEN {4 * n : n \in 0 .. 31} \cup {1, 6, 11, 15}
  ELSE {0, 1, 2, 8, 9, 24, 32, 33}

MCWords ==
  UNION {{Word(op, rd, f3, rs1, rs2, f7) :
            rd \in {0, 1}, f3 \in 0 .. 7, rs1 \in {0, 3}, rs2 \in {0, 1, 2, 5},
            f7 \in MCFunct7(op)} : op \in MCOps}
=============================================================================
