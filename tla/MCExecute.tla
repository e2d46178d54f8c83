------------------------------- MODULE MCExecute -------------------------------
(***************************************************************************)
(* Instances of Execute for TLC: two registers beside x0, every choice of  *)
(* rd, rs1 and rs2 among them, and every value they can take.              *)
(***************************************************************************)
EXTENDS Execute, Bitwise

MCReg == 0 .. 2
MCAnd(a, b) == a & b
MCOr(a, b) == a | b
MCXor(a, b) == a ^^ b

\* All instructions with these operations, immediates and atomic functions.
Instructions(ops, imms, fns) ==
  [op : ops, fn : fns, imm : imms, rd : MCReg, rs1 : MCReg, rs2 : MCReg]
Plain(ops) == Instructions(ops, {0}, {"none"})

\* Register instructions that do what the ISA says.
SoundOps == (Arithmetics \ {"ADDI", "ADDIW", "SLLI", "SRLI"}) \cap Agreeing
SoundArithmetic ==
  Plain(SoundOps) \cup
  {i \in Instructions({"ADDI", "ADDIW"}, {-2, 1}, {"none"}) \cup
          Instructions({"SLLI", "SRLI"}, {1, 3}, {"none"}) : i.rs2 = 0} \cup
  {i \in Instructions(UnsignedImmediates \ {"SLTI"}, {3}, {"none"}) : i.rs2 = 0}

\* Branches have no rd and JAL and AUIPC no source; a jump is to an even offset.
Offsets == {-4, 2}
SoundJumps ==
  {i \in Instructions(Branches \cup {"JAL", "AUIPC", "JALR"}, Offsets, {"none"}) :
     /\ i.op \in Branches => i.rd = 0
     /\ i.op \notin Branches => i.rs2 = 0
     /\ i.op \in {"JAL", "AUIPC"} => i.rs1 = 0
     /\ i.op = "AUIPC" => i.imm >= 0
     /\ i.op = "JALR" => i.rd # i.rs1}
Sound == SoundArithmetic \cup SoundJumps

\* Of the atomics that write the register named by rs1's value, only AMOSWAP.W has
\* a use for rd.
Atomics ==
  Instructions({"AMO.D"}, {0}, {"SWAP", "ADD", "XOR"}) \cup
  Instructions({"AMO.X"}, {0}, {"SWAP"}) \cup
  {i \in Instructions({"AMO.X"}, {0}, {"ADD", "AND", "OR", "MIN", "MAXU"}) :
     i.rd = 0 /\ i.rs2 # 0}
All == Sound \cup Atomics

\* All is within the instructions of theorem ExecuteImplementsIsa.
ASSUME \A i \in All : i.op \in AtomicOps \/ Agrees(i)

\* JALR where the link overwrites the base.
JalrInPlace == {i \in Instructions({"JALR"}, {0}, {"none"}) : i.rd = i.rs1 /\ i.rd # 0} \cup
  Instructions({"AUIPC"}, {2}, {"none"})
=============================================================================
