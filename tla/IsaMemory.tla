------------------------------- MODULE IsaMemory -------------------------------
(***************************************************************************)
(* What RV64IA says of the load and store instructions: an instruction     *)
(* changes its destination or the bytes it names and nothing else, a value *)
(* is extended as its opcode says, an instruction that faults changes      *)
(* nothing, and it faults exactly where nothing answers or the device is   *)
(* too narrow.  Register 0 always reads zero.                              *)
(*                                                                         *)
(* Only memory cells promise a value.  Reservations are not modelled: a    *)
(* store-conditional may fail at any time, as the ISA allows, and where    *)
(* there are no cells, a memory need not support the pair at all.          *)
(***************************************************************************)
EXTENDS Integers

CONSTANTS
  Cell,      \* addresses of memory cells
  Hole,      \* addresses that belong to no memory and no device
  Narrow,    \* addresses of devices that take one byte at a time
  AddrSpace, \* addresses are numbers modulo AddrSpace
  ImmSpan,   \* immediates are numbers modulo ImmSpan, the upper half negative
  Bits,      \* a byte is a set of bits, "sign" the highest
  Width,     \* bytes of a register
  AsAddress, \* the address a register holds
  Reg, Instruction

Byte == SUBSET Bits
Register == [0 .. Width - 1 -> Byte]
Zero == [k \in 0 .. Width - 1 |-> {}]
Reserving == {"LR", "SC"}
none == [op |-> "none"]

VARIABLES
  bytes, \* [Cell -> Byte]
  regs,
  ir     \* the instruction being executed, if there is one

vars == <<bytes, regs, ir>>

Init ==
  /\ bytes \in [Cell -> Byte]
  /\ regs \in [Reg -> Register] /\ regs[0] = Zero
  /\ ir = none

Fetch ==
  /\ ir = none
  /\ ir' \in Instruction
  /\ UNCHANGED <<bytes, regs>>

\* The sign-extended immediate; LR and SC have none.
Offset ==
  IF ir.op \in Reserving THEN 0
  ELSE IF ir.imm >= ImmSpan \div 2 THEN ir.imm - ImmSpan ELSE ir.imm

Addr == (AsAddress[regs[ir.rs1]] + Offset) % AddrSpace
Refused == Addr \in Hole \/ (Addr \in Narrow /\ ir.size # 1)
SetReg(v) == regs' = [r \in Reg |-> IF r = ir.rd /\ r # 0 THEN v ELSE regs[r]]

\* The bytes above the ones that were loaded.
Extended(v) ==
  \A k \in ir.size .. Width - 1 :
    v[k] = IF ir.op # "LU" /\ "sign" \in v[ir.size - 1] THEN Bits ELSE {}

Load ==
  /\ ir.op \in {"L", "LU", "LR"} /\ ~Refused
  /\ \E v \in Register :
       /\ Addr \in Cell =>
            /\ \A k \in 0 .. ir.size - 1 : Addr + k \in Cell => v[k] = bytes[Addr + k]
            /\ Extended(v)
       /\ SetReg(v)
  /\ UNCHANGED bytes

Written == [c \in Cell |->
  IF c - Addr \in 0 .. ir.size - 1 THEN regs[ir.rs2][c - Addr] ELSE bytes[c]]

Store ==
  /\ ir.op = "S" /\ ~Refused
  /\ bytes' = Written
  /\ UNCHANGED regs

StoreConditional ==
  /\ ir.op = "SC" /\ ~Refused
  /\ \/ bytes' = Written /\ SetReg(Zero)
     \/ UNCHANGED bytes /\ \E v \in Register \ {Zero} : SetReg(v)

Fault ==
  /\ ir.op # "plain"
  /\ Refused \/ (ir.op \in Reserving /\ Addr \notin Cell)
  /\ UNCHANGED <<bytes, regs>>

\* An instruction that does not access memory.
Plain ==
  /\ ir.op = "plain"
  /\ \E v \in Register : SetReg(v)
  /\ UNCHANGED bytes

Execute ==
  /\ ir # none
  /\ Load \/ Store \/ StoreConditional \/ Fault \/ Plain
  /\ ir' = none

Next == Fetch \/ Execute
Spec == Init /\ [][Next]_vars
=============================================================================
