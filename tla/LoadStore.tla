------------------------------- MODULE LoadStore -------------------------------
(***************************************************************************)
(* The load, store, LR and SC instructions of CPU on the bus of Mmu, in    *)
(* Bare mode: the address each computes, the data it passes, what SetReg   *)
(* is given of the data that comes back, and what a fault leaves behind.   *)
(* Execute models the instructions that stay inside the register file;     *)
(* they are the "plain" ones here.                                         *)
(*                                                                         *)
(* A register is the sequence of its bytes, as Mmu's data is.              *)
(***************************************************************************)
EXTENDS Mmu

CONSTANTS
  Width,       \* bytes of uint64_t
  AddrSpace,   \* 2^64: sums are taken modulo it
  ImmSpan,     \* 2^12: the immediates the decoder extracts are below it
  AsAddress,   \* a register as an address
  Reg,         \* register numbers
  Instruction  \* records of op, size, rd, rs1, rs2, imm; a plain one has rd and value

Register == [0 .. Width - 1 -> Byte]
Zero == [k \in 0 .. Width - 1 |-> {}]
Reserving == {"LR", "SC"}
Accesses == {"L", "LU", "S"} \cup Reserving

\* LR and SC address memory by register numbers, and with the regions of config.h
\* there is nothing at the lowest addresses.
ASSUME LoadStoreAssumption ==
  /\ Width \in Nat \ {0} /\ AddrSpace \in Nat \ {0} /\ ImmSpan \in Nat /\ Space = 0 .. AddrSpace - 1
  /\ AsAddress \in [Register -> Nat]
  /\ 0 \in Reg /\ Reg \subseteq HoleAddr
  /\ \A i \in Instruction :
       /\ i.op \in Accesses \cup {"plain"} /\ i.rd \in Reg
       /\ i.op \in Accesses =>
            {i.rs1, i.rs2} \subseteq Reg /\ i.imm \in Nat /\ i.size \in Size \cap 1 .. Width
       /\ i.op = "plain" => i.value \in Register

VARIABLES
  regs,
  ir    \* the instruction in execute, none between two Steps

cpuVars == <<vars, regs, ir>>
none == [op |-> "none"]

RegsTypeOK == TypeOK /\ regs \in [Reg -> Register] /\ ir \in Instruction \cup {none}

-----------------------------------------------------------------------------
CpuInit == Init /\ regs = [r \in Reg |-> Zero] /\ ir = none

\* Mutant of Fetch: Step without reg_zero = 0.
FetchKeepsZero ==
  /\ ir = none
  /\ ir' \in Instruction
  /\ reply' = [op |-> "none"]
  /\ UNCHANGED <<paging, host, wild, depth, regs>>

\* Step sets reg_zero, fetches and decodes.  The execute function has not called
\* Load or Store yet.
Fetch ==
  /\ ir = none
  /\ ir' \in Instruction
  /\ regs' = [regs EXCEPT ![0] = Zero]
  /\ reply' = [op |-> "none"]
  /\ UNCHANGED <<paging, host, wild, depth>>

\* The address is a sum with an immediate that no load or store sign-extends; LR and
\* SC pass fields.rs1, the number of the register.
Addr ==
  IF ir.op \in Reserving THEN ir.rs1
  ELSE (AsAddress[regs[ir.rs1]] + ir.imm) % AddrSpace

\* "uint64_t data" after Load: RAM and UART set all of it to 0 and copy size bytes,
\* the stubs leave it uninitialised.
Data(d) ==
  {v \in Register :
     \A k \in 0 .. Width - 1 :
       IF k < ir.size THEN v[k] = d[k]
       ELSE IF Target(Addr) \in Stub THEN v[k] \in StoredByte ELSE v[k] = {}}

\* Mutant of Widened: LB, LH and LW zero-extend.
WidenedUnsigned(v) == v

\* The cast to int8_t, int16_t or int32_t in LB, LH and LW.
Widened(v) ==
  IF ir.op # "L" THEN v
  ELSE [k \in 0 .. Width - 1 |->
          IF k < ir.size THEN v[k] ELSE IF "sign" \in v[ir.size - 1] THEN Bits ELSE {}]

\* SetReg is not reached when Load throws.
ExecuteLoad ==
  /\ ir.op \in {"L", "LU", "LR"}
  /\ Load(Addr, ir.size)
  /\ IF reply'.op = "load"
     THEN \E v \in Data(reply'.data) : regs' = [regs EXCEPT ![ir.rd] = Widened(v)]
     ELSE UNCHANGED regs

ExecuteStore ==
  /\ ir.op \in {"S", "SC"}
  /\ Store(Addr, ir.size, [k \in 0 .. ir.size - 1 |-> regs[ir.rs2][k]])
  /\ regs' = IF ir.op = "SC" /\ reply'.op = "store" THEN [regs EXCEPT ![ir.rd] = Zero] ELSE regs

\* What a register instruction leaves in rd.
ExecutePlain ==
  /\ ir.op = "plain"
  /\ regs' = [regs EXCEPT ![ir.rd] = ir.value]
  /\ UNCHANGED <<host, wild, reply>>

Execute ==
  /\ ExecuteLoad \/ ExecuteStore \/ ExecutePlain
  /\ ir' = none /\ UNCHANGED <<paging, depth>>

CpuNext == Fetch \/ Execute
CpuSpec == CpuInit /\ [][CpuNext]_cpuVars

-----------------------------------------------------------------------------
\* The guest's view: x0 is zero, the rest is the array; memory is the RAM below the
\* bytes the UART's reversed index can reach.
Visible == [r \in Reg |-> IF r = 0 THEN Zero ELSE regs[r]]
ISA == INSTANCE IsaMemory WITH
         Cell <- CellAddr, Hole <- HoleAddr, Narrow <- NarrowAddr, bytes <- CellBytes,
         regs <- Visible

\* Negative offsets, LR and SC are not the ISA's: the address is another one.
Agrees(i) == i.op \notin Reserving /\ (i.op # "plain" => i.imm < ImmSpan \div 2)

\* Instruction by instruction, but for those, registers and memory change as the ISA
\* says, whatever they did before: a load from RAM gets what was stored last, extended
\* as its opcode says and whatever the bits of data above it; one that faults leaves rd
\* and memory alone, and it faults just where it should; only rd and the bytes of a
\* store change, and x0 never does.
ImplementsIsaMemory ==
  ISA!Init /\ [][ir = none \/ Agrees(ir) => ISA!Next]_(ISA!vars)
=============================================================================
