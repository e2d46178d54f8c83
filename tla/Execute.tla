-------------------------------- MODULE Execute --------------------------------
(***************************************************************************)
(* The execute functions of the register, jump and atomic instructions, on *)
(* CPU::regs and pc.  Registers are uint64_t, here of XLEN bits, int32_t   *)
(* has WORD bits.  Register 0 is an element of the array like the others,  *)
(* which Step sets to zero before it fetches.                              *)
(*                                                                         *)
(* Immediates are the numbers the guest encoded.  Shifts by XLEN bits and *)
(* more are undefined in C++; the shift instructions of the hosts the      *)
(* project builds for take the count modulo the width.                     *)
(***************************************************************************)
EXTENDS Powers

CONSTANTS XLEN, WORD, IMM, JUMP, \* bits of registers, int32_t, and the I and J immediates
          Reg,        \* register numbers, the indices of CPU::regs
          Instruction, \* what the guest executes
          BitAnd(_, _), BitOr(_, _), BitXor(_, _) \* "&", "|" and "^" of C++ on uint64_t

ASSUME ExecuteAssumption ==
  /\ XLEN \in Nat /\ WORD \in 1 .. XLEN /\ IMM \in 1 .. XLEN /\ JUMP \in Nat \ {0, 1}
  /\ 0 \in Reg /\ Reg \subseteq Nat
  /\ \A i \in Instruction : {i.rd, i.rs1, i.rs2} \subseteq Reg /\ i.imm \in Int

AtomicOps == {"AMO.D", "AMO.X"} \* fn tells which of them it is
AtomicFunctions == {"SWAP", "ADD", "XOR", "AND", "OR", "MIN", "MINU", "MAX", "MAXU"}

ASSUME AtomicAssumption ==
  \A i \in Instruction : i.op \in AtomicOps => i.fn \in AtomicFunctions

VARIABLES
  regs, pc,
  ir,   \* the instruction in execute, none between two Steps
  wild  \* a write outside regs: from here on the behaviour is undefined

vars == <<regs, pc, ir, wild>>
none == [op |-> "none"]
Modulus == Pow2[XLEN]
Value == 0 .. Modulus - 1
U(n) == n % Modulus

ASSUME BitwiseAssumption ==
  \A a, b \in Value : {BitAnd(a, b), BitOr(a, b), BitXor(a, b)} \subseteq Value

\* static_cast<int64_t>, <int32_t> and <uint32_t> of a register.
Int64(a) == IF a >= Modulus \div 2 THEN a - Modulus ELSE a
UInt32(a) == a % Pow2[WORD]
Int32(a) == LET n == UInt32(a) IN IF n >= Pow2[WORD - 1] THEN n - Pow2[WORD] ELSE n

TypeOK ==
  /\ regs \in [Reg -> Value] /\ pc \in Value
  /\ ir \in Instruction \cup {none} /\ wild \in BOOLEAN

-----------------------------------------------------------------------------
\* "/" and "%" of C++ on the types above.
Quotient(a, b) ==
  IF a >= 0 THEN IF b > 0 THEN a \div b ELSE -(a \div (-b))
  ELSE IF b > 0 THEN -((-a) \div b) ELSE (-a) \div (-b)
Remainder(a, b) == a - Quotient(a, b) * b

\* Mutant of DivRem: without the branch for a zero divisor in REM and REMU.
DivRemNoRemByZero(quotient, dividend, divisor) ==
  IF divisor = 0 THEN -1
  ELSE IF quotient THEN Quotient(dividend, divisor) ELSE Remainder(dividend, divisor)

\* DIVU, DIVUW, REMU and REMUW; "quotient" tells the divisions from the remainders.
DivRem(quotient, dividend, divisor) ==
  IF divisor = 0 THEN IF quotient THEN -1 ELSE dividend
  ELSE IF quotient THEN Quotient(dividend, divisor) ELSE Remainder(dividend, divisor)

\* DIV, DIVW, REM and REMW have a branch for the quotient that is out of range.
DivRemSigned(quotient, dividend, divisor, width) ==
  IF dividend = -(Pow2[width - 1]) /\ divisor = -1 THEN IF quotient THEN dividend ELSE 0
  ELSE DivRem(quotient, dividend, divisor)

ShiftCount(n) == n % XLEN
Bool(p) == IF p THEN 1 ELSE 0

Added == {"ADD", "ADDI", "ADDW"}
Subtracted == {"SUB", "SUBW"}
ShiftedLeft == {"SLL", "SLLI", "SLLW"}
ShiftedRight == {"SRL", "SRLI", "SRA", "SRAI", "SRLW", "SRAW"}
WordImmediateShifts == {"SLLIW", "SRLIW", "SRAIW"}
Multiplied == {"MUL", "MULH", "MULHSU", "MULHU", "MULW"}
UnsignedImmediates == {"SLTI", "SLTIU", "XORI", "ORI", "ANDI"}
Branches == {"BEQ", "BNE", "BLT", "BGE", "BLTU", "BGEU"}

\* The second operand.  The comparisons and logical operations do not sign-extend the
\* field; the W shifts by an immediate are parsed with the R format, which has no imm.
Second(i) ==
  IF i.op \in {"ADDI", "ADDIW", "SLLI", "SRLI", "SRAI"} THEN i.imm
  ELSE IF i.op \in UnsignedImmediates THEN i.imm % Pow2[IMM]
  ELSE IF i.op \in WordImmediateShifts THEN 0 ELSE regs[i.rs2]

\* The value the register and immediate instructions give rd.
Result(op, a, b) ==
  CASE op \in Added -> U(a + b)
    [] op \in Subtracted -> U(a - b)
    [] op \in ShiftedLeft \cup {"SLLIW"} -> U(a * Pow2[ShiftCount(b)])
    [] op \in ShiftedRight \cup {"SRLIW", "SRAIW"} -> a \div Pow2[ShiftCount(b)]
    [] op \in {"SLT", "SLTU", "SLTI", "SLTIU"} -> Bool(a < b)
    [] op \in {"XOR", "XORI"} -> BitXor(a, b)
    [] op \in {"OR", "ORI"} -> BitOr(a, b)
    [] op \in {"AND", "ANDI"} -> BitAnd(a, b)
    [] op = "ADDIW" -> U(Int32(a + b))
    [] op \in Multiplied -> U(a * b)
    [] op = "DIV" -> U(DivRemSigned(TRUE, Int64(a), Int64(b), XLEN))
    [] op = "REM" -> U(DivRemSigned(FALSE, Int64(a), Int64(b), XLEN))
    [] op = "DIVU" -> U(DivRem(TRUE, a, b))
    [] op = "REMU" -> U(DivRem(FALSE, a, b))
    [] op = "DIVW" -> U(DivRemSigned(TRUE, Int32(a), Int32(b), WORD))
    [] op = "REMW" -> U(DivRemSigned(FALSE, Int32(a), Int32(b), WORD))
    [] op = "DIVUW" -> U(DivRem(TRUE, UInt32(a), UInt32(b)))
    [] op = "REMUW" -> U(DivRem(FALSE, UInt32(a), UInt32(b)))

Arithmetics ==
  Added \cup Subtracted \cup ShiftedLeft \cup ShiftedRight \cup WordImmediateShifts \cup
  {"SLT", "SLTU", "XOR", "OR", "AND", "ADDIW"} \cup UnsignedImmediates \cup Multiplied \cup
  {"DIV", "REM", "DIVU", "REMU", "DIVW", "REMW", "DIVUW", "REMUW"}

\* sign_extend_20b: an offset of JAL has a bit more, whose sign it does not look at.
JalOffset(n) ==
  LET low == n % Pow2[JUMP - 1]
  IN  IF low >= Pow2[JUMP - 2] THEN low - Pow2[JUMP - 1] ELSE n % Pow2[JUMP]

Taken(op, a, b) ==
  CASE op = "BEQ" -> a = b [] op = "BNE" -> a # b
    [] op = "BLT" -> Int64(a) < Int64(b) [] op = "BGE" -> Int64(a) >= Int64(b)
    [] op = "BLTU" -> a < b [] op = "BGEU" -> a >= b

-----------------------------------------------------------------------------
\* pc is KERNBASE, which is 0 modulo 2^XLEN.
Init ==
  /\ regs = [r \in Reg |-> 0] /\ pc = 0 /\ ir = none /\ wild = FALSE

\* Step sets reg_zero, fetches and decodes.
Fetch ==
  /\ ir = none /\ ~wild
  /\ regs' = [regs EXCEPT ![0] = 0]
  /\ ir' \in Instruction
  /\ pc' = U(pc + 4)
  /\ UNCHANGED wild

Done == ir' = none /\ UNCHANGED wild

Arithmetic ==
  /\ ir.op \in Arithmetics
  /\ regs' = [regs EXCEPT ![ir.rd] = Result(ir.op, regs[ir.rs1], Second(ir))]
  /\ UNCHANGED pc /\ Done

\* The uint32_t field is not sign-extended.
Auipc ==
  /\ ir.op = "AUIPC"
  /\ regs' = [regs EXCEPT ![ir.rd] = U(pc + UInt32(ir.imm) - 4)]
  /\ UNCHANGED pc /\ Done

Jal ==
  /\ ir.op = "JAL"
  /\ regs' = [regs EXCEPT ![ir.rd] = pc]
  /\ pc' = U(pc + JalOffset(ir.imm) - 4) /\ Done

\* rd is written before rs1 is read.
Jalr ==
  /\ ir.op = "JALR"
  /\ regs' = [regs EXCEPT ![ir.rd] = pc]
  /\ LET target == U(regs'[ir.rs1] + ir.imm) IN pc' = target - (target % 2)
  /\ Done

Branch ==
  /\ ir.op \in Branches
  /\ pc' = IF Taken(ir.op, regs[ir.rs1], regs[ir.rs2]) THEN U(pc + ir.imm - 4) ELSE pc
  /\ UNCHANGED regs /\ Done

-----------------------------------------------------------------------------
(* The atomics work on registers: no execute function of theirs but those  *)
(* of LR and SC calls Load or Store.                                       *)

\* The 64-bit sum, logical operation, std::min or std::max of the operands.
Combine(op, data, b) ==
  CASE op = "SWAP" -> b [] op = "ADD" -> U(data + b) [] op = "XOR" -> BitXor(data, b)
    [] op = "AND" -> BitAnd(data, b) [] op = "OR" -> BitOr(data, b)
    [] op \in {"MIN", "MINU"} -> IF b < data THEN b ELSE data
    [] op \in {"MAX", "MAXU"} -> IF data < b THEN b ELSE data

\* AMOSWAP.D to AMOOR.D: rd gets the address, and the register of the address the
\* sum; rs2 is read after rd has been written.
AmoDouble ==
  /\ ir.op = "AMO.D"
  /\ LET data == regs[ir.rs1]
         linked == [regs EXCEPT ![ir.rd] = data]
     IN  regs' = [linked EXCEPT ![ir.rs1] = Combine(ir.fn, data, linked[ir.rs2])]
  /\ UNCHANGED pc /\ Done

\* The other atomics call SetReg with the address as the register's number, which the
\* parameter's type cuts to an int and nothing compares with the array's bounds: pc lies
\* before regs.  Hart has what lies behind, Execute ends there.  Only AMOSWAP.W then
\* gives rd something.
AmoIndexed ==
  /\ ir.op = "AMO.X"
  /\ LET data == regs[ir.rs1]
         reg == Int32(data)
         value == Combine(ir.fn, data, regs[ir.rs2])
         written == [r \in Reg |-> IF r = reg THEN value ELSE regs[r]]
     IN  /\ regs' = IF ir.fn = "SWAP" THEN [written EXCEPT ![ir.rd] = data] ELSE written
         /\ pc' = IF reg = -1 THEN value ELSE pc
         /\ wild' = (reg \notin Reg \cup {-1})
  /\ ir' = none

Next ==
  \/ Fetch \/ Arithmetic \/ Auipc \/ Jal \/ Jalr \/ Branch \/ AmoDouble \/ AmoIndexed

Spec == Init /\ [][Next]_vars

-----------------------------------------------------------------------------
\* The guest's view: x0 is zero, the rest is the array.
Visible == [r \in Reg |-> IF r = 0 THEN 0 ELSE regs[r]]
ISA == INSTANCE Isa WITH regs <- Visible

\* The instructions whose execute function does what the ISA says, for every value
\* of the operands.  JALR does unless it overwrites the register it jumps by, JAL for an
\* offset of at most half its reach, and with an immediate that is not negative the
\* logical operations, SLTIU and AUIPC do.
Agreeing ==
  {"ADD", "ADDI", "ADDIW", "SUB", "SLL", "SLLI", "SRL", "SRLI", "SLTU", "XOR", "OR", "AND",
   "MUL", "DIV", "DIVU", "REM", "REMU", "DIVW", "REMW"} \cup Branches
Agrees(i) ==
  \/ i.op \in Agreeing
  \/ i.op = "JALR" /\ i.rd # i.rs1
  \/ i.op = "JAL" /\ i.imm \in -Pow2[JUMP - 2] .. Pow2[JUMP - 2] - 1
  \/ i.op = "AUIPC" /\ i.imm \in 0 .. Pow2[WORD - 1] - 1
  \/ i.op \in UnsignedImmediates \ {"SLTI"} /\ i.imm \in 0 .. Pow2[IMM - 1] - 1

\* Instruction by instruction, the registers and pc change as the ISA says, whatever
\* the atomics, which are not the ISA's, have written before: x0 reads zero.
Atomic == ir.op \in AtomicOps
ImplementsIsa == ISA!Init /\ [][Atomic \/ ISA!Next]_(ISA!vars)

\* README.md:5: RV64I is implemented, where JALR jumps to where rs1 pointed before
\* it was overwritten with the link.
JalrReadsItsBase == [][ir.op = "JALR" => ISA!Execute]_vars
=============================================================================
