---------------------------------- MODULE Isa ----------------------------------
(***************************************************************************)
(* What the instructions promise the guest: the integer registers, pc and  *)
(* the values of the register and jump instructions as the unprivileged    *)
(* ISA defines them.  Register 0 is no storage: it always reads zero.      *)
(*                                                                         *)
(* Registers have XLEN bits and the word instructions WORD of them, where  *)
(* the ISA has 64 and 32.                                                  *)
(***************************************************************************)
EXTENDS Powers

CONSTANTS XLEN, WORD,
          Reg,        \* the register numbers, 0 among them
          Instruction, \* the instructions: records of op, rd, rs1, rs2 and imm
          BitAnd(_, _), BitOr(_, _), BitXor(_, _) \* the bitwise operations on registers

Modulus == Pow2[XLEN]
Value == 0 .. Modulus - 1

VARIABLES regs, pc, ir \* ir is the instruction being executed, if there is one

vars == <<regs, pc, ir>>
none == [op |-> "none"]

-----------------------------------------------------------------------------
\* The value of n in a register, and the signed value of the low w bits of one.
U(n) == n % Modulus
Low(a, w) == a % Pow2[w]
Signed(a, w) ==
  IF Low(a, w) >= Pow2[w - 1] THEN Low(a, w) - Pow2[w] ELSE Low(a, w)
\* The result of a word instruction is sign-extended from its low WORD bits.
Word(n) == U(Signed(n, WORD))

\* Division rounds towards zero.
Quotient(a, b) ==
  LET sign(n) == IF n < 0 THEN -1 ELSE 1
      abs(n) == n * sign(n)
  IN  sign(a) * sign(b) * (abs(a) \div abs(b))

\* Division by zero gives -1 and leaves the dividend as the remainder.
Div(a, b) == IF b = 0 THEN -1 ELSE Quotient(a, b)
Rem(a, b) == IF b = 0 THEN a ELSE a - b * Quotient(a, b)
Test(p) == IF p THEN 1 ELSE 0

\* The register and immediate instructions, a and b their operands.
Result(op, a, b) ==
  CASE op \in {"ADD", "ADDI"} -> U(a + b)
    [] op = "SUB" -> U(a - b)
    [] op \in {"SLL", "SLLI"} -> U(a * Pow2[b % XLEN])
    [] op \in {"SRL", "SRLI"} -> a \div Pow2[b % XLEN]
    [] op \in {"SRA", "SRAI"} -> U(Signed(a, XLEN) \div Pow2[b % XLEN])
    [] op \in {"SLT", "SLTI"} -> Test(Signed(a, XLEN) < Signed(b, XLEN))
    [] op \in {"SLTU", "SLTIU"} -> Test(a < b)
    [] op \in {"XOR", "XORI"} -> BitXor(a, b)
    [] op \in {"OR", "ORI"} -> BitOr(a, b)
    [] op \in {"AND", "ANDI"} -> BitAnd(a, b)
    [] op \in {"ADDW", "ADDIW"} -> Word(a + b)
    [] op = "SUBW" -> Word(a - b)
    [] op \in {"SLLW", "SLLIW"} -> Word(a * Pow2[b % WORD])
    [] op \in {"SRLW", "SRLIW"} -> Word(Low(a, WORD) \div Pow2[b % WORD])
    [] op \in {"SRAW", "SRAIW"} -> Word(Signed(a, WORD) \div Pow2[b % WORD])
    [] op = "MUL" -> U(a * b)
    [] op = "MULH" -> U((Signed(a, XLEN) * Signed(b, XLEN)) \div Modulus)
    [] op = "MULHSU" -> U((Signed(a, XLEN) * b) \div Modulus)
    [] op = "MULHU" -> (a * b) \div Modulus
    [] op = "DIV" -> U(Div(Signed(a, XLEN), Signed(b, XLEN)))
    [] op = "DIVU" -> U(Div(a, b))
    [] op = "REM" -> U(Rem(Signed(a, XLEN), Signed(b, XLEN)))
    [] op = "REMU" -> Rem(a, b)
    [] op = "MULW" -> Word(a * b)
    [] op = "DIVW" -> Word(Div(Signed(a, WORD), Signed(b, WORD)))
    [] op = "DIVUW" -> Word(Div(Low(a, WORD), Low(b, WORD)))
    [] op = "REMW" -> Word(Rem(Signed(a, WORD), Signed(b, WORD)))
    [] op = "REMUW" -> Word(Rem(Low(a, WORD), Low(b, WORD)))

Taken(op, a, b) ==
  CASE op = "BEQ" -> a = b [] op = "BNE" -> a # b
    [] op = "BLT" -> Signed(a, XLEN) < Signed(b, XLEN)
    [] op = "BGE" -> Signed(a, XLEN) >= Signed(b, XLEN)
    [] op = "BLTU" -> a < b [] op = "BGEU" -> a >= b

Branches == {"BEQ", "BNE", "BLT", "BGE", "BLTU", "BGEU"}
Added == {"ADDI", "ADDIW", "SLLI", "SRLI", "SRAI", "SLLIW", "SRLIW", "SRAIW"}
Compared == {"SLTI", "SLTIU", "XORI", "ORI", "ANDI"}

-----------------------------------------------------------------------------
Init == regs \in [Reg -> Value] /\ regs[0] = 0 /\ pc \in Value /\ ir = none

\* pc is the address of the next instruction from here on.
Fetch ==
  /\ ir = none
  /\ ir' \in Instruction
  /\ pc' = U(pc + 4)
  /\ UNCHANGED regs

\* Immediates are signed, also where their value in a register is compared or combined.
Second ==
  IF ir.op \in Added THEN ir.imm
  ELSE IF ir.op \in Compared THEN U(ir.imm) ELSE regs[ir.rs2]

SetReg(rd, v) == [r \in Reg |-> IF r = rd /\ r # 0 THEN v ELSE regs[r]]

Execute ==
  /\ ir # none
  /\ LET a == regs[ir.rs1]
         b == Second
     IN  CASE ir.op = "JAL" ->
                /\ regs' = SetReg(ir.rd, pc) /\ pc' = U(pc - 4 + ir.imm)
           [] ir.op = "JALR" ->
                LET target == U(a + ir.imm)
                IN  regs' = SetReg(ir.rd, pc) /\ pc' = target - (target % 2)
           [] ir.op = "AUIPC" ->
                /\ regs' = SetReg(ir.rd, U(pc - 4 + ir.imm)) /\ UNCHANGED pc
           [] ir.op \in Branches ->
                /\ pc' = IF Taken(ir.op, a, b) THEN U(pc - 4 + ir.imm) ELSE pc
                /\ UNCHANGED regs
           [] OTHER -> regs' = SetReg(ir.rd, Result(ir.op, a, b)) /\ UNCHANGED pc
  /\ ir' = none

Next == Fetch \/ Execute
Spec == Init /\ [][Next]_vars
=============================================================================
