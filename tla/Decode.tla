-------------------------------- MODULE Decode --------------------------------
(***************************************************************************)
(* The instruction table and CPU::Decode, which returns the first entry    *)
(* whose matcher equals the word under the entry's mask.                   *)
(*                                                                         *)
(* Every mask of the table is a union of whole fields, so a word is the    *)
(* record of its fields, and an entry says which fields it compares and    *)
(* with what: op (bits 0-6), rd, f3 (12-14), rs1, rs2, f7 (25-31), and the *)
(* upper six and five bits of f7, f6 and f5.                               *)
(***************************************************************************)
EXTENDS Integers, Sequences, FiniteSets, FiniteSetsExt, Functions

CONSTANT Words \* the instruction words the guest fetches

Field == {"op", "rd", "f3", "rs1", "rs2", "f7", "f6", "f5"}

ASSUME WordsAssumption ==
  \A w \in Words :
    /\ DOMAIN w = Field
    /\ w.op \in 0 .. 127 /\ w.f3 \in 0 .. 7 /\ w.f7 \in 0 .. 127
    /\ {w.rd, w.rs1, w.rs2} \subseteq 0 .. 31
    /\ w.f6 = w.f7 \div 2 /\ w.f5 = w.f7 \div 4

VARIABLES
  instruction, \* the word Step has fetched
  decoded      \* the name of the entry Decode returned for it

vars == <<instruction, decoded>>

-----------------------------------------------------------------------------
\* Entries by the fields their mask_field selects.
Op(n, op) == [name |-> n, match |-> [op |-> op]]
F3(n, op, f3) == [name |-> n, match |-> [op |-> op, f3 |-> f3]]

\* Mutant of F7: mask_field 0x0000707f, which leaves funct7 out.
F7AsF3(n, op, f3, f7) == F3(n, op, f3)
F7(n, op, f3, f7) == [name |-> n, match |-> [op |-> op, f3 |-> f3, f7 |-> f7]]

\* Mutant of F6: the RV32 shifts, whose shift amount has five bits.
F6AsF7(n, op, f3, f6) == F7(n, op, f3, 2 * f6)
F6(n, op, f3, f6) == [name |-> n, match |-> [op |-> op, f3 |-> f3, f6 |-> f6]]
F5(n, op, f3, f5) == [name |-> n, match |-> [op |-> op, f3 |-> f3, f5 |-> f5]]
Lr(n, f3) == [name |-> n, match |-> [op |-> 47, f3 |-> f3, f5 |-> 2, rs2 |-> 0]]

\* Mutant of Exact: the destination register is not compared.
ExactAnyRd(n, op, f7, rs2) ==
  [name |-> n, match |-> [op |-> op, f3 |-> 0, f7 |-> f7, rs1 |-> 0, rs2 |-> rs2]]
Exact(n, op, f7, rs2) ==
  [name |-> n,
   match |-> [op |-> op, rd |-> 0, f3 |-> 0, f7 |-> f7, rs1 |-> 0, rs2 |-> rs2]]

\* The privileged returns.
Privileged ==
  << Exact("SRET", 115, 8, 2), Exact("MRET", 115, 24, 2) >>

\* LUI to BGEU.
Jumps ==
  << Op("LUI", 55), Op("AUIPC", 23), Op("JAL", 111), F3("JALR", 103, 0),
     F3("BEQ", 99, 0), F3("BNE", 99, 1), F3("BLT", 99, 4), F3("BGE", 99, 5),
     F3("BLTU", 99, 6), F3("BGEU", 99, 7) >>

\* Loads and stores of RV32I.
Memory ==
  << F3("LB", 3, 0), F3("LH", 3, 1), F3("LW", 3, 2), F3("LBU", 3, 4),
     F3("LHU", 3, 5), F3("SB", 35, 0), F3("SH", 35, 1), F3("SW", 35, 2) >>

\* Immediate arithmetic.
Immediates ==
  << F3("ADDI", 19, 0), F3("SLTI", 19, 2), F3("SLTIU", 19, 3),
     F3("XORI", 19, 4), F3("ORI", 19, 6), F3("ANDI", 19, 7),
     F6("SLLI", 19, 1, 0), F6("SRLI", 19, 5, 0), F6("SRAI", 19, 5, 16) >>

\* Register arithmetic.
Registers ==
  << F7("ADD", 51, 0, 0), F7("SUB", 51, 0, 32), F7("SLL", 51, 1, 0),
     F7("SLT", 51, 2, 0), F7("SLTU", 51, 3, 0), F7("XOR", 51, 4, 0),
     F7("SRL", 51, 5, 0), F7("SRA", 51, 5, 32), F7("OR", 51, 6, 0),
     F7("AND", 51, 7, 0) >>

\* FENCE and the environment instructions, exact words.
System ==
  << Exact("FENCE", 15, 0, 0), Exact("ECALL", 115, 0, 0),
     Exact("EBREAK", 115, 0, 1) >>

\* RV64I.
Rv64 ==
  << F3("LWU", 3, 6), F3("LD", 3, 3), F3("SD", 35, 3), F3("ADDIW", 27, 0),
     F7("SLLIW", 27, 1, 0), F6("SRLIW", 27, 5, 0), F6("SRAIW", 27, 5, 16),
     F7("ADDW", 59, 0, 0), F7("SUBW", 59, 0, 32), F7("SLLW", 59, 1, 0),
     F7("SRLW", 59, 5, 0), F7("SRAW", 59, 5, 32) >>

\* Zifencei, an entry that accepts its whole major opcode, and Zicsr.
Zicsr ==
  << Op("FENCE.I", 15), F3("CSRRW", 115, 1), F3("CSRRS", 115, 2),
     F3("CSRRC", 115, 3), F3("CSRRWI", 115, 5), F3("CSRRSI", 115, 6),
     F3("CSRRCI", 115, 7) >>

\* The M extension.
Multiply ==
  << F7("MUL", 51, 0, 1), F7("MULH", 51, 1, 1), F7("MULHSU", 51, 2, 1),
     F7("MULHU", 51, 3, 1), F7("DIV", 51, 4, 1), F7("DIVU", 51, 5, 1),
     F7("REM", 51, 6, 1), F7("REMU", 51, 7, 1), F7("MULW", 59, 0, 1),
     F7("DIVW", 59, 4, 1), F7("DIVUW", 59, 5, 1), F7("REMW", 59, 6, 1),
     F7("REMUW", 59, 7, 1) >>

\* The A extension on words.
AtomicW ==
  << Lr("LR.W", 2), F5("SC.W", 47, 2, 3), F5("AMOSWAP.W", 47, 2, 1),
     F5("AMOADD.W", 47, 2, 0), F5("AMOXOR.W", 47, 2, 4),
     F5("AMOAND.W", 47, 2, 12), F5("AMOOR.W", 47, 2, 8),
     F5("AMOMIN.W", 47, 2, 16), F5("AMOMAX.W", 47, 2, 20),
     F5("AMOMINU.W", 47, 2, 24), F5("AMOMAXU.W", 47, 2, 28) >>

\* The A extension on double words.
AtomicD ==
  << Lr("LR.D", 3), F5("SC.D", 47, 3, 3), F5("AMOSWAP.D", 47, 3, 1),
     F5("AMOADD.D", 47, 3, 0), F5("AMOXOR.D", 47, 3, 4),
     F5("AMOAND.D", 47, 3, 12), F5("AMOOR.D", 47, 3, 8),
     F5("AMOMIN.D", 47, 3, 16), F5("AMOMAX.D", 47, 3, 20),
     F5("AMOMINU.D", 47, 3, 24), F5("AMOMAXU.D", 47, 3, 28) >>

Table == Privileged \o Jumps \o Memory \o Immediates \o Registers \o System \o
         Rv64 \o Zicsr \o Multiply \o AtomicW \o AtomicD

-----------------------------------------------------------------------------
Matches(e, w) == \A x \in DOMAIN e.match : w[x] = e.match[x]
Hits(w) == {k \in DOMAIN Table : Matches(Table[k], w)}

\* Mutant of Lookup: without the throw after the loop.
LookupNoThrow(w) ==
  LET hits == Hits(w) IN IF hits = {} THEN "" ELSE Table[Min(hits)].name

\* The entry the loop of CPU::Decode returns, or the trap it throws.
Lookup(w) ==
  LET hits == Hits(w)
  IN  IF hits = {} THEN "IllegalInstruction" ELSE Table[Min(hits)].name

Init == instruction \in Words /\ decoded = "none"

Decode ==
  /\ decoded = "none"
  /\ decoded' = Lookup(instruction)
  /\ UNCHANGED instruction

Next == Decode
Spec == Init /\ [][Next]_vars

-----------------------------------------------------------------------------
(* The encodings the unprivileged and privileged ISA assign, by opcode.    *)

Nth(names, k) == IF k < Len(names) THEN names[k + 1] ELSE "reserved"

Loads == <<"LB", "LH", "LW", "LD", "LBU", "LHU", "LWU">>
Stores == <<"SB", "SH", "SW", "SD">>
Branches == <<"BEQ", "BNE", "reserved", "reserved", "BLT", "BGE", "BLTU", "BGEU">>
OpImm == <<"ADDI", "SLLI", "SLTI", "SLTIU", "XORI", "SRLI", "ORI", "ANDI">>
OpReg == <<"ADD", "SLL", "SLT", "SLTU", "XOR", "SRL", "OR", "AND">>
OpMul == <<"MUL", "MULH", "MULHSU", "MULHU", "DIV", "DIVU", "REM", "REMU">>
OpMulW == <<"MULW", "reserved", "reserved", "reserved", "DIVW", "DIVUW", "REMW", "REMUW">>
OpCsr == <<"reserved", "CSRRW", "CSRRS", "CSRRC", "reserved", "CSRRWI", "CSRRSI", "CSRRCI">>
Amo == [n \in 0 .. 31 |->
  IF n \in {0, 1, 2, 3}
  THEN <<<<"AMOADD.W", "AMOADD.D">>, <<"AMOSWAP.W", "AMOSWAP.D">>,
         <<"LR.W", "LR.D">>, <<"SC.W", "SC.D">>>>[n + 1]
  ELSE IF n % 4 = 0
  THEN <<<<"AMOXOR.W", "AMOXOR.D">>, <<"AMOOR.W", "AMOOR.D">>,
         <<"AMOAND.W", "AMOAND.D">>, <<"AMOMIN.W", "AMOMIN.D">>,
         <<"AMOMAX.W", "AMOMAX.D">>, <<"AMOMINU.W", "AMOMINU.D">>,
         <<"AMOMAXU.W", "AMOMAXU.D">>>>[n \div 4]
  ELSE <<"reserved", "reserved">>]
Environment == [r \in {<<0, 0>>, <<0, 1>>, <<8, 2>>, <<24, 2>>, <<8, 5>>} |->
  CASE r = <<0, 0>> -> "ECALL" [] r = <<0, 1>> -> "EBREAK" [] r = <<8, 2>> -> "SRET"
    [] r = <<24, 2>> -> "MRET" [] r = <<8, 5>> -> "WFI"]

\* Integer register operations: f7 selects between the rows, as "Arithmetic" and
\* "Shift right arithmetic" share the row of their opposites.
RegisterName(w) ==
  CASE w.f7 = 0 -> OpReg[w.f3 + 1]
    [] w.f7 = 1 -> OpMul[w.f3 + 1]
    [] w.f7 = 32 /\ w.f3 = 0 -> "SUB"
    [] w.f7 = 32 /\ w.f3 = 5 -> "SRA"
    [] OTHER -> "reserved"
WordName(w) ==
  CASE w.f7 = 0 /\ w.f3 \in {0, 1, 5} -> <<"ADDW", "SLLW", "", "", "", "SRLW">>[w.f3 + 1]
    [] w.f7 = 1 -> OpMulW[w.f3 + 1]
    [] w.f7 = 32 /\ w.f3 = 0 -> "SUBW"
    [] w.f7 = 32 /\ w.f3 = 5 -> "SRAW"
    [] OTHER -> "reserved"
ImmediateName(w) ==
  IF w.f3 \notin {1, 5} THEN OpImm[w.f3 + 1]
  ELSE IF w.f6 = 0 THEN OpImm[w.f3 + 1]
  ELSE IF w.f6 = 16 /\ w.f3 = 5 THEN "SRAI" ELSE "reserved"
WordImmediateName(w) ==
  CASE w.f3 = 0 -> "ADDIW"
    [] w.f3 = 1 /\ w.f7 = 0 -> "SLLIW"
    [] w.f3 = 5 /\ w.f7 = 0 -> "SRLIW"
    [] w.f3 = 5 /\ w.f7 = 32 -> "SRAIW"
    [] OTHER -> "reserved"
SystemName(w) ==
  IF w.f3 # 0 THEN OpCsr[w.f3 + 1]
  ELSE IF w.f7 = 9 /\ w.rd = 0 THEN "SFENCE.VMA"
  ELSE IF w.rd = 0 /\ w.rs1 = 0 /\ <<w.f7, w.rs2>> \in DOMAIN Environment
  THEN Environment[<<w.f7, w.rs2>>] ELSE "reserved"

\* The instruction RV64IMA, Zicsr, Zifencei and the privileged ISA make of a word.
IsaName(w) ==
  CASE w.op = 3 -> Nth(Loads, w.f3)
    [] w.op = 35 -> Nth(Stores, w.f3)
    [] w.op = 99 -> Branches[w.f3 + 1]
    [] w.op = 19 -> ImmediateName(w)
    [] w.op = 27 -> WordImmediateName(w)
    [] w.op = 51 -> RegisterName(w)
    [] w.op = 59 -> WordName(w)
    [] w.op = 115 -> SystemName(w)
    [] w.op = 103 -> IF w.f3 = 0 THEN "JALR" ELSE "reserved"
    [] w.op = 47 -> IF w.f3 \notin {2, 3} \/ (w.f5 = 2 /\ w.rs2 # 0) THEN "reserved"
                    ELSE Amo[w.f5][w.f3 - 1]
    [] w.op = 15 -> Nth(<<"FENCE", "FENCE.I">>, w.f3)
    [] w.op = 55 -> "LUI" [] w.op = 23 -> "AUIPC" [] w.op = 111 -> "JAL"
    [] OTHER -> "reserved"

Names == {e.name : e \in Range(Table)}
\* Decode names one of the table's instructions or throws.
TypeOK ==
  /\ DOMAIN instruction = Field
  /\ decoded \in {"none", "IllegalInstruction"} \cup Names

\* Instructions of the ISA the table has no entry for.
Missing == {"SFENCE.VMA", "WFI"}

\* The execute functions of FENCE and FENCE.I are both empty: on one hart with
\* no cache either is right for the other.
SameEffect(n, k) == n = k \/ {n, k} \subseteq {"FENCE", "FENCE.I"}

\* Every instruction is decoded to the entry that has its name, for every value
\* of the fields its encoding leaves to the operands.
DecodesTheIsa ==
  decoded # "none" /\ IsaName(instruction) \notin {"reserved"} \cup Missing =>
    SameEffect(decoded, IsaName(instruction))

\* A word the ISA assigns to no instruction does not pass for one, but for two
\* places where the table compares fewer fields than the encoding has: the major
\* opcode of FENCE, and the word shifts by more than 31.
ReservedWordsTrap ==
  decoded # "none" /\ IsaName(instruction) = "reserved" =>
    \/ decoded = "IllegalInstruction"
    \/ instruction.op = 15 /\ decoded = "FENCE.I"
    \/ instruction.op = 27 /\ decoded \in {"SRLIW", "SRAIW"} /\ instruction.f7 % 2 = 1

\* No word matches two entries, so the order of the table decides nothing, but
\* for the one word that is FENCE before it is FENCE.I.
OrderIsIrrelevant ==
  decoded \notin {"none", "FENCE"} => Cardinality(Hits(instruction)) <= 1
=============================================================================
