------------------------------- MODULE Immediate -------------------------------
(***************************************************************************)
(* The immediates of the instruction formats: parse_instruction takes them *)
(* apart out of the instruction word, and each execute function widens     *)
(* what it gets to the 64 bits of its operand.  A word, and an operand, is *)
(* the set of its bit positions that are 1, so mask, mask_and_shift and    *)
(* "|" are operations on sets.                                             *)
(*                                                                         *)
(* The guest's assembler is the environment: it lays an immediate out in   *)
(* the word as the unprivileged ISA does, and the code has to find it.     *)
(***************************************************************************)
EXTENDS Integers

CONSTANTS
  Immediates, \* [Format -> set of immediates the guest uses]
  Background  \* words whose bits outside the immediate the guest sets

Format == {"I", "S", "B", "U", "J"}

\* The bits an immediate of each format can have.
ImmBits == [I |-> 0 .. 11, S |-> 0 .. 11, B |-> 1 .. 12, U |-> 12 .. 31, J |-> 1 .. 20]

ASSUME ImmediateAssumption ==
  /\ Immediates \in [Format -> SUBSET SUBSET (0 .. 31)]
  /\ \A f \in Format : \A i \in Immediates[f] : i \subseteq ImmBits[f]
  /\ Background \subseteq SUBSET (0 .. 31)

\* What an immediate is for, and the format of the instructions that have it.
FormatOf == [addi |-> "I", jalr |-> "I", load |-> "I", logic |-> "I", store |-> "S",
             branch |-> "B", lui |-> "U", auipc |-> "U", jal |-> "J"]

VARIABLES
  use, encoded,   \* the instruction the guest has in memory: a field of FormatOf
  instruction,    \* its word
  phase,          \* how far the execute function has come
  imm, operand    \* fields.imm, and the 64-bit value made of it

vars == <<use, encoded, instruction, phase, imm, operand>>

TypeOK ==
  /\ use \in DOMAIN FormatOf
  /\ encoded \subseteq 0 .. 31 /\ instruction \subseteq 0 .. 31
  /\ phase \in {"fetched", "parsed", "executed"}
  /\ imm \subseteq 0 .. 31 /\ operand \subseteq 0 .. 63

-----------------------------------------------------------------------------
\* The assembler: bit of the word that holds bit b of an immediate of format f.
Place(f, b) ==
  [I |-> b + 20,
   S |-> IF b <= 4 THEN b + 7 ELSE b + 20,
   B |-> IF b = 11 THEN 7 ELSE IF b = 12 THEN 31 ELSE IF b <= 4 THEN b + 7 ELSE b + 20,
   U |-> b,
   J |-> IF b = 20 THEN 31 ELSE IF b = 11 THEN 20 ELSE IF b <= 10 THEN b + 20 ELSE b][f]

Layout(f) == {Place(f, b) : b \in ImmBits[f]}
Assemble(f, i, rest) == {Place(f, b) : b \in i} \cup (rest \ Layout(f))

\* mask<start, end> is the case dest = 0 of mask_and_shift<start, end, dest>.
MaskAndShift(w, start, end, dest) ==
  {b - start + dest : b \in {x \in w : start <= x /\ x <= end}}
Mask(w, start, end) == MaskAndShift(w, start, end, 0)

\* Mutant of ParseImm: bits 10..5 of a branch offset are taken to bit 4.
ParseImmOverlaps(f, w) ==
  [I |-> Mask(w, 20, 31),
   S |-> Mask(w, 7, 11) \cup MaskAndShift(w, 25, 31, 5),
   B |-> MaskAndShift(w, 7, 7, 11) \cup MaskAndShift(w, 8, 11, 1) \cup
         MaskAndShift(w, 25, 30, 4) \cup MaskAndShift(w, 31, 31, 12),
   U |-> MaskAndShift(w, 12, 31, 12),
   J |-> MaskAndShift(w, 21, 30, 1) \cup MaskAndShift(w, 20, 20, 11) \cup
         MaskAndShift(w, 12, 19, 12) \cup MaskAndShift(w, 31, 31, 20)][f]

\* The imm field parse_instruction returns.
ParseImm(f, w) ==
  [I |-> Mask(w, 20, 31),
   S |-> Mask(w, 7, 11) \cup MaskAndShift(w, 25, 31, 5),
   B |-> MaskAndShift(w, 7, 7, 11) \cup MaskAndShift(w, 8, 11, 1) \cup
         MaskAndShift(w, 25, 30, 5) \cup MaskAndShift(w, 31, 31, 12),
   U |-> MaskAndShift(w, 12, 31, 12),
   J |-> MaskAndShift(w, 21, 30, 1) \cup MaskAndShift(w, 20, 20, 11) \cup
         MaskAndShift(w, 12, 19, 12) \cup MaskAndShift(w, 31, 31, 20)][f]

\* Copy the bit at position sign into every higher bit of a word of width bits.
SignFrom(i, sign, width) == IF sign \in i THEN i \cup (sign .. width - 1) ELSE i

\* Mutant of Operand: the sign of a branch offset is the 12-bit immediate's.
OperandSignBit11(u, i) ==
  IF u \in {"addi", "jalr", "branch"} THEN SignFrom(i, 11, 64)
  ELSE IF u = "jal" THEN SignFrom(i, 19, 64)
  ELSE IF u = "lui" THEN SignFrom(i, 31, 64) ELSE i

\* sign_extend_12b, _13b and _20b give an int32_t, which the sum with a register
\* or pc widens with its sign, as LUI's cast does.  The other instructions use
\* the uint32_t field, which is widened with zeros.
Operand(u, i) ==
  IF u \in {"addi", "jalr"} THEN SignFrom(i, 11, 64)
  ELSE IF u = "branch" THEN SignFrom(i, 12, 64)
  ELSE IF u = "jal" THEN SignFrom(i, 19, 64)
  ELSE IF u = "lui" THEN SignFrom(i, 31, 64) ELSE i

-----------------------------------------------------------------------------
Init ==
  /\ use \in DOMAIN FormatOf
  /\ encoded \in Immediates[FormatOf[use]]
  /\ \E rest \in Background : instruction = Assemble(FormatOf[use], encoded, rest)
  /\ phase = "fetched" /\ imm = {} /\ operand = {}

Parse ==
  /\ phase = "fetched"
  /\ imm' = ParseImm(FormatOf[use], instruction)
  /\ phase' = "parsed"
  /\ UNCHANGED <<use, encoded, instruction, operand>>

Widen ==
  /\ phase = "parsed"
  /\ operand' = Operand(use, imm)
  /\ phase' = "executed"
  /\ UNCHANGED <<use, encoded, instruction, imm>>

Next == Parse \/ Widen
Spec == Init /\ [][Next]_vars

-----------------------------------------------------------------------------
\* parse_instruction finds every bit of the immediate and no bit of another
\* field, in every format and whatever surrounds it.
ParsesWhatWasEncoded == phase # "fetched" => imm = encoded

\* The ISA sign-extends every immediate from the highest bit it can have.
SignBit == [I |-> 11, S |-> 11, B |-> 12, U |-> 31, J |-> 20]
Signed == SignFrom(encoded, SignBit[FormatOf[use]], 64)

\* ADDI, ADDIW, JALR, the branches and LUI compute with the signed value the
\* guest encoded: offsets reach backwards, constants can be negative.
OperandIsSigned ==
  phase = "executed" /\ use \in {"addi", "jalr", "branch", "lui"} => operand = Signed
=============================================================================
