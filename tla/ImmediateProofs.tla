---------------------------- MODULE ImmediateProofs ----------------------------
(***************************************************************************)
(* parse_instruction is a left inverse of the assembler for every          *)
(* immediate of every format and every surrounding word, and the operands  *)
(* with a sign have it, for every immediate: MCImmediate has a sample.     *)
(***************************************************************************)
EXTENDS Immediate, TLAPS

\* Bit b of a shifted field is the bit b + start - dest of the word.
LEMMA MaskBit ==
  ASSUME NEW w \in SUBSET (0 .. 31), NEW start \in Int, NEW end \in Int, NEW dest \in Int,
         NEW b
  PROVE  b \in MaskAndShift(w, start, end, dest) <=>
           /\ b \in Int
           /\ b - dest + start \in w
           /\ start <= b - dest + start
           /\ b - dest + start <= end
  BY DEF MaskAndShift

\* The bit of the assembled word at the place of bit b is bit b.
LEMMA AssembledBit ==
  ASSUME NEW f \in Format, NEW i \in SUBSET ImmBits[f], NEW rest \in SUBSET (0 .. 31)
  PROVE  /\ Assemble(f, i, rest) \in SUBSET (0 .. 31)
         /\ \A b \in ImmBits[f] : Place(f, b) \in Assemble(f, i, rest) <=> b \in i
  <1>1. \A b, c \in ImmBits[f] : Place(f, c) = Place(f, b) => c = b
    BY DEF Place, Format, ImmBits
  <1>2. \A c \in ImmBits[f] : Place(f, c) \in 0 .. 31
    BY DEF Place, Format, ImmBits
  <1> QED
    BY <1>1, <1>2 DEF Assemble, Layout

\* The bits of a parsed field are those of the word at the places of the format.
LEMMA ParsedBit ==
  ASSUME NEW f \in Format, NEW w \in SUBSET (0 .. 31)
  PROVE  /\ ParseImm(f, w) \subseteq ImmBits[f]
         /\ \A b \in ImmBits[f] : b \in ParseImm(f, w) <=> Place(f, b) \in w
  <1>1. CASE f = "I"
    <2>1. ParseImm(f, w) = MaskAndShift(w, 20, 31, 0)
      BY <1>1 DEF ParseImm, Mask
    <2>2. ImmBits[f] = 0 .. 11 /\ \A b \in 0 .. 11 : Place(f, b) = b + 20
      BY <1>1 DEF ImmBits, Place
    <2> QED BY <2>1, <2>2, MaskBit
  <1>2. CASE f = "S"
    <2>1. ParseImm(f, w) = MaskAndShift(w, 7, 11, 0) \cup MaskAndShift(w, 25, 31, 5)
      BY <1>2 DEF ParseImm, Mask
    <2>2. /\ ImmBits[f] = 0 .. 11
          /\ \A b \in 0 .. 11 : Place(f, b) = IF b <= 4 THEN b + 7 ELSE b + 20
      BY <1>2 DEF ImmBits, Place
    <2>3. \A b : b \in MaskAndShift(w, 7, 11, 0) <=> b \in 0 .. 4 /\ b + 7 \in w
      BY MaskBit
    <2>4. \A b : b \in MaskAndShift(w, 25, 31, 5) <=> b \in 5 .. 11 /\ b + 20 \in w
      BY MaskBit
    <2> QED BY <2>1, <2>2, <2>3, <2>4
  <1>3. CASE f = "B"
    <2>1. ParseImm(f, w) =
            MaskAndShift(w, 7, 7, 11) \cup MaskAndShift(w, 8, 11, 1) \cup
            MaskAndShift(w, 25, 30, 5) \cup MaskAndShift(w, 31, 31, 12)
      BY <1>3 DEF ParseImm
    <2>2. /\ ImmBits[f] = 1 .. 12
          /\ \A b \in 1 .. 12 :
               Place(f, b) = IF b = 11 THEN 7 ELSE IF b = 12 THEN 31
                             ELSE IF b <= 4 THEN b + 7 ELSE b + 20
      BY <1>3 DEF ImmBits, Place
    <2>3. \A b : b \in MaskAndShift(w, 7, 7, 11) <=> b = 11 /\ 7 \in w
      BY MaskBit
    <2>4. \A b : b \in MaskAndShift(w, 8, 11, 1) <=> b \in 1 .. 4 /\ b + 7 \in w
      BY MaskBit
    <2>5. \A b : b \in MaskAndShift(w, 25, 30, 5) <=> b \in 5 .. 10 /\ b + 20 \in w
      BY MaskBit
    <2>6. \A b : b \in MaskAndShift(w, 31, 31, 12) <=> b = 12 /\ 31 \in w
      BY MaskBit
    <2> QED BY <2>1, <2>2, <2>3, <2>4, <2>5, <2>6
  <1>4. CASE f = "U"
    <2>1. ParseImm(f, w) = MaskAndShift(w, 12, 31, 12)
      BY <1>4 DEF ParseImm
    <2>2. ImmBits[f] = 12 .. 31 /\ \A b \in 12 .. 31 : Place(f, b) = b
      BY <1>4 DEF ImmBits, Place
    <2>3. \A b : b \in MaskAndShift(w, 12, 31, 12) <=> b \in 12 .. 31 /\ b \in w
      BY MaskBit
    <2> QED BY <2>1, <2>2, <2>3
  <1>5. CASE f = "J"
    <2>1. ParseImm(f, w) =
            MaskAndShift(w, 21, 30, 1) \cup MaskAndShift(w, 20, 20, 11) \cup
            MaskAndShift(w, 12, 19, 12) \cup MaskAndShift(w, 31, 31, 20)
      BY <1>5 DEF ParseImm
    <2>2. /\ ImmBits[f] = 1 .. 20
          /\ \A b \in 1 .. 20 :
               Place(f, b) = IF b = 20 THEN 31 ELSE IF b = 11 THEN 20
                             ELSE IF b <= 10 THEN b + 20 ELSE b
      BY <1>5 DEF ImmBits, Place
    <2>3. \A b : b \in MaskAndShift(w, 21, 30, 1) <=> b \in 1 .. 10 /\ b + 20 \in w
      BY MaskBit
    <2>4. \A b : b \in MaskAndShift(w, 20, 20, 11) <=> b = 11 /\ 20 \in w
      BY MaskBit
    <2>5. \A b : b \in MaskAndShift(w, 12, 19, 12) <=> b \in 12 .. 19 /\ b \in w
      BY MaskBit
    <2>6. \A b : b \in MaskAndShift(w, 31, 31, 20) <=> b = 20 /\ 31 \in w
      BY MaskBit
    <2> QED BY <2>1, <2>2, <2>3, <2>4, <2>5, <2>6
  <1> QED BY <1>1, <1>2, <1>3, <1>4, <1>5 DEF Format

LEMMA ParseInvertsAssemble ==
  ASSUME NEW f \in Format, NEW i \in SUBSET ImmBits[f], NEW rest \in SUBSET (0 .. 31)
  PROVE  ParseImm(f, Assemble(f, i, rest)) = i
  <1> DEFINE w == Assemble(f, i, rest)
  <1>1. w \in SUBSET (0 .. 31) /\ \A b \in ImmBits[f] : Place(f, b) \in w <=> b \in i
    BY AssembledBit
  <1> HIDE DEF w
  <1>2. /\ ParseImm(f, w) \subseteq ImmBits[f]
        /\ \A b \in ImmBits[f] : b \in ParseImm(f, w) <=> b \in i
    BY <1>1, ParsedBit
  <1>3. ParseImm(f, w) = i
    BY <1>2
  <1> QED BY <1>3 DEF w

-----------------------------------------------------------------------------
\* What each phase has established: the word is an assembled one, and the fields
\* that have been computed are those of the encoded immediate.
ImmInv ==
  /\ use \in DOMAIN FormatOf
  /\ encoded \subseteq ImmBits[FormatOf[use]]
  /\ \E rest \in SUBSET (0 .. 31) : instruction = Assemble(FormatOf[use], encoded, rest)
  /\ phase \in {"fetched", "parsed", "executed"}
  /\ phase = "fetched" => imm = {}
  /\ phase # "fetched" => imm = encoded
  /\ phase # "executed" => operand = {}
  /\ phase = "executed" => operand = Operand(use, encoded)

LEMMA FormatOfType == \A u \in DOMAIN FormatOf : FormatOf[u] \in Format
  BY DEF FormatOf, Format

LEMMA ImmInvInvariant == Spec => []ImmInv
  <1>1. Init => ImmInv
    BY ImmediateAssumption, FormatOfType DEF Init, ImmInv
  <1>2. ImmInv /\ [Next]_vars => ImmInv'
    <2> SUFFICES ASSUME ImmInv, [Next]_vars PROVE ImmInv'
      OBVIOUS
    <2>1. CASE Parse
      <3>1. PICK rest \in SUBSET (0 .. 31) :
              instruction = Assemble(FormatOf[use], encoded, rest)
        BY DEF ImmInv
      <3>2. imm' = encoded
        BY <2>1, <3>1, FormatOfType, ParseInvertsAssemble DEF Parse, ImmInv
      <3> QED BY <2>1, <3>2 DEF Parse, ImmInv
    <2>2. CASE Widen
      BY <2>2 DEF Widen, ImmInv
    <2>3. CASE UNCHANGED vars
      BY <2>3 DEF vars, ImmInv
    <2> QED BY <2>1, <2>2, <2>3 DEF Next
  <1> QED BY <1>1, <1>2, PTL DEF Spec

\* Every component keeps its type.
LEMMA ImmTypeCorrect == Spec => []TypeOK
  <1>1. ImmInv => TypeOK
    <2> SUFFICES ASSUME ImmInv PROVE TypeOK
      OBVIOUS
    <2>1. FormatOf[use] \in Format
      BY FormatOfType DEF ImmInv
    <2>2. encoded \subseteq 0 .. 31
      BY <2>1 DEF ImmInv, ImmBits, Format
    <2>3. instruction \subseteq 0 .. 31
      BY <2>1, AssembledBit DEF ImmInv
    <2>4. Operand(use, encoded) \subseteq 0 .. 63
      BY <2>2 DEF Operand, SignFrom
    <2> QED BY <2>2, <2>3, <2>4 DEF ImmInv, TypeOK
  <1> QED BY <1>1, ImmInvInvariant, PTL

\* parse_instruction returns the immediate that was encoded.
THEOREM ParsingIsCorrect == Spec => []ParsesWhatWasEncoded
  <1>1. ImmInv => ParsesWhatWasEncoded
    BY DEF ImmInv, ParsesWhatWasEncoded
  <1> QED BY <1>1, ImmInvInvariant, PTL

\* ADDI, ADDIW, JALR, branches and LUI compute with the encoded signed value.
THEOREM OperandsAreSigned == Spec => []OperandIsSigned
  <1>1. ImmInv => OperandIsSigned
    BY DEF ImmInv, OperandIsSigned, Operand, Signed, SignBit, FormatOf
  <1> QED BY <1>1, ImmInvInvariant, PTL
=============================================================================
