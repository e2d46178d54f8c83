----------------------------- MODULE ExecuteProofs -----------------------------
(***************************************************************************)
(* What the execute functions promise for registers of any width, any set  *)
(* of registers and any set of instructions: every instruction of Agrees   *)
(* does what the ISA says, whatever the atomics have written.              *)
(***************************************************************************)
EXTENDS Execute, NaturalsInduction, WellFoundedInduction, TLAPS

-----------------------------------------------------------------------------
(* Powers of two.                                                          *)

\* Induction over a set of numbers: what contains 0 and the successor of its
\* members contains every natural number.
LEMMA SetInduction ==
  ASSUME NEW S, 0 \in S, \A n \in Nat : n \in S => n + 1 \in S
  PROVE  Nat \subseteq S
<1> DEFINE T == Nat \ S
           less == {p \in Nat \X Nat : p[1] < p[2]}
<1> SUFFICES ASSUME T # {} PROVE FALSE
  OBVIOUS
<1>1. IsWellFoundedOn(less, Nat)
  <2>1. OpToRel(<, Nat) = less
    BY DEF OpToRel
  <2> QED BY <2>1, NatLessThanWellFounded
<1>2. \E x \in T : \A y \in T : ~(<<y, x>> \in less)
  <2>1. T \subseteq Nat
    OBVIOUS
  <2> HIDE DEF T, less
  <2> QED BY <1>1, <2>1, WFMin
<1>3. PICK x \in T : \A y \in T : ~(<<y, x>> \in less)
  BY <1>2
<1>4. x # 0 /\ x - 1 \in Nat /\ x - 1 < x
  BY <1>3
<1>5. x - 1 \notin T
  BY <1>3, <1>4
<1> QED BY <1>3, <1>4, <1>5

\* f is the powers of two up to 2^n.
PowersUpTo(f, n) ==
  /\ f \in [0 .. n -> Nat]
  /\ f[0] = 1 /\ \A i \in 1 .. n : f[i] = 2 * f[i - 1]

\* Two tables of powers agree as far as the shorter one goes.
LEMMA PowersUnique ==
  ASSUME NEW m \in Nat, NEW n \in Nat, m <= n, NEW f, NEW g,
         PowersUpTo(f, m), PowersUpTo(g, n)
  PROVE  \A i \in 0 .. m : f[i] = g[i]
<1> DEFINE S == {i \in Nat : i <= m => f[i] = g[i]}
<1>1. 0 \in S
  BY DEF PowersUpTo
<1>2. ASSUME NEW i \in Nat, i \in S PROVE i + 1 \in S
  <2> SUFFICES ASSUME i + 1 <= m PROVE f[i + 1] = g[i + 1]
    OBVIOUS
  <2>1. f[i] = g[i]
    BY <1>2
  <2>2. i + 1 \in 1 .. m /\ i + 1 \in 1 .. n /\ (i + 1) - 1 = i
    OBVIOUS
  <2>3. f[i + 1] = 2 * f[i] /\ g[i + 1] = 2 * g[i]
    BY <2>2 DEF PowersUpTo
  <2> QED BY <2>1, <2>3
<1>3. Nat \subseteq S
  <2> HIDE DEF S
  <2> QED BY <1>1, <1>2, SetInduction
<1> QED BY <1>3

\* There is a table of any length.
LEMMA PowersExist ==
  ASSUME NEW n \in Nat PROVE \E f : PowersUpTo(f, n)
<1> DEFINE S == {k \in Nat : \E f : PowersUpTo(f, k)}
<1>1. 0 \in S
  <2>1. PowersUpTo([i \in 0 .. 0 |-> 1], 0)
    BY DEF PowersUpTo
  <2> QED BY <2>1
<1>2. ASSUME NEW k \in Nat, k \in S PROVE k + 1 \in S
  <2>1. PICK f : PowersUpTo(f, k)
    BY <1>2
  <2> DEFINE g == [i \in 0 .. k + 1 |-> IF i = k + 1 THEN 2 * f[k] ELSE f[i]]
  <2>2. f[k] \in Nat
    BY <2>1 DEF PowersUpTo
  <2>3. g \in [0 .. k + 1 -> Nat]
    BY <2>1, <2>2 DEF PowersUpTo
  <2>4. g[0] = 1
    BY <2>1 DEF PowersUpTo
  <2>5. ASSUME NEW i \in 1 .. k + 1 PROVE g[i] = 2 * g[i - 1]
    <3>1. CASE i = k + 1
      BY <3>1
    <3>2. CASE i # k + 1
      <4>1. i \in 1 .. k /\ i - 1 \in 0 .. k + 1 /\ i - 1 # k + 1
        BY <3>2
      <4> QED BY <3>2, <4>1, <2>1 DEF PowersUpTo
    <3> QED BY <3>1, <3>2
  <2>6. PowersUpTo(g, k + 1)
    <3> HIDE DEF g
    <3> QED BY <2>3, <2>4, <2>5 DEF PowersUpTo
  <2> HIDE DEF g
  <2> QED BY <2>6
<1>3. Nat \subseteq S
  <2> HIDE DEF S
  <2> QED BY <1>1, <1>2, SetInduction
<1> QED BY <1>3

\* The recursive function exists: its definition is its equation.
LEMMA Pow2Equation ==
  Pow2 = [n \in Nat |-> IF n = 0 THEN 1 ELSE 2 * Pow2[n - 1]]
<1> DEFINE table(n) == CHOOSE f : PowersUpTo(f, n)
           F == [n \in Nat |-> table(n)[n]]
<1>1. ASSUME NEW n \in Nat PROVE PowersUpTo(table(n), n)
  BY PowersExist
<1>2. ASSUME NEW n \in Nat PROVE F[n] = IF n = 0 THEN 1 ELSE 2 * F[n - 1]
  <2>1. CASE n = 0
    BY <1>1, <2>1 DEF PowersUpTo
  <2>2. CASE n # 0
    <3>1. n - 1 \in Nat /\ n - 1 <= n /\ n - 1 \in 0 .. n - 1 /\ n \in 1 .. n
      BY <2>2
    <3>2. PowersUpTo(table(n), n) /\ PowersUpTo(table(n - 1), n - 1)
      BY <1>1, <3>1
    <3> HIDE DEF table
    <3>3. table(n - 1)[n - 1] = table(n)[n - 1]
      BY <3>1, <3>2, PowersUnique
    <3>4. table(n)[n] = 2 * table(n)[n - 1]
      BY <3>1, <3>2 DEF PowersUpTo
    <3> QED BY <2>2, <3>1, <3>3, <3>4
  <2> QED BY <2>1, <2>2
<1>3. F = [n \in Nat |-> IF n = 0 THEN 1 ELSE 2 * F[n - 1]]
  <2> HIDE DEF table
  <2> QED BY <1>2
<1> HIDE DEF F
<1>4. \E f : f = [n \in Nat |-> IF n = 0 THEN 1 ELSE 2 * f[n - 1]]
  BY <1>3
<1> QED BY <1>4 DEF Pow2

\* The laws the proofs below use.
LEMMA Pow2Laws ==
  /\ Pow2[0] = 1
  /\ \A n \in Nat : Pow2[n] \in Nat \ {0} /\ Pow2[n + 1] = 2 * Pow2[n]
<1>1. Pow2[0] = 1
  BY Pow2Equation
<1>2. ASSUME NEW n \in Nat PROVE Pow2[n + 1] = 2 * Pow2[n]
  <2>1. n + 1 \in Nat /\ n + 1 # 0 /\ (n + 1) - 1 = n
    OBVIOUS
  <2> QED BY <2>1, Pow2Equation
<1> DEFINE S == {n \in Nat : Pow2[n] \in Nat \ {0}}
<1>3. 0 \in S
  BY <1>1
<1>4. ASSUME NEW n \in Nat, n \in S PROVE n + 1 \in S
  BY <1>2, <1>4
<1>5. Nat \subseteq S
  <2> HIDE DEF S
  <2> QED BY <1>3, <1>4, SetInduction
<1> QED BY <1>1, <1>2, <1>5

\* A word is a part of a register: 2^n is 2^m times another number.
LEMMA Pow2Divides ==
  ASSUME NEW m \in Nat, NEW n \in Nat, m <= n
  PROVE  \E q \in Nat \ {0} : Pow2[n] = q * Pow2[m]
<1> DEFINE S == {k \in Nat : \E q \in Nat \ {0} : Pow2[m + k] = q * Pow2[m]}
<1>1. 0 \in S
  <2>1. Pow2[m + 0] = 1 * Pow2[m]
    BY Pow2Laws
  <2> QED BY <2>1
<1>2. ASSUME NEW k \in Nat, k \in S PROVE k + 1 \in S
  <2>1. PICK q \in Nat \ {0} : Pow2[m + k] = q * Pow2[m]
    BY <1>2
  <2>2. Pow2[m + (k + 1)] = 2 * Pow2[m + k]
    <3>1. m + k \in Nat /\ m + (k + 1) = (m + k) + 1
      OBVIOUS
    <3> QED BY <3>1, Pow2Laws
  <2>3. Pow2[m] \in Nat
    BY Pow2Laws
  <2>4. Pow2[m + (k + 1)] = (2 * q) * Pow2[m]
    <3> DEFINE p == Pow2[m]
    <3>1. 2 * (q * p) = (2 * q) * p
      <4>1. p \in Int /\ q \in Int
        BY <2>3
      <4> HIDE DEF p
      <4> QED BY <4>1
    <3> QED BY <3>1, <2>1, <2>2
  <2>5. 2 * q \in Nat \ {0}
    OBVIOUS
  <2> QED BY <2>4, <2>5
<1>3. Nat \subseteq S
  <2> HIDE DEF S
  <2> QED BY <1>1, <1>2, SetInduction
<1>4. n - m \in S
  BY <1>3
<1>5. m + (n - m) = n
  OBVIOUS
<1> QED BY <1>4, <1>5

-----------------------------------------------------------------------------
(* Arithmetic.                                                             *)

\* Quotient and remainder.
LEMMA DivMod ==
  ASSUME NEW n \in Int, NEW m \in Nat \ {0}
  PROVE  /\ n \div m \in Int /\ n % m \in 0 .. m - 1
         /\ n = m * (n \div m) + (n % m)
  OBVIOUS

\* A quotient of numbers is a number, and not above the dividend.
LEMMA DivBound ==
  ASSUME NEW n \in Nat, NEW m \in Nat \ {0}
  PROVE  n \div m \in 0 .. n
<1> DEFINE q == n \div m
           r == n % m
<1>1. q \in Int /\ r \in 0 .. m - 1 /\ n = m * q + r
  BY DivMod
<1> HIDE DEF q, r
<1>2. q >= 0
  <2> SUFFICES ASSUME q <= -1 PROVE FALSE
    BY <1>1
  <2>1. m * q <= m * (-1)
    BY <1>1
  <2> QED BY <1>1, <2>1
<1>3. q <= m * q
  BY <1>1, <1>2
<1>4. q \in 0 .. n
  BY <1>1, <1>2, <1>3
<1> QED BY <1>4 DEF q

\* Widths and the values a register has.
LEMMA Widths ==
  /\ XLEN \in Nat \ {0} /\ WORD \in Nat \ {0} /\ WORD <= XLEN
  /\ Modulus \in Nat /\ Modulus >= 2 /\ 0 \in Value /\ 1 \in Value
  /\ \A w \in Nat \ {0} :
       /\ Pow2[w] \in Nat /\ Pow2[w - 1] \in Nat \ {0} /\ Pow2[w] = 2 * Pow2[w - 1]
  /\ Pow2[IMM] <= Modulus
<1>1. XLEN \in Nat \ {0} /\ WORD \in Nat \ {0} /\ WORD <= XLEN
  BY ExecuteAssumption
<1>2. ASSUME NEW w \in Nat \ {0}
      PROVE  Pow2[w] \in Nat /\ Pow2[w - 1] \in Nat \ {0} /\ Pow2[w] = 2 * Pow2[w - 1]
  <2>1. w - 1 \in Nat /\ (w - 1) + 1 = w
    OBVIOUS
  <2> QED BY <2>1, Pow2Laws
<1>3. Modulus \in Nat /\ Modulus >= 2
  BY <1>1, <1>2 DEF Modulus
<1>4. Pow2[IMM] <= Modulus
  <2>1. IMM \in Nat /\ XLEN \in Nat /\ IMM <= XLEN
    BY ExecuteAssumption
  <2>2. PICK q \in Nat \ {0} : Pow2[XLEN] = q * Pow2[IMM]
    BY <2>1, Pow2Divides
  <2>3. Pow2[IMM] \in Nat
    BY <2>1, Pow2Laws
  <2> DEFINE p == Pow2[IMM]
  <2>4. p <= q * p
    <3> HIDE DEF p
    <3> SUFFICES p \in Nat => p <= q * p
      BY <2>3 DEF p
    <3> QED OBVIOUS
  <2> QED BY <2>2, <2>4 DEF Modulus
<1> QED BY <1>1, <1>2, <1>3, <1>4 DEF Value

\* The field of an immediate fits in a register.
LEMMA FieldValue == ASSUME NEW n \in Int PROVE n % Pow2[IMM] \in Value
<1> DEFINE p == Pow2[IMM]
<1>1. p \in Nat \ {0} /\ p <= Modulus /\ Modulus \in Nat
  BY Widths, Pow2Laws, ExecuteAssumption
<1>2. n % p \in 0 .. p - 1
  <2> HIDE DEF p
  <2> QED BY <1>1, DivMod
<1> HIDE DEF p
<1>3. n % p \in Value
  BY <1>1, <1>2 DEF Value
<1> QED BY <1>3 DEF p

LEMMA UValue == ASSUME NEW n \in Int PROVE U(n) \in Value
<1>1. Modulus \in Nat \ {0}
  BY Widths
<1>2. n % Modulus \in 0 .. Modulus - 1
  BY <1>1, DivMod
<1> QED BY <1>2 DEF U, Value

\* The casts give integers.
LEMMA CastsInt ==
  ASSUME NEW a \in Int
  PROVE  Int64(a) \in Int /\ UInt32(a) \in Nat /\ Int32(a) \in Int
<1>1. Pow2[WORD] \in Nat \ {0} /\ Pow2[WORD - 1] \in Nat /\ Modulus \in Nat
  BY Widths
<1>2. a % Pow2[WORD] \in Nat
  BY <1>1, DivMod
<1> QED BY <1>1, <1>2 DEF Int64, UInt32, Int32

\* Any offset of JAL is an integer.
LEMMA OffsetInt == ASSUME NEW n \in Int PROVE JalOffset(n) \in Int
<1>1. ASSUME NEW w \in Nat PROVE Pow2[w] \in Nat \ {0}
  BY <1>1, Pow2Laws
<1>2. ASSUME NEW w \in Nat PROVE n % Pow2[w] \in Int
  <2>1. Pow2[w] \in Nat \ {0}
    BY <1>1
  <2> QED BY <2>1, DivMod
<1>3. JUMP \in Nat /\ JUMP - 1 \in Nat /\ JUMP - 2 \in Nat
  BY ExecuteAssumption
<1>4. Pow2[JUMP - 1] \in Int /\ n % Pow2[JUMP - 1] \in Int /\ n % Pow2[JUMP] \in Int
  BY <1>1, <1>2, <1>3
<1> QED BY <1>4 DEF JalOffset

LEMMA QuotientInt ==
  ASSUME NEW a \in Int, NEW b \in Int, b # 0
  PROVE  Quotient(a, b) \in Int /\ Remainder(a, b) \in Int
<1>1. Quotient(a, b) \in Int
  <2>1. \A n \in Int : \A m \in Nat \ {0} : n \div m \in Int
    BY DivMod
  <2>2. b > 0 => b \in Nat \ {0}
    OBVIOUS
  <2>3. ~(b > 0) => -b \in Nat \ {0}
    OBVIOUS
  <2>4. -a \in Int
    OBVIOUS
  <2>5. CASE b > 0
    <3>1. a \div b \in Int /\ (-a) \div b \in Int
      BY <2>1, <2>2, <2>4, <2>5
    <3> QED BY <3>1, <2>5 DEF Quotient
  <2>6. CASE ~(b > 0)
    <3>1. a \div (-b) \in Int /\ (-a) \div (-b) \in Int
      BY <2>1, <2>3, <2>4, <2>6
    <3> QED BY <3>1, <2>6 DEF Quotient
  <2> QED BY <2>5, <2>6
<1>2. Quotient(a, b) * b \in Int
  BY <1>1
<1> QED BY <1>1, <1>2 DEF Remainder

LEMMA DivRemInt ==
  ASSUME NEW q \in BOOLEAN, NEW a \in Int, NEW b \in Int
  PROVE  /\ DivRem(q, a, b) \in Int
         /\ \A w : DivRemSigned(q, a, b, w) \in Int
<1>1. DivRem(q, a, b) \in Int
  BY QuotientInt DEF DivRem
<1> QED BY <1>1 DEF DivRemSigned

-----------------------------------------------------------------------------
(* Types.                                                                  *)

LEMMA ShiftedRightValue ==
  ASSUME NEW a \in Value, NEW b \in Int
  PROVE  a \div Pow2[ShiftCount(b)] \in Value
<1>1. ShiftCount(b) \in Nat
  BY Widths, DivMod DEF ShiftCount
<1>2. Pow2[ShiftCount(b)] \in Nat \ {0}
  BY <1>1, Pow2Laws
<1>3. a \in Nat /\ a <= Modulus - 1 /\ Modulus \in Nat
  BY Widths DEF Value
<1>4. a \div Pow2[ShiftCount(b)] \in 0 .. a
  <2> DEFINE p == Pow2[ShiftCount(b)]
  <2> HIDE DEF p
  <2> SUFFICES p \in Nat \ {0} => a \div p \in 0 .. a
    BY <1>2 DEF p
  <2> QED BY <1>3, DivBound
<1> QED BY <1>3, <1>4 DEF Value

LEMMA ShiftedLeftInt ==
  ASSUME NEW a \in Value, NEW b \in Int
  PROVE  a * Pow2[ShiftCount(b)] \in Int
<1>1. ShiftCount(b) \in Nat
  BY Widths, DivMod DEF ShiftCount
<1>2. Pow2[ShiftCount(b)] \in Int
  BY <1>1, Pow2Laws
<1>3. a \in Int
  BY Widths DEF Value
<1> QED BY <1>2, <1>3

\* Every register instruction gives rd a value of a register.
LEMMA ResultValue ==
  ASSUME NEW op \in Arithmetics, NEW a \in Value, NEW b \in Int,
         op \in {"XOR", "OR", "AND", "XORI", "ORI", "ANDI"} => b \in Value
  PROVE  Result(op, a, b) \in Value
<1>0. a \in Int
  BY Widths DEF Value
<1>1. CASE op \in Added \cup Subtracted
  <2>1. a + b \in Int /\ a - b \in Int
    BY <1>0
  <2>2. U(a + b) \in Value /\ U(a - b) \in Value
    BY <2>1, UValue
  <2>3. Result(op, a, b) \in {U(a + b), U(a - b)}
    BY <1>1 DEF Result, Added, Subtracted, ShiftedLeft, ShiftedRight, Multiplied
  <2> QED BY <2>2, <2>3
<1>2. CASE op \in ShiftedLeft \cup {"SLLIW"}
  <2>1. U(a * Pow2[ShiftCount(b)]) \in Value
    BY ShiftedLeftInt, UValue
  <2>2. Result(op, a, b) = U(a * Pow2[ShiftCount(b)])
    BY <1>2 DEF Result, Added, Subtracted, ShiftedLeft, ShiftedRight, Multiplied
  <2> QED BY <2>1, <2>2
<1>3. CASE op \in ShiftedRight \cup {"SRLIW", "SRAIW"}
  <2>1. Result(op, a, b) = a \div Pow2[ShiftCount(b)]
    BY <1>3 DEF Result, Added, Subtracted, ShiftedLeft, ShiftedRight, Multiplied
  <2> QED BY <2>1, ShiftedRightValue
<1>4. CASE op \in {"SLT", "SLTU", "SLTI", "SLTIU"}
  <2>1. Result(op, a, b) \in {0, 1}
    BY <1>4 DEF Result, Added, Subtracted, ShiftedLeft, ShiftedRight, Multiplied, Bool
  <2> QED BY <2>1, Widths
<1>5. CASE op \in {"XOR", "OR", "AND", "XORI", "ORI", "ANDI"}
  <2>1. Result(op, a, b) \in {BitXor(a, b), BitOr(a, b), BitAnd(a, b)}
    BY <1>5 DEF Result, Added, Subtracted, ShiftedLeft, ShiftedRight, Multiplied
  <2> QED BY <1>5, <2>1, BitwiseAssumption
<1>6. CASE op = "ADDIW"
  <2>1. Result(op, a, b) = U(Int32(a + b))
    BY <1>6 DEF Result, Added, Subtracted, ShiftedLeft, ShiftedRight, Multiplied
  <2>2. a + b \in Int
    BY <1>0
  <2> QED BY <2>1, <2>2, CastsInt, UValue
<1>7. CASE op \in Multiplied
  <2>1. Result(op, a, b) = U(a * b)
    BY <1>7 DEF Result, Added, Subtracted, ShiftedLeft, ShiftedRight, Multiplied
  <2>2. a * b \in Int
    BY <1>0
  <2> QED BY <2>1, <2>2, UValue
<1>8. CASE op \in {"DIV", "REM", "DIVW", "REMW"}
  <2>1. \E q \in BOOLEAN, w \in {XLEN, WORD} :
          Result(op, a, b) \in {U(DivRemSigned(q, Int64(a), Int64(b), w)),
                                U(DivRemSigned(q, Int32(a), Int32(b), w))}
    BY <1>8 DEF Result, Added, Subtracted, ShiftedLeft, ShiftedRight, Multiplied
  <2> QED BY <1>0, <2>1, CastsInt, DivRemInt, UValue
<1>9. CASE op \in {"DIVU", "REMU", "DIVUW", "REMUW"}
  <2>1. \E q \in BOOLEAN : Result(op, a, b) \in {U(DivRem(q, a, b)), U(DivRem(q, UInt32(a), UInt32(b)))}
    BY <1>9 DEF Result, Added, Subtracted, ShiftedLeft, ShiftedRight, Multiplied
  <2>2. UInt32(a) \in Int /\ UInt32(b) \in Int
    BY <1>0, CastsInt
  <2> QED BY <1>0, <2>1, <2>2, DivRemInt, UValue
<1> QED BY <1>1, <1>2, <1>3, <1>4, <1>5, <1>6, <1>7, <1>8, <1>9
        DEF Arithmetics, Added, Subtracted, ShiftedLeft, ShiftedRight,
            WordImmediateShifts, Multiplied, UnsignedImmediates

\* The value an atomic writes.
LEMMA CombineValue ==
  ASSUME NEW fn \in AtomicFunctions, NEW a \in Value, NEW b \in Value
  PROVE  Combine(fn, a, b) \in Value
<1>1. U(a + b) \in Value
  <2>1. a + b \in Int
    BY Widths DEF Value
  <2> QED BY <2>1, UValue
<1>2. {BitXor(a, b), BitOr(a, b), BitAnd(a, b)} \subseteq Value
  BY BitwiseAssumption
<1>3. Combine(fn, a, b) \in {a, b, U(a + b), BitXor(a, b), BitOr(a, b), BitAnd(a, b)}
  BY DEF Combine, AtomicFunctions
<1> QED BY <1>1, <1>2, <1>3

\* x0 may hold anything between two Steps, but no instruction starts with it.
ZeroReadsZero == ir # none => regs[0] = 0
Inv == TypeOK /\ ZeroReadsZero

LEMMA InvInit == Init => Inv
  BY Widths DEF Init, Inv, TypeOK, ZeroReadsZero

\* What is known of the instruction in execute.
LEMMA Executing ==
  ASSUME Inv, ir.op # "none"
  PROVE  /\ ir \in Instruction /\ ir # none /\ regs[0] = 0
         /\ ir.rd \in Reg /\ ir.rs1 \in Reg /\ ir.rs2 \in Reg /\ ir.imm \in Int
         /\ regs[ir.rs1] \in Value /\ regs[ir.rs2] \in Value
         /\ Second(ir) \in Int
         /\ ir.op \in AtomicOps => ir.fn \in AtomicFunctions
<1>1. ir \in Instruction /\ ir # none
  BY DEF Inv, TypeOK, none
<1>2. /\ ir.rd \in Reg /\ ir.rs1 \in Reg /\ ir.rs2 \in Reg /\ ir.imm \in Int
      /\ ir.op \in AtomicOps => ir.fn \in AtomicFunctions
  BY <1>1, ExecuteAssumption, AtomicAssumption
<1>3. regs[ir.rs1] \in Value /\ regs[ir.rs2] \in Value
  BY <1>2 DEF Inv, TypeOK
<1>4. Second(ir) \in Int
  <2>1. \A v \in Value : v \in Int
    BY Widths DEF Value
  <2>2. ir.imm % Pow2[IMM] \in Int
    BY <1>2, <2>1, FieldValue
  <2> QED BY <1>2, <1>3, <2>1, <2>2 DEF Second
<1> QED BY <1>1, <1>2, <1>3, <1>4 DEF Inv, ZeroReadsZero

LEMMA InvStep == Inv /\ [Next]_vars => Inv'
<1> SUFFICES ASSUME Inv, [Next]_vars PROVE Inv'
  OBVIOUS
<1> USE DEF Inv
<1>1. CASE UNCHANGED vars
  BY <1>1 DEF vars, TypeOK, ZeroReadsZero
<1>2. CASE Fetch
  <2>1. U(pc + 4) \in Value
    <3>1. pc + 4 \in Int
      BY Widths DEF TypeOK, Value
    <3> QED BY <3>1, UValue
  <2>2. TypeOK'
    BY <1>2, <2>1, Widths DEF Fetch, TypeOK
  <2>3. regs'[0] = 0
    BY <1>2, ExecuteAssumption DEF Fetch, TypeOK
  <2> QED BY <2>2, <2>3 DEF ZeroReadsZero
<1>3. CASE Arithmetic
  <2>1. ir.op # "none"
    BY <1>3 DEF Arithmetic, Arithmetics, Added, Subtracted, ShiftedLeft, ShiftedRight,
                WordImmediateShifts, Multiplied, UnsignedImmediates
  <2>2. Result(ir.op, regs[ir.rs1], Second(ir)) \in Value
    <3>1. ir.op \in {"XOR", "OR", "AND"} => Second(ir) \in Value
      BY <2>1, Executing DEF Second, WordImmediateShifts, UnsignedImmediates
    <3>2. ir.op \in {"XORI", "ORI", "ANDI"} => Second(ir) \in Value
      BY <2>1, Executing, FieldValue DEF Second, UnsignedImmediates
    <3> QED BY <1>3, <2>1, <3>1, <3>2, Executing, ResultValue DEF Arithmetic
  <2>3. TypeOK'
    BY <1>3, <2>1, <2>2, Executing DEF Arithmetic, Done, TypeOK
  <2> QED BY <1>3, <2>3 DEF Arithmetic, Done, ZeroReadsZero
<1>4. CASE Auipc
  <2>1. ir.op # "none"
    BY <1>4 DEF Auipc
  <2>2. U(pc + UInt32(ir.imm) - 4) \in Value
    <3>1. pc + UInt32(ir.imm) - 4 \in Int
      BY <2>1, Executing, CastsInt, Widths DEF TypeOK, Value
    <3> QED BY <3>1, UValue
  <2>3. TypeOK'
    BY <1>4, <2>1, <2>2, Executing DEF Auipc, Done, TypeOK
  <2> QED BY <1>4, <2>3 DEF Auipc, Done, ZeroReadsZero
<1>5. CASE Jal
  <2>1. ir.op # "none"
    BY <1>5 DEF Jal
  <2>2. U(pc + JalOffset(ir.imm) - 4) \in Value
    <3>1. pc + JalOffset(ir.imm) - 4 \in Int
      BY <2>1, Executing, OffsetInt, Widths DEF TypeOK, Value
    <3> QED BY <3>1, UValue
  <2>3. TypeOK'
    BY <1>5, <2>1, <2>2, Executing DEF Jal, Done, TypeOK
  <2> QED BY <1>5, <2>3 DEF Jal, Done, ZeroReadsZero
<1>6. CASE Jalr
  <2>1. ir.op # "none"
    BY <1>6 DEF Jalr
  <2>2. regs' \in [Reg -> Value]
    BY <1>6, <2>1, Executing DEF Jalr, TypeOK
  <2> DEFINE target == U(regs'[ir.rs1] + ir.imm)
  <2>3. target \in Value
    <3>1. regs'[ir.rs1] + ir.imm \in Int
      BY <2>1, <2>2, Executing, Widths DEF Value
    <3> QED BY <3>1, UValue
  <2>4. pc' = target - (target % 2)
    BY <1>6 DEF Jalr
  <2>5. pc' \in Value
    <3> HIDE DEF target
    <3> QED BY <2>3, <2>4, Widths DEF Value
  <2> QED BY <1>6, <2>2, <2>5 DEF Jalr, Done, TypeOK, ZeroReadsZero
<1>7. CASE Branch
  <2>1. ir.op # "none"
    BY <1>7 DEF Branch, Branches
  <2>2. U(pc + ir.imm - 4) \in Value
    <3>1. pc + ir.imm - 4 \in Int
      BY <2>1, Executing, Widths DEF TypeOK, Value
    <3> QED BY <3>1, UValue
  <2>3. pc' \in Value
    BY <1>7, <2>2 DEF Branch, TypeOK
  <2> QED BY <1>7, <2>3 DEF Branch, Done, TypeOK, ZeroReadsZero
<1>8. CASE AmoDouble
  <2>1. ir.op # "none" /\ ir.op \in AtomicOps
    BY <1>8 DEF AmoDouble, AtomicOps
  <2> DEFINE linked == [regs EXCEPT ![ir.rd] = regs[ir.rs1]]
  <2>2. linked \in [Reg -> Value]
    BY <2>1, Executing DEF TypeOK
  <2>3. Combine(ir.fn, regs[ir.rs1], linked[ir.rs2]) \in Value
    BY <2>1, <2>2, Executing, CombineValue
  <2>4. regs' = [linked EXCEPT ![ir.rs1] = Combine(ir.fn, regs[ir.rs1], linked[ir.rs2])]
    BY <1>8 DEF AmoDouble
  <2>5. regs' \in [Reg -> Value]
    <3> HIDE DEF linked
    <3> QED BY <2>2, <2>3, <2>4
  <2> QED BY <1>8, <2>5 DEF AmoDouble, Done, TypeOK, ZeroReadsZero
<1>9. CASE AmoIndexed
  <2>1. ir.op # "none" /\ ir.op \in AtomicOps
    BY <1>9 DEF AmoIndexed, AtomicOps
  <2> DEFINE data == regs[ir.rs1]
             value == Combine(ir.fn, data, regs[ir.rs2])
             reg == Int32(data)
             written == [r \in Reg |-> IF r = reg THEN value ELSE regs[r]]
  <2>2. data \in Value /\ value \in Value
    BY <2>1, Executing, CombineValue
  <2>3. written \in [Reg -> Value]
    <3> HIDE DEF value, reg
    <3> QED BY <2>2 DEF TypeOK
  <2>4. /\ regs' = IF ir.fn = "SWAP" THEN [written EXCEPT ![ir.rd] = data] ELSE written
        /\ pc' = IF reg = -1 THEN value ELSE pc
        /\ wild' = (reg \notin Reg \cup {-1})
    BY <1>9 DEF AmoIndexed
  <2>5. regs' \in [Reg -> Value]
    <3> HIDE DEF data, written
    <3> QED BY <2>2, <2>3, <2>4
  <2>6. pc' \in Value /\ wild' \in BOOLEAN
    <3> HIDE DEF value, reg
    <3> QED BY <2>2, <2>4 DEF TypeOK
  <2> QED BY <1>9, <2>5, <2>6 DEF AmoIndexed, TypeOK, ZeroReadsZero
<1> QED BY <1>1, <1>2, <1>3, <1>4, <1>5, <1>6, <1>7, <1>8, <1>9 DEF Next

LEMMA Invariant == Spec => []Inv
  BY InvInit, InvStep, PTL DEF Spec

-----------------------------------------------------------------------------
(* The values of the ISA.                                                  *)

\* A remainder is determined by the two things that characterise it.
LEMMA ModUnique ==
  ASSUME NEW m \in Nat \ {0}, NEW q \in Int, NEW r \in 0 .. m - 1
  PROVE  (m * q + r) % m = r
<1> DEFINE n == m * q + r
<1>1. n \in Int
  OBVIOUS
<1>2. n \div m \in Int /\ n % m \in 0 .. m - 1 /\ n = m * (n \div m) + (n % m)
  BY <1>1, DivMod
<1>3. m * (q - (n \div m)) = (n % m) - r
  BY <1>1, <1>2
<1>4. q - (n \div m) = 0
  <2> DEFINE d == q - (n \div m)
  <2>1. d \in Int /\ m * d = (n % m) - r /\ -m < (n % m) - r /\ (n % m) - r < m
    BY <1>2, <1>3
  <2>2. d < 1
    BY <2>1
  <2>3. d > -1
    BY <2>1
  <2> QED BY <2>1, <2>2, <2>3
<1> QED BY <1>2, <1>3, <1>4

\* Offsets of at most half a jump's reach, and non-negative ones of AUIPC, are taken as
\* they are.
LEMMA JalOffsetKept ==
  ASSUME NEW n \in -Pow2[JUMP - 2] .. Pow2[JUMP - 2] - 1
  PROVE  JalOffset(n) = n
<1> DEFINE h == Pow2[JUMP - 2]
           p == Pow2[JUMP - 1]
           q == Pow2[JUMP]
<1>1. h \in Nat \ {0} /\ p = 2 * h /\ q = 2 * p
  <2>1. JUMP \in Nat \ {0} /\ JUMP - 1 \in Nat \ {0} /\ (JUMP - 1) - 1 = JUMP - 2
    BY ExecuteAssumption
  <2> QED BY <2>1, Widths
<1>2. n \in -h .. h - 1
  OBVIOUS
<1>3. JalOffset(n) = IF n % p >= h THEN (n % p) - p ELSE n % q
  BY DEF JalOffset
<1> HIDE DEF h, p, q
<1>4. CASE n < 0
  <2>1. p \in Nat \ {0} /\ -1 \in Int /\ n + p \in 0 .. p - 1
    BY <1>1, <1>2, <1>4
  <2>2. (p * (-1) + (n + p)) % p = n + p
    BY <2>1, ModUnique
  <2>3. p * (-1) + (n + p) = n
    BY <2>1, <1>2
  <2>4. n % p = n + p
    BY <2>2, <2>3
  <2> QED BY <1>1, <1>2, <1>3, <2>1, <2>4
<1>5. CASE n >= 0
  <2>1. /\ p \in Nat \ {0} /\ q \in Nat \ {0} /\ 0 \in Int
        /\ n \in 0 .. p - 1 /\ n \in 0 .. q - 1 /\ n < h
    BY <1>1, <1>2, <1>5
  <2>2. (p * 0 + n) % p = n /\ (q * 0 + n) % q = n
    BY <2>1, ModUnique
  <2>3. p * 0 + n = n /\ q * 0 + n = n
    BY <2>1
  <2>4. n % p = n /\ n % q = n
    BY <2>2, <2>3
  <2> QED BY <1>1, <1>3, <2>1, <2>4
<1> QED BY <1>2, <1>4, <1>5

LEMMA AuipcOffsetKept ==
  ASSUME NEW n \in 0 .. Pow2[WORD - 1] - 1
  PROVE  UInt32(n) = n
<1> DEFINE p == Pow2[WORD]
<1>1. p \in Nat \ {0} /\ n \in 0 .. p - 1
  BY Widths
<1>2. UInt32(n) = n % p
  BY DEF UInt32
<1> HIDE DEF p
<1>3. (p * 0 + n) % p = n
  BY <1>1, ModUnique
<1>4. p * 0 + n = n
  BY <1>1
<1> QED BY <1>2, <1>3, <1>4

\* Both modules count with the same powers and the same registers.
LEMMA SameWidths ==
  /\ ISA!Pow2 = Pow2 /\ ISA!Modulus = Modulus /\ ISA!Value = Value
  /\ \A n : ISA!U(n) = U(n)
<1>1. ISA!Pow2 = Pow2
  BY DEF ISA!Pow2, Pow2
<1> QED BY <1>1 DEF ISA!Modulus, Modulus, ISA!Value, Value, ISA!U, U

\* What the cast of a number of w bits to a signed one keeps.
LEMMA SignedKeeps ==
  ASSUME NEW w \in Nat \ {0}, NEW n \in Int,
         -Pow2[w - 1] <= n, n < Pow2[w - 1]
  PROVE  ISA!Signed(n, w) = n
<1> DEFINE p == Pow2[w - 1]
<1>1. p \in Nat \ {0} /\ Pow2[w] = 2 * p
  BY Widths
<1>2. ISA!Signed(n, w) = IF n % (2 * p) >= p THEN (n % (2 * p)) - (2 * p) ELSE n % (2 * p)
  BY <1>1, SameWidths DEF ISA!Signed, ISA!Low
<1>3. -p <= n /\ n < p
  OBVIOUS
<1> HIDE DEF p
<1>4. CASE n >= 0
  <2>1. ((2 * p) * 0 + n) % (2 * p) = n
    BY <1>1, <1>3, <1>4, ModUnique
  <2>2. (2 * p) * 0 + n = n
    BY <1>1
  <2> QED BY <1>1, <1>2, <1>3, <1>4, <2>1, <2>2
<1>5. CASE n < 0
  <2>1. 2 * p \in Nat \ {0} /\ n + 2 * p \in 0 .. 2 * p - 1
    BY <1>1, <1>3, <1>5
  <2>2. ((2 * p) * (-1) + (n + 2 * p)) % (2 * p) = n + 2 * p
    BY <2>1, ModUnique
  <2>3. (2 * p) * (-1) + (n + 2 * p) = n
    BY <1>1
  <2>4. n % (2 * p) = n + 2 * p
    BY <2>2, <2>3
  <2>5. n + 2 * p >= p
    BY <1>1, <1>3
  <2>6. (n + 2 * p) - (2 * p) = n
    BY <1>1
  <2> QED BY <1>2, <2>4, <2>5, <2>6
<1> QED BY <1>4, <1>5

\* The casts of the code are the signed values of the ISA.
LEMMA SameCasts ==
  /\ \A a \in Value : ISA!Signed(a, XLEN) = Int64(a) /\ ISA!Low(a, XLEN) = a
  /\ \A n : ISA!Signed(n, WORD) = Int32(n)
<1>1. ASSUME NEW a \in Value
      PROVE  ISA!Signed(a, XLEN) = Int64(a) /\ ISA!Low(a, XLEN) = a
  <2>1. Modulus \in Nat \ {0} /\ a \in 0 .. Modulus - 1
    BY Widths DEF Value
  <2>2. (Modulus * 0 + a) % Modulus = a
    BY <2>1, ModUnique
  <2>3. Modulus * 0 + a = a
    BY <2>1
  <2>4. ISA!Low(a, XLEN) = a
    BY <2>2, <2>3, SameWidths DEF ISA!Low, Modulus
  <2>5. Pow2[XLEN - 1] \in Nat /\ Modulus = 2 * Pow2[XLEN - 1]
    BY Widths DEF Modulus
  <2>6. Modulus \div 2 = Pow2[XLEN - 1]
    BY <2>5
  <2> QED BY <2>4, <2>6, SameWidths DEF ISA!Signed, Int64, Modulus
<1>2. ASSUME NEW n PROVE ISA!Signed(n, WORD) = Int32(n)
  BY SameWidths DEF ISA!Signed, ISA!Low, Int32, UInt32
<1> QED BY <1>1, <1>2

\* The range of the casts.
LEMMA CastRanges ==
  /\ \A a \in Value : -Pow2[XLEN - 1] <= Int64(a) /\ Int64(a) < Pow2[XLEN - 1]
  /\ \A a \in Int : -Pow2[WORD - 1] <= Int32(a) /\ Int32(a) < Pow2[WORD - 1]
<1>1. ASSUME NEW a \in Value
      PROVE  -Pow2[XLEN - 1] <= Int64(a) /\ Int64(a) < Pow2[XLEN - 1]
  <2>1. Pow2[XLEN - 1] \in Nat /\ Modulus = 2 * Pow2[XLEN - 1]
    BY Widths DEF Modulus
  <2>2. Modulus \div 2 = Pow2[XLEN - 1] /\ a \in Nat /\ a <= Modulus - 1
    BY <2>1 DEF Value
  <2> QED BY <2>1, <2>2 DEF Int64
<1>2. ASSUME NEW a \in Int
      PROVE  -Pow2[WORD - 1] <= Int32(a) /\ Int32(a) < Pow2[WORD - 1]
  <2>1. Pow2[WORD - 1] \in Nat \ {0} /\ Pow2[WORD] \in Nat /\ Pow2[WORD] = 2 * Pow2[WORD - 1]
    BY Widths
  <2>2. a % Pow2[WORD] \in 0 .. Pow2[WORD] - 1
    <3> DEFINE m == Pow2[WORD]
    <3>1. m \in Nat \ {0}
      BY <2>1
    <3> HIDE DEF m
    <3>2. a % m \in 0 .. m - 1
      BY <3>1, DivMod
    <3> QED BY <3>2 DEF m
  <2> QED BY <2>1, <2>2 DEF Int32, UInt32
<1> QED BY <1>1, <1>2

-----------------------------------------------------------------------------
(* Division.                                                               *)

\* What a quotient of numbers, and its product with the divisor, are bounded by.
LEMMA DivBounds ==
  ASSUME NEW a \in Nat, NEW b \in Nat \ {0}
  PROVE  /\ a \div b \in 0 .. a /\ (a \div b) * b \in 0 .. a
         /\ a >= 1 /\ b >= 2 => a \div b < a
<1> DEFINE q == a \div b
           r == a % b
<1>1. q \in Int /\ r \in 0 .. b - 1 /\ a = b * q + r
  BY DivMod
<1>2. q \in 0 .. a
  BY DivBound
<1> HIDE DEF q, r
<1>3. b * q = q * b /\ q * b \in Int /\ q * b >= 0
  BY <1>1, <1>2
<1>4. q * b \in 0 .. a
  BY <1>1, <1>3
<1>5. ASSUME a >= 1, b >= 2 PROVE q < a
  <2> SUFFICES ASSUME q >= 1 PROVE q < a
    BY <1>2, <1>5
  <2>1. q * b >= q * 2
    BY <1>2, <1>5
  <2> QED BY <1>2, <1>4, <2>1
<1> QED BY <1>2, <1>4, <1>5 DEF q

\* C++ and the ISA round alike.
LEMMA SameQuotient ==
  ASSUME NEW a \in Int, NEW b \in Int, b # 0
  PROVE  ISA!Quotient(a, b) = Quotient(a, b)
<1>1. \A n \in Nat : \A m \in Nat \ {0} : n \div m \in Int
  BY DivMod
<1>2. CASE a >= 0 /\ b > 0
  <2>1. a \div b \in Int
    BY <1>1, <1>2
  <2> QED BY <1>2, <2>1 DEF ISA!Quotient, Quotient
<1>3. CASE a >= 0 /\ ~(b > 0)
  <2>1. a \div (-b) \in Int /\ b < 0
    BY <1>1, <1>3
  <2>2. b * (-1) = -b /\ a * 1 = a
    OBVIOUS
  <2> QED BY <1>3, <2>1, <2>2 DEF ISA!Quotient, Quotient
<1>4. CASE ~(a >= 0) /\ b > 0
  <2>1. (-a) \div b \in Int /\ a < 0
    BY <1>1, <1>4
  <2>2. a * (-1) = -a /\ b * 1 = b
    OBVIOUS
  <2> QED BY <1>4, <2>1, <2>2 DEF ISA!Quotient, Quotient
<1>5. CASE ~(a >= 0) /\ ~(b > 0)
  <2>1. (-a) \div (-b) \in Int /\ a < 0 /\ b < 0
    BY <1>1, <1>5
  <2>2. a * (-1) = -a /\ b * (-1) = -b
    OBVIOUS
  <2> QED BY <1>5, <2>1, <2>2 DEF ISA!Quotient, Quotient
<1> QED BY <1>2, <1>3, <1>4, <1>5

\* But for the quotient that is out of range, the branches of DIV and REM decide what
\* the ISA does.
LEMMA SameDivRem ==
  ASSUME NEW a \in Int, NEW b \in Int
  PROVE  DivRem(TRUE, a, b) = ISA!Div(a, b) /\ DivRem(FALSE, a, b) = ISA!Rem(a, b)
<1>1. CASE b = 0
  BY <1>1 DEF DivRem, ISA!Div, ISA!Rem
<1>2. CASE b # 0
  <2>1. ISA!Quotient(a, b) = Quotient(a, b) /\ Quotient(a, b) \in Int
    BY <1>2, SameQuotient, QuotientInt
  <2>2. Quotient(a, b) * b = b * Quotient(a, b)
    BY <2>1
  <2> QED BY <1>2, <2>1, <2>2 DEF DivRem, Remainder, ISA!Div, ISA!Rem
<1> QED BY <1>1, <1>2

\* The quotient that is out of range, and the remainder that goes with it.
LEMMA Overflow ==
  ASSUME NEW p \in Nat \ {0}
  PROVE  ISA!Div(-p, -1) = p /\ ISA!Rem(-p, -1) = 0
<1>1. p \div 1 = p
  OBVIOUS
<1>2. Quotient(-p, -1) = p
  BY <1>1 DEF Quotient
<1>3. ISA!Quotient(-p, -1) = p
  BY <1>2, SameQuotient
<1> QED BY <1>3 DEF ISA!Div, ISA!Rem

\* Quotients and remainders stay in the range of the operands.
LEMMA DivRemRange ==
  ASSUME NEW p \in Nat \ {0}, NEW a \in Int, NEW b \in Int,
         -p <= a, a < p, ~(a = -p /\ b = -1)
  PROVE  /\ ISA!Div(a, b) \in Int /\ -p <= ISA!Div(a, b) /\ ISA!Div(a, b) < p
         /\ ISA!Rem(a, b) \in Int /\ -p <= ISA!Rem(a, b) /\ ISA!Rem(a, b) < p
<1>1. CASE b = 0
  BY <1>1 DEF ISA!Div, ISA!Rem
<1>2. CASE b # 0
  <2> DEFINE q == Quotient(a, b)
  <2>1. ISA!Div(a, b) = q /\ ISA!Rem(a, b) = a - b * q
    BY <1>2, SameQuotient DEF ISA!Div, ISA!Rem
  <2>2. q \in Int /\ -p <= q /\ q < p /\ b * q \in Int /\ -p <= a - b * q /\ a - b * q < p
    <3>1. CASE a >= 0 /\ b > 0
      <4>1. q = a \div b
        BY <3>1 DEF Quotient
      <4>2. q \in 0 .. a /\ q * b \in 0 .. a
        BY <3>1, <4>1, DivBounds
      <4> HIDE DEF q
      <4> QED BY <3>1, <4>2
    <3>2. CASE a >= 0 /\ ~(b > 0)
      <4> DEFINE c == -b
                 k == a \div c
      <4>1. q = -k /\ c \in Nat \ {0}
        BY <1>2, <3>2 DEF Quotient
      <4>2. k \in 0 .. a /\ k * c \in 0 .. a
        <5> HIDE DEF c
        <5> QED BY <3>2, <4>1, DivBounds
      <4>3. b = -c
        OBVIOUS
      <4> HIDE DEF q, c, k
      <4>4. b * q = k * c
        BY <4>1, <4>2, <4>3
      <4> QED BY <3>2, <4>1, <4>2, <4>4
    <3>3. CASE ~(a >= 0) /\ b > 0
      <4> DEFINE d == -a
                 k == d \div b
      <4>1. q = -k /\ d \in Nat \ {0}
        BY <3>3 DEF Quotient
      <4>2. k \in 0 .. d /\ k * b \in 0 .. d
        <5> HIDE DEF d
        <5> QED BY <3>3, <4>1, DivBounds
      <4>3. a = -d
        OBVIOUS
      <4> HIDE DEF q, d, k
      <4>4. b * q = -(k * b)
        BY <4>1, <4>2
      <4> QED BY <3>3, <4>1, <4>2, <4>3, <4>4
    <3>4. CASE ~(a >= 0) /\ ~(b > 0)
      <4> DEFINE c == -b
                 d == -a
                 k == d \div c
      <4>1. q = k /\ c \in Nat \ {0} /\ d \in Nat \ {0} /\ d <= p /\ (d = p => c # 1)
        BY <1>2, <3>4 DEF Quotient
      <4>2. k \in 0 .. d /\ k * c \in 0 .. d /\ (c >= 2 => k < d)
        <5> HIDE DEF c, d
        <5> QED BY <4>1, DivBounds
      <4>3. a = -d /\ b = -c
        OBVIOUS
      <4> HIDE DEF q, c, d, k
      <4>4. b * q = -(k * c)
        BY <4>1, <4>2, <4>3
      <4>5. k < p
        BY <4>1, <4>2
      <4> QED BY <4>1, <4>2, <4>3, <4>4, <4>5
    <3> QED BY <3>1, <3>2, <3>3, <3>4
  <2> HIDE DEF q
  <2>3. a - b * q \in Int
    BY <2>2
  <2> QED BY <2>1, <2>2, <2>3
<1> QED BY <1>1, <1>2

-----------------------------------------------------------------------------
(* Instruction by instruction.                                             *)

\* DIV and REM on w bits: the code's branch for the overflow, cut to the width, is
\* what the ISA's rounding gives.
LEMMA SignedDivision ==
  ASSUME NEW w \in Nat \ {0}, NEW a \in Int, NEW b \in Int,
         -Pow2[w - 1] <= a, a < Pow2[w - 1]
  PROVE  /\ DivRemSigned(TRUE, a, b, w) = ISA!Signed(ISA!Div(a, b), w)
         /\ DivRemSigned(FALSE, a, b, w) = ISA!Signed(ISA!Rem(a, b), w)
         /\ ISA!Div(a, b) \in Int /\ ISA!Rem(a, b) \in Int
<1> DEFINE p == Pow2[w - 1]
<1>1. p \in Nat \ {0} /\ Pow2[w] = 2 * p /\ -p <= a /\ a < p
  BY Widths
<1>2. CASE a = -p /\ b = -1
  <2>1. DivRemSigned(TRUE, a, b, w) = -p /\ DivRemSigned(FALSE, a, b, w) = 0
    BY <1>2 DEF DivRemSigned
  <2>2. ISA!Div(a, b) = p /\ ISA!Rem(a, b) = 0
    <3> HIDE DEF p
    <3> QED BY <1>1, <1>2, Overflow
  <2>3. ISA!Signed(p, w) = -p
    <3>1. p % (2 * p) = p
      <4> HIDE DEF p
      <4>1. ((2 * p) * 0 + p) % (2 * p) = p
        BY <1>1, ModUnique
      <4>2. (2 * p) * 0 + p = p
        BY <1>1
      <4> QED BY <4>1, <4>2
    <3>2. ISA!Signed(p, w) = IF p % (2 * p) >= p THEN (p % (2 * p)) - (2 * p) ELSE p % (2 * p)
      BY <1>1, SameWidths DEF ISA!Signed, ISA!Low
    <3> HIDE DEF p
    <3> QED BY <1>1, <3>1, <3>2
  <2>4. ISA!Signed(0, w) = 0
    BY <1>1, SignedKeeps
  <2>5. ISA!Signed(ISA!Div(a, b), w) = -p /\ ISA!Signed(ISA!Rem(a, b), w) = 0
    BY <2>2, <2>3, <2>4
  <2>6. ISA!Div(a, b) \in Int /\ ISA!Rem(a, b) \in Int
    BY <1>1, <2>2
  <2> QED BY <2>1, <2>5, <2>6
<1>3. CASE ~(a = -p /\ b = -1)
  <2>1. /\ ISA!Div(a, b) \in Int /\ -p <= ISA!Div(a, b) /\ ISA!Div(a, b) < p
        /\ ISA!Rem(a, b) \in Int /\ -p <= ISA!Rem(a, b) /\ ISA!Rem(a, b) < p
    <3> HIDE DEF p
    <3> QED BY <1>1, <1>3, DivRemRange
  <2>2. ISA!Signed(ISA!Div(a, b), w) = ISA!Div(a, b) /\ ISA!Signed(ISA!Rem(a, b), w) = ISA!Rem(a, b)
    BY <2>1, SignedKeeps
  <2>3. /\ DivRemSigned(TRUE, a, b, w) = DivRem(TRUE, a, b)
        /\ DivRemSigned(FALSE, a, b, w) = DivRem(FALSE, a, b)
    BY <1>3 DEF DivRemSigned
  <2> QED BY <2>1, <2>2, <2>3, SameDivRem
<1> QED BY <1>2, <1>3

\* In a register, a number and its signed value on the register's width are the same.
LEMMA SignedInRegister ==
  ASSUME NEW n \in Int PROVE U(ISA!Signed(n, XLEN)) = U(n)
<1> DEFINE m == Modulus
           q == n \div m
           r == n % m
<1>1. m \in Nat \ {0}
  BY Widths
<1>2. q \in Int /\ r \in 0 .. m - 1 /\ n = m * q + r
  <2> HIDE DEF m
  <2> QED BY <1>1, DivMod
<1>3. ISA!Low(n, XLEN) = r /\ Pow2[XLEN] = m
  BY SameWidths DEF ISA!Low, Modulus
<1>4. ISA!Signed(n, XLEN) = r \/ ISA!Signed(n, XLEN) = r - m
  BY <1>3, SameWidths DEF ISA!Signed
<1> HIDE DEF q, r, m
<1>5. r % m = r
  <2>1. (m * 0 + r) % m = r
    BY <1>1, <1>2, ModUnique
  <2>2. m * 0 + r = r
    BY <1>1, <1>2
  <2> QED BY <2>1, <2>2
<1>6. (r - m) % m = r
  <2>1. (m * (-1) + r) % m = r
    BY <1>1, <1>2, ModUnique
  <2>2. m * (-1) + r = r - m
    BY <1>1, <1>2
  <2> QED BY <2>1, <2>2
<1> QED BY <1>4, <1>5, <1>6 DEF U, r, m

\* A value is itself in a register.
LEMMA ValueInRegister == ASSUME NEW v \in Value PROVE U(v) = v
<1>1. Modulus \in Nat \ {0} /\ v \in 0 .. Modulus - 1
  BY Widths DEF Value
<1>2. (Modulus * 0 + v) % Modulus = v
  BY <1>1, ModUnique
<1>3. Modulus * 0 + v = v
  BY <1>1
<1> QED BY <1>2, <1>3 DEF U

\* The remainder of values is a value.
LEMMA UnsignedRemainder ==
  ASSUME NEW a \in Value, NEW b \in Value
  PROVE  ISA!Rem(a, b) \in Value
<1>1. a \in Nat /\ b \in Nat /\ a <= Modulus - 1 /\ Modulus \in Nat
  BY Widths DEF Value
<1>2. CASE b = 0
  BY <1>2 DEF ISA!Rem
<1>3. CASE b # 0
  <2>1. b \in Nat \ {0} /\ Quotient(a, b) = a \div b
    BY <1>1, <1>3 DEF Quotient
  <2>2. (a \div b) * b \in 0 .. a /\ a \div b \in 0 .. a
    BY <1>1, <2>1, DivBounds
  <2>3. ISA!Rem(a, b) = a - b * (a \div b)
    <3>1. ISA!Quotient(a, b) = a \div b
      BY <1>1, <1>3, <2>1, SameQuotient
    <3> QED BY <1>3, <3>1 DEF ISA!Rem
  <2>4. b * (a \div b) = (a \div b) * b
    BY <1>1, <2>2
  <2> QED BY <1>1, <2>2, <2>3, <2>4 DEF Value
<1> QED BY <1>2, <1>3

\* What the agreeing register instructions compute is what the ISA says, for every
\* value of the operands.
LEMMA SameResult ==
  ASSUME NEW op \in (Agreeing \cap Arithmetics) \cup (UnsignedImmediates \ {"SLTI"}),
         NEW a \in Value, NEW b \in Int,
         op \notin {"ADDI", "ADDIW", "SLLI", "SRLI"} => b \in Value
  PROVE  Result(op, a, b) = ISA!Result(op, a, b)
<1> USE DEF Result, Added, Subtracted, ShiftedLeft, ShiftedRight, Multiplied
<1>0. a \in Int /\ \A n : ISA!U(n) = U(n)
  BY Widths, SameWidths DEF Value
<1>1. CASE op \in {"ADD", "ADDI", "SUB", "MUL", "XOR", "OR", "AND", "XORI", "ORI", "ANDI"}
  BY <1>0, <1>1 DEF ISA!Result
<1>2. CASE op \in {"SLL", "SLLI", "SRL", "SRLI"}
  <2>1. op \in {"SLL", "SLLI"} => Result(op, a, b) = ISA!Result(op, a, b)
    BY <1>0, SameWidths DEF ISA!Result, ShiftCount
  <2>2. op \in {"SRL", "SRLI"} => Result(op, a, b) = ISA!Result(op, a, b)
    BY <1>0, SameWidths DEF ISA!Result, ShiftCount
  <2> QED BY <1>2, <2>1, <2>2
<1>3. CASE op \in {"SLTU", "SLTIU"}
  BY <1>3 DEF ISA!Result, ISA!Test, Bool
<1>4. CASE op = "ADDIW"
  <2>1. Result(op, a, b) = U(Int32(a + b)) /\ ISA!Result(op, a, b) = ISA!Word(a + b)
    BY <1>4 DEF ISA!Result
  <2> QED BY <1>0, <2>1, SameCasts DEF ISA!Word
<1>5. CASE op \in {"DIV", "REM"}
  <2> DEFINE x == Int64(a)
             y == Int64(b)
  <2>1. x \in Int /\ y \in Int /\ -Pow2[XLEN - 1] <= x /\ x < Pow2[XLEN - 1]
    BY <1>0, <1>5, CastsInt, CastRanges
  <2>2. ISA!Signed(a, XLEN) = x /\ ISA!Signed(b, XLEN) = y
    BY <1>5, SameCasts
  <2>3. ISA!Result(op, a, b) = IF op = "DIV" THEN U(ISA!Div(x, y)) ELSE U(ISA!Rem(x, y))
    BY <1>0, <1>5, <2>2 DEF ISA!Result
  <2>4. Result(op, a, b) = IF op = "DIV" THEN U(DivRemSigned(TRUE, x, y, XLEN))
                                         ELSE U(DivRemSigned(FALSE, x, y, XLEN))
    BY <1>5
  <2> HIDE DEF x, y
  <2>5. /\ DivRemSigned(TRUE, x, y, XLEN) = ISA!Signed(ISA!Div(x, y), XLEN)
        /\ DivRemSigned(FALSE, x, y, XLEN) = ISA!Signed(ISA!Rem(x, y), XLEN)
        /\ ISA!Div(x, y) \in Int /\ ISA!Rem(x, y) \in Int
    BY <2>1, Widths, SignedDivision
  <2>6. /\ U(DivRemSigned(TRUE, x, y, XLEN)) = U(ISA!Div(x, y))
        /\ U(DivRemSigned(FALSE, x, y, XLEN)) = U(ISA!Rem(x, y))
    BY <2>5, SignedInRegister
  <2> QED BY <2>3, <2>4, <2>6
<1>6. CASE op \in {"DIVW", "REMW"}
  <2> DEFINE x == Int32(a)
             y == Int32(b)
  <2>1. x \in Int /\ y \in Int /\ -Pow2[WORD - 1] <= x /\ x < Pow2[WORD - 1]
    BY <1>0, CastsInt, CastRanges
  <2>2. ISA!Signed(a, WORD) = x /\ ISA!Signed(b, WORD) = y
    BY SameCasts
  <2>3. ISA!Result(op, a, b) = IF op = "DIVW" THEN U(ISA!Signed(ISA!Div(x, y), WORD))
                                              ELSE U(ISA!Signed(ISA!Rem(x, y), WORD))
    BY <1>0, <1>6, <2>2 DEF ISA!Result, ISA!Word
  <2>4. Result(op, a, b) = IF op = "DIVW" THEN U(DivRemSigned(TRUE, x, y, WORD))
                                          ELSE U(DivRemSigned(FALSE, x, y, WORD))
    BY <1>6
  <2> HIDE DEF x, y
  <2>5. /\ DivRemSigned(TRUE, x, y, WORD) = ISA!Signed(ISA!Div(x, y), WORD)
        /\ DivRemSigned(FALSE, x, y, WORD) = ISA!Signed(ISA!Rem(x, y), WORD)
    BY <2>1, Widths, SignedDivision
  <2> QED BY <2>3, <2>4, <2>5
<1>7. CASE op \in {"DIVU", "REMU"}
  <2>1. Result(op, a, b) = IF op = "DIVU" THEN U(DivRem(TRUE, a, b)) ELSE U(DivRem(FALSE, a, b))
    BY <1>7
  <2>2. ISA!Result(op, a, b) = IF op = "DIVU" THEN U(ISA!Div(a, b)) ELSE ISA!Rem(a, b)
    BY <1>0, <1>7 DEF ISA!Result
  <2>3. U(ISA!Rem(a, b)) = ISA!Rem(a, b)
    BY <1>7, UnsignedRemainder, ValueInRegister
  <2> QED BY <1>0, <2>1, <2>2, <2>3, SameDivRem
<1> QED BY <1>1, <1>2, <1>3, <1>4, <1>5, <1>6, <1>7
        DEF Agreeing, Arithmetics, WordImmediateShifts, Branches, UnsignedImmediates

LEMMA SameTaken ==
  ASSUME NEW op \in Branches, NEW a \in Value, NEW b \in Value
  PROVE  Taken(op, a, b) = ISA!Taken(op, a, b)
  BY SameCasts DEF Branches, Taken, ISA!Taken

\* The registers the guest sees when an instruction has given rd a value.
LEMMA VisibleWrite ==
  ASSUME Inv, ir.op # "none", NEW v, regs' = [regs EXCEPT ![ir.rd] = v]
  PROVE  Visible' = ISA!SetReg(ir.rd, v)
  BY Executing DEF Inv, TypeOK, Visible, ISA!SetReg

\* ... and when it reads its operands.
LEMMA VisibleRead ==
  ASSUME Inv, ir.op # "none"
  PROVE  Visible[ir.rs1] = regs[ir.rs1] /\ Visible[ir.rs2] = regs[ir.rs2]
  BY Executing DEF Visible

-----------------------------------------------------------------------------
(* The refinement.                                                         *)

LEMMA InitImplements == Init => ISA!Init
  BY Widths, SameWidths, ExecuteAssumption
  DEF Init, ISA!Init, Visible, ISA!none, none

LEMMA FetchImplements == Inv /\ Fetch => ISA!Fetch
<1> SUFFICES ASSUME Inv, Fetch PROVE ISA!Fetch
  OBVIOUS
<1>1. Visible' = Visible
  BY DEF Fetch, Visible, Inv, TypeOK
<1> QED BY <1>1, SameWidths DEF Fetch, ISA!Fetch, ISA!none, none

LEMMA ArithmeticImplements ==
  ASSUME Inv, Arithmetic, Agrees(ir)
  PROVE  ISA!Execute
<1>1. ir.op \in Arithmetics /\ ir.op # "none" /\ ir.op \notin Branches \cup {"JAL", "JALR", "AUIPC"}
  BY DEF Arithmetic, Arithmetics, Added, Subtracted, ShiftedLeft, ShiftedRight,
         WordImmediateShifts, Multiplied, UnsignedImmediates, Branches
<1>0. ir.op \in Agreeing \cup (UnsignedImmediates \ {"SLTI"})
  BY <1>1 DEF Agrees
<1> DEFINE a == regs[ir.rs1]
           b == Second(ir)
<1>2. b = ISA!Second
  <2>1. CASE ir.op \in Agreeing
    BY <1>1, <2>1, VisibleRead
    DEF Second, WordImmediateShifts, ISA!Second, ISA!Added, ISA!Compared,
        UnsignedImmediates, Agreeing, Branches
  <2>2. CASE ir.op \in UnsignedImmediates \ {"SLTI"}
    <3> DEFINE p == Pow2[IMM]
               n == ir.imm
    <3>1. b = n % p /\ ISA!Second = U(n)
      BY <2>2, SameWidths DEF Second, ISA!Second, ISA!Added, ISA!Compared, UnsignedImmediates
    <3>2. n \in 0 .. Pow2[IMM - 1] - 1
      BY <2>2 DEF Agrees, Agreeing, Branches, UnsignedImmediates
    <3>3. p \in Nat \ {0} /\ p <= Modulus /\ n \in 0 .. p - 1 /\ Modulus \in Nat
      <4>1. IMM \in Nat \ {0}
        BY ExecuteAssumption
      <4>2. Pow2[IMM - 1] \in Nat \ {0} /\ Pow2[IMM] = 2 * Pow2[IMM - 1]
        BY <4>1, Widths
      <4> QED BY <3>2, <4>2, Widths
    <3>4. n \in Value
      <4> HIDE DEF p, n
      <4> QED BY <3>3 DEF Value
    <3>5. n % p = n
      <4> HIDE DEF p, n
      <4>1. (p * 0 + n) % p = n
        BY <3>3, ModUnique
      <4>2. p * 0 + n = n
        BY <3>3
      <4> QED BY <4>1, <4>2
    <3> QED BY <3>1, <3>4, <3>5, ValueInRegister
  <2> QED BY <1>0, <2>1, <2>2
<1>3. a \in Value /\ b \in Int /\ (ir.op \notin {"ADDI", "ADDIW", "SLLI", "SRLI"} => b \in Value)
  <2>1. ir.op \in UnsignedImmediates => b \in Value
    BY <1>1, Executing, FieldValue DEF Second, UnsignedImmediates
  <2>2. ir.op \in Agreeing \ {"ADDI", "ADDIW", "SLLI", "SRLI"} => b \in Value
    BY <1>1, Executing DEF Second, WordImmediateShifts, Agreeing, Branches, UnsignedImmediates
  <2> QED BY <1>0, <1>1, <2>1, <2>2, Executing
<1>4. Result(ir.op, a, b) = ISA!Result(ir.op, a, b)
  BY <1>0, <1>1, <1>3, SameResult
<1>5. Visible' = ISA!SetReg(ir.rd, ISA!Result(ir.op, a, b))
  BY <1>1, <1>4, VisibleWrite DEF Arithmetic
<1>6. a = Visible[ir.rs1] /\ ir # none
  BY <1>1, VisibleRead, Executing
<1> HIDE DEF a, b
<1> QED BY <1>1, <1>2, <1>5, <1>6
        DEF ISA!Execute, Arithmetic, Done, ISA!none, none, ISA!Branches, Branches

LEMMA JumpImplements ==
  ASSUME Inv, Agrees(ir), Auipc \/ Jal \/ Jalr \/ Branch
  PROVE  ISA!Execute
<1>1. ir.op # "none" /\ ir # none
  BY Executing DEF Auipc, Jal, Jalr, Branch, Branches
<1>2. pc + ir.imm - 4 = pc - 4 + ir.imm
  BY <1>1, Executing, Widths DEF Inv, TypeOK, Value
<1> USE DEF Done, ISA!none, none
<1>3. CASE Auipc
  <2>0. UInt32(ir.imm) = ir.imm
    <3>1. ir.imm \in 0 .. Pow2[WORD - 1] - 1
      BY <1>3 DEF Auipc, Agrees, Agreeing, Branches, UnsignedImmediates
    <3> QED BY <3>1, AuipcOffsetKept
  <2>1. Visible' = ISA!SetReg(ir.rd, ISA!U(pc - 4 + ir.imm))
    BY <1>1, <1>2, <1>3, <2>0, VisibleWrite, SameWidths DEF Auipc
  <2> QED BY <1>1, <1>3, <2>1 DEF Auipc, ISA!Execute, ISA!Branches
<1>4. CASE Jal
  <2>0. JalOffset(ir.imm) = ir.imm
    <3>1. ir.imm \in -Pow2[JUMP - 2] .. Pow2[JUMP - 2] - 1
      BY <1>4 DEF Jal, Agrees, Agreeing, Branches, UnsignedImmediates
    <3> QED BY <3>1, JalOffsetKept
  <2>1. Visible' = ISA!SetReg(ir.rd, pc)
    BY <1>1, <1>4, VisibleWrite DEF Jal
  <2> QED BY <1>1, <1>2, <1>4, <2>0, <2>1, SameWidths DEF Jal, ISA!Execute, ISA!Branches
<1>5. CASE Jalr
  <2>0. ir.rd # ir.rs1
    BY <1>5 DEF Jalr, Agrees, Agreeing, Branches, UnsignedImmediates
  <2>1. Visible' = ISA!SetReg(ir.rd, pc)
    BY <1>1, <1>5, VisibleWrite DEF Jalr
  <2>2. regs'[ir.rs1] = Visible[ir.rs1]
    BY <1>1, <1>5, <2>0, Executing, VisibleRead DEF Jalr, Inv, TypeOK
  <2> QED BY <1>1, <1>5, <2>1, <2>2, SameWidths DEF Jalr, ISA!Execute, ISA!Branches
<1>6. CASE Branch
  <2>1. Visible' = Visible
    BY <1>6 DEF Branch, Visible
  <2>2. /\ ir.op \notin {"JAL", "JALR", "AUIPC"} /\ ir.op \in ISA!Branches
        /\ ISA!Second = Visible[ir.rs2]
    BY <1>6 DEF Branch, Branches, ISA!Branches, ISA!Second, ISA!Added, ISA!Compared
  <2>3. Taken(ir.op, regs[ir.rs1], regs[ir.rs2]) = ISA!Taken(ir.op, Visible[ir.rs1], Visible[ir.rs2])
    BY <1>1, <1>6, Executing, VisibleRead, SameTaken DEF Branch
  <2>4. pc' = IF ISA!Taken(ir.op, Visible[ir.rs1], Visible[ir.rs2]) THEN ISA!U(pc - 4 + ir.imm) ELSE pc
    BY <1>2, <1>6, <2>3, SameWidths DEF Branch
  <2> QED BY <1>1, <1>6, <2>1, <2>2, <2>4 DEF Branch, ISA!Execute
<1> QED BY <1>3, <1>4, <1>5, <1>6

LEMMA NextImplements ==
  ASSUME \A i \in Instruction : i.op \in AtomicOps \/ Agrees(i)
  PROVE  Inv /\ [Next]_vars => [Atomic \/ ISA!Next]_(ISA!vars)
<1> SUFFICES ASSUME Inv, [Next]_vars PROVE [Atomic \/ ISA!Next]_(ISA!vars)
  OBVIOUS
<1>1. CASE UNCHANGED vars
  BY <1>1 DEF vars, ISA!vars, Visible
<1>2. CASE Fetch
  BY <1>2, FetchImplements DEF ISA!Next
<1>3. CASE Arithmetic
  <2>1. Agrees(ir)
    <3>1. ir.op \notin {"none"} \cup AtomicOps
      BY <1>3 DEF Arithmetic, Arithmetics, Added, Subtracted, ShiftedLeft, ShiftedRight,
                  WordImmediateShifts, Multiplied, UnsignedImmediates, AtomicOps
    <3> QED BY <3>1, Executing
  <2> QED BY <1>3, <2>1, ArithmeticImplements DEF ISA!Next
<1>4. CASE Auipc \/ Jal \/ Jalr \/ Branch
  <2>1. Agrees(ir)
    <3>1. ir.op \notin {"none"} \cup AtomicOps
      BY <1>4 DEF Auipc, Jal, Jalr, Branch, Branches, AtomicOps
    <3> QED BY <3>1, Executing
  <2> QED BY <1>4, <2>1, JumpImplements DEF ISA!Next
<1>5. CASE AmoDouble \/ AmoIndexed
  BY <1>5 DEF AmoDouble, AmoIndexed, Atomic, AtomicOps
<1> QED BY <1>1, <1>2, <1>3, <1>4, <1>5 DEF Next

\* Of a guest that uses, beside the atomics, the instructions of Agrees, every step is
\* one of the ISA: for any width of registers and words, any registers, any values.
THEOREM ExecuteImplementsIsa ==
  ASSUME \A i \in Instruction : i.op \in AtomicOps \/ Agrees(i)
  PROVE  Spec => ImplementsIsa
<1>1. Inv /\ [Next]_vars => [Atomic \/ ISA!Next]_(ISA!vars)
  BY NextImplements
<1> QED BY <1>1, Invariant, InitImplements, PTL DEF Spec, ImplementsIsa
=============================================================================
