----------------------------- MODULE DecodeProofs -----------------------------
(***************************************************************************)
(* Proofs about Decode, for every set of instruction words: the entry      *)
(* found is the instruction the ISA names (DecodeImplementsIsa), a         *)
(* reserved word traps (DecodeTrapsReserved), and the order of the table   *)
(* decides nothing but FENCE (DecodeOrderIsIrrelevant).                    *)
(*                                                                         *)
(* The table is a concatenation of eleven blocks. Each block is reasoned   *)
(* about on its own: what its entries match, that no two match one word    *)
(* (Right) and which words find an entry in it (Found). TableBlocks puts   *)
(* the blocks at their places in the table; Base names the one block a     *)
(* word can match in, so a match is the only one of the table.             *)
(***************************************************************************)
EXTENDS Decode, SequenceTheorems, FiniteSetTheorems, TLAPS

-----------------------------------------------------------------------------
(* Where the entries of a block are in the table.                          *)

\* The elements of two sequences in their concatenation.
LEMMA Joined ==
  ASSUME NEW S, NEW s \in Seq(S), NEW t \in Seq(S), NEW u, u = s \o t
  PROVE  /\ u \in Seq(S) /\ Len(u) = Len(s) + Len(t)
         /\ \A i \in 1 .. Len(s) : u[i] = s[i]
         /\ \A i \in 1 .. Len(t) : u[Len(s) + i] = t[i]
<1>1. /\ s \o t \in Seq(S) /\ Len(s \o t) = Len(s) + Len(t)
      /\ \A i \in 1 .. Len(s) + Len(t) :
           (s \o t)[i] = IF i <= Len(s) THEN s[i] ELSE t[i - Len(s)]
  BY ConcatProperties
<1>2. ASSUME NEW i \in 1 .. Len(s) PROVE (s \o t)[i] = s[i]
  BY <1>1
<1>3. ASSUME NEW i \in 1 .. Len(t) PROVE (s \o t)[Len(s) + i] = t[i]
  <2>1. /\ Len(s) + i \in 1 .. Len(s) + Len(t)
        /\ ~(Len(s) + i <= Len(s)) /\ (Len(s) + i) - Len(s) = i
    OBVIOUS
  <2> QED BY <1>1, <2>1
<1> QED BY <1>1, <1>2, <1>3

Entry ==
  UNION {Range(b) : b \in {Privileged, Jumps, Memory, Immediates, Registers, System,
                           Rv64, Zicsr, Multiply, AtomicW, AtomicD}}

LEMMA Typed ==
  /\ Privileged \in Seq(Entry) /\ Len(Privileged) = 2
  /\ Jumps \in Seq(Entry) /\ Len(Jumps) = 10
  /\ Memory \in Seq(Entry) /\ Len(Memory) = 8
  /\ Immediates \in Seq(Entry) /\ Len(Immediates) = 9
  /\ Registers \in Seq(Entry) /\ Len(Registers) = 10
  /\ System \in Seq(Entry) /\ Len(System) = 3
  /\ Rv64 \in Seq(Entry) /\ Len(Rv64) = 12
  /\ Zicsr \in Seq(Entry) /\ Len(Zicsr) = 7
  /\ Multiply \in Seq(Entry) /\ Len(Multiply) = 13
  /\ AtomicW \in Seq(Entry) /\ Len(AtomicW) = 11
  /\ AtomicD \in Seq(Entry) /\ Len(AtomicD) = 11
<1>1. Privileged \in Seq(Entry) /\ Len(Privileged) = 2
  <2>1. \A j \in 1 .. 2 : Privileged[j] \in Range(Privileged)
    BY DEF Privileged, Range
  <2>2. Range(Privileged) \subseteq Entry
    BY DEF Entry
  <2>3. \A j \in 1 .. 2 : Privileged[j] \in Entry
    BY <2>1, <2>2
  <2> QED BY <2>3 DEF Privileged
<1>2. Jumps \in Seq(Entry) /\ Len(Jumps) = 10
  <2>1. \A j \in 1 .. 10 : Jumps[j] \in Range(Jumps)
    BY DEF Jumps, Range
  <2>2. Range(Jumps) \subseteq Entry
    BY DEF Entry
  <2>3. \A j \in 1 .. 10 : Jumps[j] \in Entry
    BY <2>1, <2>2
  <2> QED BY <2>3 DEF Jumps
<1>3. Memory \in Seq(Entry) /\ Len(Memory) = 8
  <2>1. \A j \in 1 .. 8 : Memory[j] \in Range(Memory)
    BY DEF Memory, Range
  <2>2. Range(Memory) \subseteq Entry
    BY DEF Entry
  <2>3. \A j \in 1 .. 8 : Memory[j] \in Entry
    BY <2>1, <2>2
  <2> QED BY <2>3 DEF Memory
<1>4. Immediates \in Seq(Entry) /\ Len(Immediates) = 9
  <2>1. \A j \in 1 .. 9 : Immediates[j] \in Range(Immediates)
    BY DEF Immediates, Range
  <2>2. Range(Immediates) \subseteq Entry
    BY DEF Entry
  <2>3. \A j \in 1 .. 9 : Immediates[j] \in Entry
    BY <2>1, <2>2
  <2> QED BY <2>3 DEF Immediates
<1>5. Registers \in Seq(Entry) /\ Len(Registers) = 10
  <2>1. \A j \in 1 .. 10 : Registers[j] \in Range(Registers)
    BY DEF Registers, Range
  <2>2. Range(Registers) \subseteq Entry
    BY DEF Entry
  <2>3. \A j \in 1 .. 10 : Registers[j] \in Entry
    BY <2>1, <2>2
  <2> QED BY <2>3 DEF Registers
<1>6. System \in Seq(Entry) /\ Len(System) = 3
  <2>1. \A j \in 1 .. 3 : System[j] \in Range(System)
    BY DEF System, Range
  <2>2. Range(System) \subseteq Entry
    BY DEF Entry
  <2>3. \A j \in 1 .. 3 : System[j] \in Entry
    BY <2>1, <2>2
  <2> QED BY <2>3 DEF System
<1>7. Rv64 \in Seq(Entry) /\ Len(Rv64) = 12
  <2>1. \A j \in 1 .. 12 : Rv64[j] \in Range(Rv64)
    BY DEF Rv64, Range
  <2>2. Range(Rv64) \subseteq Entry
    BY DEF Entry
  <2>3. \A j \in 1 .. 12 : Rv64[j] \in Entry
    BY <2>1, <2>2
  <2> QED BY <2>3 DEF Rv64
<1>8. Zicsr \in Seq(Entry) /\ Len(Zicsr) = 7
  <2>1. \A j \in 1 .. 7 : Zicsr[j] \in Range(Zicsr)
    BY DEF Zicsr, Range
  <2>2. Range(Zicsr) \subseteq Entry
    BY DEF Entry
  <2>3. \A j \in 1 .. 7 : Zicsr[j] \in Entry
    BY <2>1, <2>2
  <2> QED BY <2>3 DEF Zicsr
<1>9. Multiply \in Seq(Entry) /\ Len(Multiply) = 13
  <2>1. \A j \in 1 .. 13 : Multiply[j] \in Range(Multiply)
    BY DEF Multiply, Range
  <2>2. Range(Multiply) \subseteq Entry
    BY DEF Entry
  <2>3. \A j \in 1 .. 13 : Multiply[j] \in Entry
    BY <2>1, <2>2
  <2> QED BY <2>3 DEF Multiply
<1>10. AtomicW \in Seq(Entry) /\ Len(AtomicW) = 11
  <2>1. \A j \in 1 .. 11 : AtomicW[j] \in Range(AtomicW)
    BY DEF AtomicW, Range
  <2>2. Range(AtomicW) \subseteq Entry
    BY DEF Entry
  <2>3. \A j \in 1 .. 11 : AtomicW[j] \in Entry
    BY <2>1, <2>2
  <2> QED BY <2>3 DEF AtomicW
<1>11. AtomicD \in Seq(Entry) /\ Len(AtomicD) = 11
  <2>1. \A j \in 1 .. 11 : AtomicD[j] \in Range(AtomicD)
    BY DEF AtomicD, Range
  <2>2. Range(AtomicD) \subseteq Entry
    BY DEF Entry
  <2>3. \A j \in 1 .. 11 : AtomicD[j] \in Entry
    BY <2>1, <2>2
  <2> QED BY <2>3 DEF AtomicD
<1> QED BY <1>1, <1>2, <1>3, <1>4, <1>5, <1>6, <1>7, <1>8, <1>9, <1>10, <1>11

LEMMA TableBlocks ==
  /\ DOMAIN Table = 1 .. 96
  /\ \A j \in 1 .. 2 : Table[0 + j] = Privileged[j]
  /\ \A j \in 1 .. 10 : Table[2 + j] = Jumps[j]
  /\ \A j \in 1 .. 8 : Table[12 + j] = Memory[j]
  /\ \A j \in 1 .. 9 : Table[20 + j] = Immediates[j]
  /\ \A j \in 1 .. 10 : Table[29 + j] = Registers[j]
  /\ \A j \in 1 .. 3 : Table[39 + j] = System[j]
  /\ \A j \in 1 .. 12 : Table[42 + j] = Rv64[j]
  /\ \A j \in 1 .. 7 : Table[54 + j] = Zicsr[j]
  /\ \A j \in 1 .. 13 : Table[61 + j] = Multiply[j]
  /\ \A j \in 1 .. 11 : Table[74 + j] = AtomicW[j]
  /\ \A j \in 1 .. 11 : Table[85 + j] = AtomicD[j]
<1> DEFINE T1 == Privileged
           T2 == T1 \o Jumps
           T3 == T2 \o Memory
           T4 == T3 \o Immediates
           T5 == T4 \o Registers
           T6 == T5 \o System
           T7 == T6 \o Rv64
           T8 == T7 \o Zicsr
           T9 == T8 \o Multiply
           T10 == T9 \o AtomicW
           T11 == T10 \o AtomicD
<1>0. Table = T11
  BY DEF Table
<1>1. T1 \in Seq(Entry) /\ Len(T1) = 2
  BY Typed
<1> HIDE DEF T1
<1>2. T2 \in Seq(Entry) /\ Len(T2) = 12
  <2>1. T1 \in Seq(Entry) /\ Jumps \in Seq(Entry)
    BY <1>1, Typed
  <2>2. T2 \in Seq(Entry) /\ Len(T2) = Len(T1) + Len(Jumps)
    BY <2>1, Joined
  <2> QED BY <2>2, <1>1, Typed
<1>3. /\ \A j \in 1 .. 2 : T2[j] = T1[j]
      /\ \A j \in 1 .. 10 : T2[2 + j] = Jumps[j]
  <2>1. T1 \in Seq(Entry) /\ Jumps \in Seq(Entry)
    BY <1>1, Typed
  <2>2. /\ \A j \in 1 .. Len(T1) : T2[j] = T1[j]
        /\ \A j \in 1 .. Len(Jumps) : T2[Len(T1) + j] = Jumps[j]
    BY <2>1, Joined
  <2>3. Len(T1) = 2 /\ Len(Jumps) = 10
    BY <1>1, Typed
  <2> HIDE DEF T2
  <2> QED BY <2>2, <2>3
<1> HIDE DEF T2
<1>4. T3 \in Seq(Entry) /\ Len(T3) = 20
  <2>1. T2 \in Seq(Entry) /\ Memory \in Seq(Entry)
    BY <1>2, Typed
  <2>2. T3 \in Seq(Entry) /\ Len(T3) = Len(T2) + Len(Memory)
    BY <2>1, Joined
  <2> QED BY <2>2, <1>2, Typed
<1>5. /\ \A j \in 1 .. 12 : T3[j] = T2[j]
      /\ \A j \in 1 .. 8 : T3[12 + j] = Memory[j]
  <2>1. T2 \in Seq(Entry) /\ Memory \in Seq(Entry)
    BY <1>2, Typed
  <2>2. /\ \A j \in 1 .. Len(T2) : T3[j] = T2[j]
        /\ \A j \in 1 .. Len(Memory) : T3[Len(T2) + j] = Memory[j]
    BY <2>1, Joined
  <2>3. Len(T2) = 12 /\ Len(Memory) = 8
    BY <1>2, Typed
  <2> HIDE DEF T3
  <2> QED BY <2>2, <2>3
<1> HIDE DEF T3
<1>6. T4 \in Seq(Entry) /\ Len(T4) = 29
  <2>1. T3 \in Seq(Entry) /\ Immediates \in Seq(Entry)
    BY <1>4, Typed
  <2>2. T4 \in Seq(Entry) /\ Len(T4) = Len(T3) + Len(Immediates)
    BY <2>1, Joined
  <2> QED BY <2>2, <1>4, Typed
<1>7. /\ \A j \in 1 .. 20 : T4[j] = T3[j]
      /\ \A j \in 1 .. 9 : T4[20 + j] = Immediates[j]
  <2>1. T3 \in Seq(Entry) /\ Immediates \in Seq(Entry)
    BY <1>4, Typed
  <2>2. /\ \A j \in 1 .. Len(T3) : T4[j] = T3[j]
        /\ \A j \in 1 .. Len(Immediates) : T4[Len(T3) + j] = Immediates[j]
    BY <2>1, Joined
  <2>3. Len(T3) = 20 /\ Len(Immediates) = 9
    BY <1>4, Typed
  <2> HIDE DEF T4
  <2> QED BY <2>2, <2>3
<1> HIDE DEF T4
<1>8. T5 \in Seq(Entry) /\ Len(T5) = 39
  <2>1. T4 \in Seq(Entry) /\ Registers \in Seq(Entry)
    BY <1>6, Typed
  <2>2. T5 \in Seq(Entry) /\ Len(T5) = Len(T4) + Len(Registers)
    BY <2>1, Joined
  <2> QED BY <2>2, <1>6, Typed
<1>9. /\ \A j \in 1 .. 29 : T5[j] = T4[j]
      /\ \A j \in 1 .. 10 : T5[29 + j] = Registers[j]
  <2>1. T4 \in Seq(Entry) /\ Registers \in Seq(Entry)
    BY <1>6, Typed
  <2>2. /\ \A j \in 1 .. Len(T4) : T5[j] = T4[j]
        /\ \A j \in 1 .. Len(Registers) : T5[Len(T4) + j] = Registers[j]
    BY <2>1, Joined
  <2>3. Len(T4) = 29 /\ Len(Registers) = 10
    BY <1>6, Typed
  <2> HIDE DEF T5
  <2> QED BY <2>2, <2>3
<1> HIDE DEF T5
<1>10. T6 \in Seq(Entry) /\ Len(T6) = 42
  <2>1. T5 \in Seq(Entry) /\ System \in Seq(Entry)
    BY <1>8, Typed
  <2>2. T6 \in Seq(Entry) /\ Len(T6) = Len(T5) + Len(System)
    BY <2>1, Joined
  <2> QED BY <2>2, <1>8, Typed
<1>11. /\ \A j \in 1 .. 39 : T6[j] = T5[j]
       /\ \A j \in 1 .. 3 : T6[39 + j] = System[j]
  <2>1. T5 \in Seq(Entry) /\ System \in Seq(Entry)
    BY <1>8, Typed
  <2>2. /\ \A j \in 1 .. Len(T5) : T6[j] = T5[j]
        /\ \A j \in 1 .. Len(System) : T6[Len(T5) + j] = System[j]
    BY <2>1, Joined
  <2>3. Len(T5) = 39 /\ Len(System) = 3
    BY <1>8, Typed
  <2> HIDE DEF T6
  <2> QED BY <2>2, <2>3
<1> HIDE DEF T6
<1>12. T7 \in Seq(Entry) /\ Len(T7) = 54
  <2>1. T6 \in Seq(Entry) /\ Rv64 \in Seq(Entry)
    BY <1>10, Typed
  <2>2. T7 \in Seq(Entry) /\ Len(T7) = Len(T6) + Len(Rv64)
    BY <2>1, Joined
  <2> QED BY <2>2, <1>10, Typed
<1>13. /\ \A j \in 1 .. 42 : T7[j] = T6[j]
       /\ \A j \in 1 .. 12 : T7[42 + j] = Rv64[j]
  <2>1. T6 \in Seq(Entry) /\ Rv64 \in Seq(Entry)
    BY <1>10, Typed
  <2>2. /\ \A j \in 1 .. Len(T6) : T7[j] = T6[j]
        /\ \A j \in 1 .. Len(Rv64) : T7[Len(T6) + j] = Rv64[j]
    BY <2>1, Joined
  <2>3. Len(T6) = 42 /\ Len(Rv64) = 12
    BY <1>10, Typed
  <2> HIDE DEF T7
  <2> QED BY <2>2, <2>3
<1> HIDE DEF T7
<1>14. T8 \in Seq(Entry) /\ Len(T8) = 61
  <2>1. T7 \in Seq(Entry) /\ Zicsr \in Seq(Entry)
    BY <1>12, Typed
  <2>2. T8 \in Seq(Entry) /\ Len(T8) = Len(T7) + Len(Zicsr)
    BY <2>1, Joined
  <2> QED BY <2>2, <1>12, Typed
<1>15. /\ \A j \in 1 .. 54 : T8[j] = T7[j]
       /\ \A j \in 1 .. 7 : T8[54 + j] = Zicsr[j]
  <2>1. T7 \in Seq(Entry) /\ Zicsr \in Seq(Entry)
    BY <1>12, Typed
  <2>2. /\ \A j \in 1 .. Len(T7) : T8[j] = T7[j]
        /\ \A j \in 1 .. Len(Zicsr) : T8[Len(T7) + j] = Zicsr[j]
    BY <2>1, Joined
  <2>3. Len(T7) = 54 /\ Len(Zicsr) = 7
    BY <1>12, Typed
  <2> HIDE DEF T8
  <2> QED BY <2>2, <2>3
<1> HIDE DEF T8
<1>16. T9 \in Seq(Entry) /\ Len(T9) = 74
  <2>1. T8 \in Seq(Entry) /\ Multiply \in Seq(Entry)
    BY <1>14, Typed
  <2>2. T9 \in Seq(Entry) /\ Len(T9) = Len(T8) + Len(Multiply)
    BY <2>1, Joined
  <2> QED BY <2>2, <1>14, Typed
<1>17. /\ \A j \in 1 .. 61 : T9[j] = T8[j]
       /\ \A j \in 1 .. 13 : T9[61 + j] = Multiply[j]
  <2>1. T8 \in Seq(Entry) /\ Multiply \in Seq(Entry)
    BY <1>14, Typed
  <2>2. /\ \A j \in 1 .. Len(T8) : T9[j] = T8[j]
        /\ \A j \in 1 .. Len(Multiply) : T9[Len(T8) + j] = Multiply[j]
    BY <2>1, Joined
  <2>3. Len(T8) = 61 /\ Len(Multiply) = 13
    BY <1>14, Typed
  <2> HIDE DEF T9
  <2> QED BY <2>2, <2>3
<1> HIDE DEF T9
<1>18. T10 \in Seq(Entry) /\ Len(T10) = 85
  <2>1. T9 \in Seq(Entry) /\ AtomicW \in Seq(Entry)
    BY <1>16, Typed
  <2>2. T10 \in Seq(Entry) /\ Len(T10) = Len(T9) + Len(AtomicW)
    BY <2>1, Joined
  <2> QED BY <2>2, <1>16, Typed
<1>19. /\ \A j \in 1 .. 74 : T10[j] = T9[j]
       /\ \A j \in 1 .. 11 : T10[74 + j] = AtomicW[j]
  <2>1. T9 \in Seq(Entry) /\ AtomicW \in Seq(Entry)
    BY <1>16, Typed
  <2>2. /\ \A j \in 1 .. Len(T9) : T10[j] = T9[j]
        /\ \A j \in 1 .. Len(AtomicW) : T10[Len(T9) + j] = AtomicW[j]
    BY <2>1, Joined
  <2>3. Len(T9) = 74 /\ Len(AtomicW) = 11
    BY <1>16, Typed
  <2> HIDE DEF T10
  <2> QED BY <2>2, <2>3
<1> HIDE DEF T10
<1>20. T11 \in Seq(Entry) /\ Len(T11) = 96
  <2>1. T10 \in Seq(Entry) /\ AtomicD \in Seq(Entry)
    BY <1>18, Typed
  <2>2. T11 \in Seq(Entry) /\ Len(T11) = Len(T10) + Len(AtomicD)
    BY <2>1, Joined
  <2> QED BY <2>2, <1>18, Typed
<1>21. /\ \A j \in 1 .. 85 : T11[j] = T10[j]
       /\ \A j \in 1 .. 11 : T11[85 + j] = AtomicD[j]
  <2>1. T10 \in Seq(Entry) /\ AtomicD \in Seq(Entry)
    BY <1>18, Typed
  <2>2. /\ \A j \in 1 .. Len(T10) : T11[j] = T10[j]
        /\ \A j \in 1 .. Len(AtomicD) : T11[Len(T10) + j] = AtomicD[j]
    BY <2>1, Joined
  <2>3. Len(T10) = 85 /\ Len(AtomicD) = 11
    BY <1>18, Typed
  <2> HIDE DEF T11
  <2> QED BY <2>2, <2>3
<1> HIDE DEF T11
<1>22. DOMAIN Table = 1 .. 96
  <2>1. DOMAIN T11 = 1 .. Len(T11) /\ Len(T11) = 96
    BY <1>20
  <2> QED BY <1>0, <2>1
<1>23. \A j \in 1 .. 2 : Table[0 + j] = Privileged[j]
  BY <1>0, <1>3, <1>5, <1>7, <1>9, <1>11, <1>13, <1>15, <1>17, <1>19, <1>21 DEF T1
<1>24. \A j \in 1 .. 10 : Table[2 + j] = Jumps[j]
  BY <1>0, <1>3, <1>5, <1>7, <1>9, <1>11, <1>13, <1>15, <1>17, <1>19, <1>21
<1>25. \A j \in 1 .. 8 : Table[12 + j] = Memory[j]
  BY <1>0, <1>5, <1>7, <1>9, <1>11, <1>13, <1>15, <1>17, <1>19, <1>21
<1>26. \A j \in 1 .. 9 : Table[20 + j] = Immediates[j]
  BY <1>0, <1>7, <1>9, <1>11, <1>13, <1>15, <1>17, <1>19, <1>21
<1>27. \A j \in 1 .. 10 : Table[29 + j] = Registers[j]
  BY <1>0, <1>9, <1>11, <1>13, <1>15, <1>17, <1>19, <1>21
<1>28. \A j \in 1 .. 3 : Table[39 + j] = System[j]
  BY <1>0, <1>11, <1>13, <1>15, <1>17, <1>19, <1>21
<1>29. \A j \in 1 .. 12 : Table[42 + j] = Rv64[j]
  BY <1>0, <1>13, <1>15, <1>17, <1>19, <1>21
<1>30. \A j \in 1 .. 7 : Table[54 + j] = Zicsr[j]
  BY <1>0, <1>15, <1>17, <1>19, <1>21
<1>31. \A j \in 1 .. 13 : Table[61 + j] = Multiply[j]
  BY <1>0, <1>17, <1>19, <1>21
<1>32. \A j \in 1 .. 11 : Table[74 + j] = AtomicW[j]
  BY <1>0, <1>19, <1>21
<1>33. \A j \in 1 .. 11 : Table[85 + j] = AtomicD[j]
  BY <1>0, <1>21
<1> QED BY <1>22, <1>23, <1>24, <1>25, <1>26, <1>27, <1>28, <1>29, <1>30, <1>31, <1>32, <1>33

-----------------------------------------------------------------------------
(* What an entry compares.                                                 *)

\* A word matches an entry when the fields of the entry's mask agree.
LEMMA MatchOp ==
  \A w, n, op : Op(n, op).name = n /\ (Matches(Op(n, op), w) <=> w.op = op)
  BY DEF Matches, Op

LEMMA MatchF3 ==
  \A w, n, op, f3 : /\ F3(n, op, f3).name = n
                    /\ Matches(F3(n, op, f3), w) <=> w.op = op /\ w.f3 = f3
  BY DEF Matches, F3

LEMMA MatchF7 ==
  \A w, n, op, f3, f7 : /\ F7(n, op, f3, f7).name = n
                        /\ Matches(F7(n, op, f3, f7), w) <=>
                             w.op = op /\ w.f3 = f3 /\ w.f7 = f7
  BY DEF Matches, F7

LEMMA MatchF6 ==
  \A w, n, op, f3, f6 : /\ F6(n, op, f3, f6).name = n
                        /\ Matches(F6(n, op, f3, f6), w) <=>
                             w.op = op /\ w.f3 = f3 /\ w.f6 = f6
  BY DEF Matches, F6

LEMMA MatchF5 ==
  \A w, n, op, f3, f5 : /\ F5(n, op, f3, f5).name = n
                        /\ Matches(F5(n, op, f3, f5), w) <=>
                             w.op = op /\ w.f3 = f3 /\ w.f5 = f5
  BY DEF Matches, F5

LEMMA MatchLr ==
  \A w, n, f3 : /\ Lr(n, f3).name = n
                /\ Matches(Lr(n, f3), w) <=> w.op = 47 /\ w.f3 = f3 /\ w.f5 = 2 /\ w.rs2 = 0
  BY DEF Matches, Lr

LEMMA MatchExact ==
  \A w, n, op, f7, rs2 :
    /\ Exact(n, op, f7, rs2).name = n
    /\ Matches(Exact(n, op, f7, rs2), w) <=>
         w.op = op /\ w.rd = 0 /\ w.f3 = 0 /\ w.f7 = f7 /\ w.rs1 = 0 /\ w.rs2 = rs2
  BY DEF Matches, Exact

-----------------------------------------------------------------------------
(* The ISA's name of a word, opcode by opcode, where the definition has    *)
(* more than a list.                                                       *)

LEMMA NameByOp ==
  ASSUME NEW w
  PROVE  /\ w.op = 3 => IsaName(w) = Nth(Loads, w.f3)
         /\ w.op = 35 => IsaName(w) = Nth(Stores, w.f3)
         /\ w.op = 99 => IsaName(w) = Branches[w.f3 + 1]
         /\ w.op = 19 => IsaName(w) = ImmediateName(w)
         /\ w.op = 27 => IsaName(w) = WordImmediateName(w)
         /\ w.op = 51 => IsaName(w) = RegisterName(w)
         /\ w.op = 59 => IsaName(w) = WordName(w)
         /\ w.op = 115 => IsaName(w) = SystemName(w)
         /\ w.op = 103 => IsaName(w) = IF w.f3 = 0 THEN "JALR" ELSE "reserved"
         /\ w.op = 47 =>
              IsaName(w) = IF w.f3 \notin {2, 3} \/ (w.f5 = 2 /\ w.rs2 # 0) THEN "reserved"
                           ELSE Amo[w.f5][w.f3 - 1]
         /\ w.op = 15 => IsaName(w) = Nth(<<"FENCE", "FENCE.I">>, w.f3)
         /\ w.op = 55 => IsaName(w) = "LUI"
         /\ w.op = 23 => IsaName(w) = "AUIPC"
         /\ w.op = 111 => IsaName(w) = "JAL"
         /\ w.op \notin {3, 35, 99, 19, 27, 51, 59, 115, 103, 47, 15, 55, 23, 111} =>
              IsaName(w) = "reserved"
  BY DEF IsaName

LEMMA AmoRows ==
  /\ Amo[0] = <<"AMOADD.W", "AMOADD.D">> /\ Amo[1] = <<"AMOSWAP.W", "AMOSWAP.D">>
  /\ Amo[2] = <<"LR.W", "LR.D">> /\ Amo[3] = <<"SC.W", "SC.D">>
  /\ Amo[4] = <<"AMOXOR.W", "AMOXOR.D">> /\ Amo[8] = <<"AMOOR.W", "AMOOR.D">>
  /\ Amo[12] = <<"AMOAND.W", "AMOAND.D">> /\ Amo[16] = <<"AMOMIN.W", "AMOMIN.D">>
  /\ Amo[20] = <<"AMOMAX.W", "AMOMAX.D">> /\ Amo[24] = <<"AMOMINU.W", "AMOMINU.D">>
  /\ Amo[28] = <<"AMOMAXU.W", "AMOMAXU.D">>
  /\ \A n \in 0 .. 31 : n \notin {0, 1, 2, 3, 4, 8, 12, 16, 20, 24, 28} =>
       Amo[n] = <<"reserved", "reserved">>
  BY DEF Amo

LEMMA EnvironmentRows ==
  /\ Environment[<<0, 0>>] = "ECALL" /\ Environment[<<0, 1>>] = "EBREAK"
  /\ Environment[<<8, 2>>] = "SRET" /\ Environment[<<24, 2>>] = "MRET"
  /\ Environment[<<8, 5>>] = "WFI"
  /\ DOMAIN Environment = {<<0, 0>>, <<0, 1>>, <<8, 2>>, <<24, 2>>, <<8, 5>>}
  BY DEF Environment

LEMMA WordRows ==
  ASSUME NEW w, w.op = 59
  PROVE  /\ w.f7 = 0 /\ w.f3 = 0 => IsaName(w) = "ADDW"
         /\ w.f7 = 0 /\ w.f3 = 1 => IsaName(w) = "SLLW"
         /\ w.f7 = 0 /\ w.f3 = 5 => IsaName(w) = "SRLW"
         /\ w.f7 = 32 /\ w.f3 = 0 => IsaName(w) = "SUBW"
         /\ w.f7 = 32 /\ w.f3 = 5 => IsaName(w) = "SRAW"
         /\ w.f7 = 1 => IsaName(w) = OpMulW[w.f3 + 1]
<1>1. ASSUME w.f7 = 0, w.f3 = 0 PROVE WordName(w) = "ADDW"
  BY <1>1 DEF WordName
<1>2. ASSUME w.f7 = 0, w.f3 = 1 PROVE WordName(w) = "SLLW"
  BY <1>2 DEF WordName
<1>3. ASSUME w.f7 = 0, w.f3 = 5 PROVE WordName(w) = "SRLW"
  BY <1>3 DEF WordName
<1>4. ASSUME w.f7 = 32, w.f3 = 0 PROVE WordName(w) = "SUBW"
  BY <1>4 DEF WordName
<1>5. ASSUME w.f7 = 32, w.f3 = 5 PROVE WordName(w) = "SRAW"
  BY <1>5 DEF WordName
<1>6. ASSUME w.f7 = 1 PROVE WordName(w) = OpMulW[w.f3 + 1]
  BY <1>6 DEF WordName
<1> QED BY <1>1, <1>2, <1>3, <1>4, <1>5, <1>6, NameByOp

LEMMA SystemRows ==
  ASSUME NEW w, w.op = 115
  PROVE  /\ w.f3 # 0 => IsaName(w) = OpCsr[w.f3 + 1]
         /\ w.f3 = 0 /\ w.rd = 0 /\ w.rs1 = 0 /\ w.f7 = 0 /\ w.rs2 = 0 =>
              IsaName(w) = "ECALL"
         /\ w.f3 = 0 /\ w.rd = 0 /\ w.rs1 = 0 /\ w.f7 = 0 /\ w.rs2 = 1 =>
              IsaName(w) = "EBREAK"
         /\ w.f3 = 0 /\ w.rd = 0 /\ w.rs1 = 0 /\ w.f7 = 8 /\ w.rs2 = 2 =>
              IsaName(w) = "SRET"
         /\ w.f3 = 0 /\ w.rd = 0 /\ w.rs1 = 0 /\ w.f7 = 24 /\ w.rs2 = 2 =>
              IsaName(w) = "MRET"
<1>0. IsaName(w) = SystemName(w)
  BY NameByOp
<1>1. CASE w.f3 # 0
  BY <1>0, <1>1 DEF SystemName
<1>2. CASE w.f3 = 0 /\ w.rd = 0 /\ w.rs1 = 0 /\ w.f7 = 0 /\ w.rs2 = 0
  BY <1>0, <1>2, EnvironmentRows DEF SystemName
<1>3. CASE w.f3 = 0 /\ w.rd = 0 /\ w.rs1 = 0 /\ w.f7 = 0 /\ w.rs2 = 1
  BY <1>0, <1>3, EnvironmentRows DEF SystemName
<1>4. CASE w.f3 = 0 /\ w.rd = 0 /\ w.rs1 = 0 /\ w.f7 = 8 /\ w.rs2 = 2
  BY <1>0, <1>4, EnvironmentRows DEF SystemName
<1>5. CASE w.f3 = 0 /\ w.rd = 0 /\ w.rs1 = 0 /\ w.f7 = 24 /\ w.rs2 = 2
  BY <1>0, <1>5, EnvironmentRows DEF SystemName
<1> QED BY <1>1, <1>2, <1>3, <1>4, <1>5

-----------------------------------------------------------------------------
(* What the entries of each block make of a word.                          *)

\* What the table makes of a word, where it is not what the ISA does: the entry
\* FENCE.I is the whole of its major opcode, and the word shifts have six bits of
\* shift amount.
TableName(w) ==
  IF w.op = 15 THEN "FENCE.I"
  ELSE IF w.op = 27 /\ w.f3 = 5 /\ w.f6 = 0 THEN "SRLIW"
  ELSE IF w.op = 27 /\ w.f3 = 5 /\ w.f6 = 16 THEN "SRAIW"
  ELSE IsaName(w)

\* Where in the table the block begins that a word's entry is in.
Base(w) ==
  IF w.op = 115 THEN IF w.f3 # 0 THEN 54 ELSE IF w.rs2 = 2 THEN 0 ELSE 39
  ELSE IF w.op = 47 THEN IF w.f3 = 2 THEN 74 ELSE 85
  ELSE IF w.op \in {51, 59} /\ w.f7 = 1 THEN 61
  ELSE IF w.op \in {27, 59} \/ <<w.op, w.f3>> \in {<<3, 3>>, <<3, 6>>, <<35, 3>>} THEN 42
  ELSE IF w.op \in {3, 35} THEN 12
  ELSE IF w.op = 19 THEN 20
  ELSE IF w.op = 51 THEN 29
  ELSE 2

\* An entry that matches has the word's name, is in the word's block and is the only
\* one of the block.
Right(block, n, d, w) ==
  \A j \in 1 .. n :
    Matches(block[j], w) /\ w.op # 15 =>
      /\ block[j].name = TableName(w) /\ TableName(w) # "reserved" /\ Base(w) = d
      /\ \A i \in 1 .. n : Matches(block[i], w) => i = j

LEMMA PrivilegedRight == ASSUME NEW w \in Words PROVE Right(Privileged, 2, 0, w)
<1>1. \A j \in 1 .. 2 : Privileged[j].name # "reserved"
  BY MatchExact DEF Privileged
<1>2. ASSUME NEW j \in 1 .. 2, Matches(Privileged[j], w), w.op # 15
      PROVE  Privileged[j].name = TableName(w) /\ Base(w) = 0
  <2>1. Base(w) = 0
    BY <1>2, MatchExact DEF Privileged, Base
  <2>2. Privileged[j].name = TableName(w)
    BY <1>2, MatchExact, SystemRows
    DEF Privileged, TableName
  <2> QED BY <2>1, <2>2
<1>3. ASSUME NEW i \in 1 .. 2, NEW j \in 1 .. 2,
             Matches(Privileged[i], w), Matches(Privileged[j], w)
      PROVE  i = j
  BY <1>3, MatchExact DEF Privileged
<1> QED BY <1>1, <1>2, <1>3 DEF Right

LEMMA JumpsRight == ASSUME NEW w \in Words PROVE Right(Jumps, 10, 2, w)
<1>1. \A j \in 1 .. 10 : Jumps[j].name # "reserved"
  BY MatchOp, MatchF3 DEF Jumps
<1>2. ASSUME NEW j \in 1 .. 10, Matches(Jumps[j], w), w.op # 15
      PROVE  Jumps[j].name = TableName(w) /\ Base(w) = 2
  <2>1. Base(w) = 2
    BY <1>2, MatchOp, MatchF3 DEF Jumps, Base
  <2>2. Jumps[j].name = TableName(w)
    BY <1>2, MatchOp, MatchF3, NameByOp
    DEF Jumps, TableName, Branches
  <2> QED BY <2>1, <2>2
<1>3. ASSUME NEW i \in 1 .. 10, NEW j \in 1 .. 10,
             Matches(Jumps[i], w), Matches(Jumps[j], w)
      PROVE  i = j
  BY <1>3, MatchOp, MatchF3 DEF Jumps
<1> QED BY <1>1, <1>2, <1>3 DEF Right

LEMMA MemoryRight == ASSUME NEW w \in Words PROVE Right(Memory, 8, 12, w)
<1>1. \A j \in 1 .. 8 : Memory[j].name # "reserved"
  BY MatchF3 DEF Memory
<1>2. ASSUME NEW j \in 1 .. 8, Matches(Memory[j], w), w.op # 15
      PROVE  Memory[j].name = TableName(w) /\ Base(w) = 12
  <2>1. Base(w) = 12
    BY <1>2, MatchF3 DEF Memory, Base
  <2>2. Memory[j].name = TableName(w)
    BY <1>2, MatchF3, NameByOp
    DEF Memory, TableName, Loads, Stores, Nth
  <2> QED BY <2>1, <2>2
<1>3. ASSUME NEW i \in 1 .. 8, NEW j \in 1 .. 8,
             Matches(Memory[i], w), Matches(Memory[j], w)
      PROVE  i = j
  BY <1>3, MatchF3 DEF Memory
<1> QED BY <1>1, <1>2, <1>3 DEF Right

LEMMA ImmediatesRight == ASSUME NEW w \in Words PROVE Right(Immediates, 9, 20, w)
<1>1. \A j \in 1 .. 9 : Immediates[j].name # "reserved"
  BY MatchF3, MatchF6 DEF Immediates
<1>2. ASSUME NEW j \in 1 .. 9, Matches(Immediates[j], w), w.op # 15
      PROVE  Immediates[j].name = TableName(w) /\ Base(w) = 20
  <2>1. Base(w) = 20
    BY <1>2, MatchF3, MatchF6 DEF Immediates, Base
  <2>2. Immediates[j].name = TableName(w)
    BY <1>2, MatchF3, MatchF6, NameByOp
    DEF Immediates, TableName, ImmediateName, OpImm
  <2> QED BY <2>1, <2>2
<1>3. ASSUME NEW i \in 1 .. 9, NEW j \in 1 .. 9,
             Matches(Immediates[i], w), Matches(Immediates[j], w)
      PROVE  i = j
  BY <1>3, MatchF3, MatchF6 DEF Immediates
<1> QED BY <1>1, <1>2, <1>3 DEF Right

LEMMA RegistersRight == ASSUME NEW w \in Words PROVE Right(Registers, 10, 29, w)
<1>1. \A j \in 1 .. 10 : Registers[j].name # "reserved"
  BY MatchF7 DEF Registers
<1>2. ASSUME NEW j \in 1 .. 10, Matches(Registers[j], w), w.op # 15
      PROVE  Registers[j].name = TableName(w) /\ Base(w) = 29
  <2>1. Base(w) = 29
    BY <1>2, MatchF7 DEF Registers, Base
  <2>2. Registers[j].name = TableName(w)
    BY <1>2, MatchF7, NameByOp
    DEF Registers, TableName, RegisterName, OpReg
  <2> QED BY <2>1, <2>2
<1>3. ASSUME NEW i \in 1 .. 10, NEW j \in 1 .. 10,
             Matches(Registers[i], w), Matches(Registers[j], w)
      PROVE  i = j
  BY <1>3, MatchF7 DEF Registers
<1> QED BY <1>1, <1>2, <1>3 DEF Right

LEMMA SystemRight == ASSUME NEW w \in Words PROVE Right(System, 3, 39, w)
<1>1. \A j \in 1 .. 3 : System[j].name # "reserved"
  BY MatchExact DEF System
<1>2. ASSUME NEW j \in 1 .. 3, Matches(System[j], w), w.op # 15
      PROVE  System[j].name = TableName(w) /\ Base(w) = 39
  <2>1. Base(w) = 39
    BY <1>2, MatchExact DEF System, Base
  <2>2. System[j].name = TableName(w)
    BY <1>2, MatchExact, SystemRows
    DEF System, TableName
  <2> QED BY <2>1, <2>2
<1>3. ASSUME NEW i \in 1 .. 3, NEW j \in 1 .. 3,
             Matches(System[i], w), Matches(System[j], w)
      PROVE  i = j
  BY <1>3, MatchExact DEF System
<1> QED BY <1>1, <1>2, <1>3 DEF Right

LEMMA Rv64Right == ASSUME NEW w \in Words PROVE Right(Rv64, 12, 42, w)
<1>1. \A j \in 1 .. 12 : Rv64[j].name # "reserved"
  BY MatchF3, MatchF6, MatchF7 DEF Rv64
<1>2. ASSUME NEW j \in 1 .. 12, Matches(Rv64[j], w), w.op # 15
      PROVE  Rv64[j].name = TableName(w) /\ Base(w) = 42
  <2>1. Base(w) = 42
    BY <1>2, MatchF3, MatchF6, MatchF7 DEF Rv64, Base
  <2>2. Rv64[j].name = TableName(w)
    BY <1>2, MatchF3, MatchF6, MatchF7, NameByOp, WordRows
    DEF Rv64, TableName, Loads, Stores, Nth, WordImmediateName
  <2> QED BY <2>1, <2>2
<1>3. ASSUME NEW i \in 1 .. 12, NEW j \in 1 .. 12,
             Matches(Rv64[i], w), Matches(Rv64[j], w)
      PROVE  i = j
  BY <1>3, MatchF3, MatchF6, MatchF7 DEF Rv64
<1> QED BY <1>1, <1>2, <1>3 DEF Right

LEMMA ZicsrRight == ASSUME NEW w \in Words PROVE Right(Zicsr, 7, 54, w)
<1>1. \A j \in 1 .. 7 : Zicsr[j].name # "reserved"
  BY MatchF3, MatchOp DEF Zicsr
<1>2. ASSUME NEW j \in 1 .. 7, Matches(Zicsr[j], w), w.op # 15
      PROVE  Zicsr[j].name = TableName(w) /\ Base(w) = 54
  <2>1. Base(w) = 54
    BY <1>2, MatchF3, MatchOp DEF Zicsr, Base
  <2>2. Zicsr[j].name = TableName(w)
    BY <1>2, MatchF3, MatchOp, SystemRows
    DEF Zicsr, TableName, OpCsr
  <2> QED BY <2>1, <2>2
<1>3. ASSUME NEW i \in 1 .. 7, NEW j \in 1 .. 7,
             Matches(Zicsr[i], w), Matches(Zicsr[j], w)
      PROVE  i = j
  BY <1>3, MatchF3, MatchOp DEF Zicsr
<1> QED BY <1>1, <1>2, <1>3 DEF Right

LEMMA MultiplyRight == ASSUME NEW w \in Words PROVE Right(Multiply, 13, 61, w)
<1>1. \A j \in 1 .. 13 : Multiply[j].name # "reserved"
  BY MatchF7 DEF Multiply
<1>2. ASSUME NEW j \in 1 .. 13, Matches(Multiply[j], w), w.op # 15
      PROVE  Multiply[j].name = TableName(w) /\ Base(w) = 61
  <2>1. Base(w) = 61
    BY <1>2, MatchF7 DEF Multiply, Base
  <2>2. Multiply[j].name = TableName(w)
    BY <1>2, MatchF7, NameByOp, WordRows
    DEF Multiply, TableName, RegisterName, OpMul, OpMulW
  <2> QED BY <2>1, <2>2
<1>3. ASSUME NEW i \in 1 .. 13, NEW j \in 1 .. 13,
             Matches(Multiply[i], w), Matches(Multiply[j], w)
      PROVE  i = j
  BY <1>3, MatchF7 DEF Multiply
<1> QED BY <1>1, <1>2, <1>3 DEF Right

LEMMA AtomicWRight == ASSUME NEW w \in Words PROVE Right(AtomicW, 11, 74, w)
<1>1. \A j \in 1 .. 11 : AtomicW[j].name # "reserved"
  BY MatchLr, MatchF5 DEF AtomicW
<1>2. ASSUME NEW j \in 1 .. 11, Matches(AtomicW[j], w), w.op # 15
      PROVE  AtomicW[j].name = TableName(w) /\ Base(w) = 74
  <2>1. Base(w) = 74
    BY <1>2, MatchLr, MatchF5 DEF AtomicW, Base
  <2>2. AtomicW[j].name = TableName(w)
    BY <1>2, MatchLr, MatchF5, NameByOp, AmoRows
    DEF AtomicW, TableName
  <2> QED BY <2>1, <2>2
<1>3. ASSUME NEW i \in 1 .. 11, NEW j \in 1 .. 11,
             Matches(AtomicW[i], w), Matches(AtomicW[j], w)
      PROVE  i = j
  BY <1>3, MatchLr, MatchF5 DEF AtomicW
<1> QED BY <1>1, <1>2, <1>3 DEF Right

LEMMA AtomicDRight == ASSUME NEW w \in Words PROVE Right(AtomicD, 11, 85, w)
<1>1. \A j \in 1 .. 11 : AtomicD[j].name # "reserved"
  BY MatchLr, MatchF5 DEF AtomicD
<1>2. ASSUME NEW j \in 1 .. 11, Matches(AtomicD[j], w), w.op # 15
      PROVE  AtomicD[j].name = TableName(w) /\ Base(w) = 85
  <2>1. Base(w) = 85
    BY <1>2, MatchLr, MatchF5 DEF AtomicD, Base
  <2>2. AtomicD[j].name = TableName(w)
    BY <1>2, MatchLr, MatchF5, NameByOp, AmoRows
    DEF AtomicD, TableName
  <2> QED BY <2>1, <2>2
<1>3. ASSUME NEW i \in 1 .. 11, NEW j \in 1 .. 11,
             Matches(AtomicD[i], w), Matches(AtomicD[j], w)
      PROVE  i = j
  BY <1>3, MatchLr, MatchF5 DEF AtomicD
<1> QED BY <1>1, <1>2, <1>3 DEF Right

-----------------------------------------------------------------------------
(* Every instruction of the ISA but the missing ones has an entry.         *)

Found(block, n, w) == \E j \in 1 .. n : Matches(block[j], w)

LEMMA FoundJumps ==
  ASSUME NEW w \in Words, w.op \in {55, 23, 111, 103, 99}, IsaName(w) # "reserved"
  PROVE  Found(Jumps, 10, w)
<1>1. CASE w.op \in {55, 23, 111}
  BY <1>1, MatchOp DEF Jumps, Found
<1>2. CASE w.op = 103
  BY <1>2, MatchF3, NameByOp DEF Jumps, Found
<1>3. CASE w.op = 99
  <2>1. w.f3 \in {0, 1, 4, 5, 6, 7}
    BY <1>3, NameByOp, WordsAssumption DEF Branches
  <2> QED BY <1>3, <2>1, MatchF3 DEF Jumps, Found
<1> QED BY <1>1, <1>2, <1>3

LEMMA FoundMemory ==
  ASSUME NEW w \in Words, w.op \in {3, 35}, IsaName(w) # "reserved"
  PROVE  Found(Memory, 8, w) \/ Found(Rv64, 12, w)
<1>1. CASE w.op = 3
  <2>1. w.f3 \in 0 .. 6
    BY <1>1, NameByOp, WordsAssumption DEF Loads, Nth
  <2>2. CASE w.f3 \in {0, 1, 2, 4, 5}
    BY <1>1, <2>2, MatchF3 DEF Memory, Found
  <2>3. CASE w.f3 \in {3, 6}
    BY <1>1, <2>3, MatchF3 DEF Rv64, Found
  <2> QED BY <2>1, <2>2, <2>3
<1>2. CASE w.op = 35
  <2>1. w.f3 \in 0 .. 3
    BY <1>2, NameByOp, WordsAssumption DEF Stores, Nth
  <2>2. CASE w.f3 \in {0, 1, 2}
    BY <1>2, <2>2, MatchF3 DEF Memory, Found
  <2>3. CASE w.f3 = 3
    BY <1>2, <2>3, MatchF3 DEF Rv64, Found
  <2> QED BY <2>1, <2>2, <2>3
<1> QED BY <1>1, <1>2

LEMMA FoundImmediates ==
  ASSUME NEW w \in Words, w.op = 19, IsaName(w) # "reserved"
  PROVE  Found(Immediates, 9, w)
<1>1. \/ w.f3 \in {0, 2, 3, 4, 6, 7}
      \/ w.f3 \in {1, 5} /\ w.f6 = 0
      \/ w.f3 = 5 /\ w.f6 = 16
  BY NameByOp, WordsAssumption DEF ImmediateName
<1> QED BY <1>1, MatchF3, MatchF6 DEF Immediates, Found

LEMMA FoundWordImmediates ==
  ASSUME NEW w \in Words, w.op = 27, IsaName(w) # "reserved"
  PROVE  Found(Rv64, 12, w)
<1>1. w.f3 = 0 \/ (w.f3 = 1 /\ w.f7 = 0) \/ (w.f3 = 5 /\ w.f7 \in {0, 32})
  BY NameByOp DEF WordImmediateName
<1>2. w.f3 = 0 \/ (w.f3 = 1 /\ w.f7 = 0) \/ (w.f3 = 5 /\ w.f6 \in {0, 16})
  BY <1>1, WordsAssumption
<1> QED BY <1>2, MatchF3, MatchF6, MatchF7 DEF Rv64, Found

LEMMA FoundRegisters ==
  ASSUME NEW w \in Words, w.op = 51, IsaName(w) # "reserved"
  PROVE  Found(Registers, 10, w) \/ Found(Multiply, 13, w)
<1>1. w.f7 \in {0, 1} \/ (w.f7 = 32 /\ w.f3 \in {0, 5})
  BY NameByOp DEF RegisterName
<1>2. w.f3 \in 0 .. 7
  BY WordsAssumption
<1>3. CASE w.f7 = 1
  BY <1>2, <1>3, MatchF7 DEF Multiply, Found
<1>4. CASE w.f7 = 0 \/ (w.f7 = 32 /\ w.f3 \in {0, 5})
  BY <1>2, <1>4, MatchF7 DEF Registers, Found
<1> QED BY <1>1, <1>3, <1>4

LEMMA FoundWords ==
  ASSUME NEW w \in Words, w.op = 59, IsaName(w) # "reserved"
  PROVE  Found(Rv64, 12, w) \/ Found(Multiply, 13, w)
<1>1. \/ w.f7 = 0 /\ w.f3 \in {0, 1, 5}
      \/ w.f7 = 1
      \/ w.f7 = 32 /\ w.f3 \in {0, 5}
  BY NameByOp DEF WordName
<1>2. CASE w.f7 = 1
  <2>1. w.f3 \in {0, 4, 5, 6, 7}
    BY <1>2, WordRows, WordsAssumption DEF OpMulW
  <2> QED BY <1>2, <2>1, MatchF7 DEF Multiply, Found
<1>3. CASE w.f7 # 1
  BY <1>1, <1>3, MatchF7 DEF Rv64, Found
<1> QED BY <1>2, <1>3

LEMMA FoundSystem ==
  ASSUME NEW w \in Words, w.op = 115, IsaName(w) \notin {"reserved"} \cup Missing
  PROVE  Found(Privileged, 2, w) \/ Found(System, 3, w) \/ Found(Zicsr, 7, w)
<1>1. IsaName(w) = SystemName(w)
  BY NameByOp
<1>2. CASE w.f3 # 0
  <2>1. w.f3 \in {1, 2, 3, 5, 6, 7}
    BY <1>2, SystemRows, WordsAssumption DEF OpCsr
  <2> QED BY <2>1, MatchF3 DEF Zicsr, Found
<1>3. CASE w.f3 = 0
  <2>1. w.rd = 0 /\ w.rs1 = 0 /\ <<w.f7, w.rs2>> \in DOMAIN Environment
    BY <1>1, <1>3 DEF SystemName, Missing
  <2>2. IsaName(w) = Environment[<<w.f7, w.rs2>>]
    BY <1>1, <1>3, <2>1 DEF SystemName, Missing
  <2>3. <<w.f7, w.rs2>> \in {<<0, 0>>, <<0, 1>>, <<8, 2>>, <<24, 2>>}
    BY <2>1, <2>2, EnvironmentRows DEF Missing
  <2>4. CASE w.rs2 = 2
    BY <1>3, <2>1, <2>3, <2>4, MatchExact DEF Privileged, Found
  <2>5. CASE w.rs2 # 2
    BY <1>3, <2>1, <2>3, <2>5, MatchExact DEF System, Found
  <2> QED BY <2>4, <2>5
<1> QED BY <1>2, <1>3

LEMMA FoundAtomics ==
  ASSUME NEW w \in Words, w.op = 47, IsaName(w) # "reserved"
  PROVE  Found(AtomicW, 11, w) \/ Found(AtomicD, 11, w)
<1>1. w.f3 \in {2, 3} /\ (w.f5 = 2 => w.rs2 = 0) /\ IsaName(w) = Amo[w.f5][w.f3 - 1]
  BY NameByOp
<1>2. w.f5 \in 0 .. 31
  BY WordsAssumption
<1>3. w.f5 \in {0, 1, 2, 3, 4, 8, 12, 16, 20, 24, 28}
  BY <1>1, <1>2, AmoRows
<1>4. CASE w.f3 = 2
  BY <1>1, <1>3, <1>4, MatchLr, MatchF5 DEF AtomicW, Found
<1>5. CASE w.f3 = 3
  BY <1>1, <1>3, <1>5, MatchLr, MatchF5 DEF AtomicD, Found
<1> QED BY <1>1, <1>4, <1>5

LEMMA FoundFence ==
  ASSUME NEW w \in Words, w.op = 15
  PROVE  Found(Zicsr, 7, w)
  BY MatchOp DEF Zicsr, Found

-----------------------------------------------------------------------------
(* The table as a whole.                                                   *)

\* What Right says of a block, in the table's numbers.
RightAt(n, d, w) ==
  \A k \in d + 1 .. d + n :
    Matches(Table[k], w) /\ w.op # 15 =>
      /\ Table[k].name = TableName(w) /\ TableName(w) # "reserved" /\ Base(w) = d
      /\ \A i \in d + 1 .. d + n : Matches(Table[i], w) => i = k

\* The entries FENCE and FENCE.I are the only ones that match a word.
Fences(block, n, d, w) == \A j \in 1 .. n : Matches(block[j], w) => d + j \in {40, 55}
FencesAt(n, d, w) == \A k \in d + 1 .. d + n : Matches(Table[k], w) => k \in {40, 55}

LEMMA Placed ==
  ASSUME NEW block, NEW n \in Nat, NEW d \in Nat, NEW w,
         \A j \in 1 .. n : Table[d + j] = block[j]
  PROVE  /\ Right(block, n, d, w) => RightAt(n, d, w)
         /\ Found(block, n, w) => \E k \in d + 1 .. d + n : Matches(Table[k], w)
         /\ Fences(block, n, d, w) => FencesAt(n, d, w)
<1>1. ASSUME NEW k \in d + 1 .. d + n
      PROVE  k - d \in 1 .. n /\ Table[k] = block[k - d]
  <2>1. k - d \in 1 .. n /\ d + (k - d) = k
    OBVIOUS
  <2> QED BY <2>1
<1>2. ASSUME Right(block, n, d, w), NEW k \in d + 1 .. d + n
      PROVE  Matches(Table[k], w) /\ w.op # 15 =>
               /\ Table[k].name = TableName(w) /\ TableName(w) # "reserved" /\ Base(w) = d
               /\ \A i \in d + 1 .. d + n : Matches(Table[i], w) => i = k
  <2>1. k - d \in 1 .. n /\ Table[k] = block[k - d]
    BY <1>1
  <2>2. Matches(block[k - d], w) /\ w.op # 15 =>
          /\ block[k - d].name = TableName(w) /\ TableName(w) # "reserved" /\ Base(w) = d
          /\ \A i \in 1 .. n : Matches(block[i], w) => i = k - d
    BY <1>2, <2>1 DEF Right
  <2>3. ASSUME w.op # 15, Matches(Table[k], w),
             NEW i \in d + 1 .. d + n, Matches(Table[i], w)
        PROVE  i = k
    <3>1. i - d \in 1 .. n /\ Matches(block[i - d], w)
      BY <1>1, <2>3
    <3>2. i - d = k - d
      BY <2>1, <2>2, <2>3, <3>1
    <3> QED BY <3>2
  <2> QED BY <2>1, <2>2, <2>3
<1>3. ASSUME NEW j \in 1 .. n, Matches(block[j], w)
      PROVE  \E k \in d + 1 .. d + n : Matches(Table[k], w)
  <2>1. d + j \in d + 1 .. d + n /\ Table[d + j] = block[j]
    OBVIOUS
  <2> QED BY <1>3, <2>1
<1>4. ASSUME Fences(block, n, d, w),
             NEW k \in d + 1 .. d + n, Matches(Table[k], w)
      PROVE  k \in {40, 55}
  <2>1. d + (k - d) \in {40, 55}
    BY <1>1, <1>4 DEF Fences
  <2> QED BY <2>1
<1> QED BY <1>2, <1>3, <1>4 DEF RightAt, Found, FencesAt

LEMMA TableRight ==
  ASSUME NEW w \in Words
  PROVE  /\ RightAt(2, 0, w)
         /\ RightAt(10, 2, w)
         /\ RightAt(8, 12, w)
         /\ RightAt(9, 20, w)
         /\ RightAt(10, 29, w)
         /\ RightAt(3, 39, w)
         /\ RightAt(12, 42, w)
         /\ RightAt(7, 54, w)
         /\ RightAt(13, 61, w)
         /\ RightAt(11, 74, w)
         /\ RightAt(11, 85, w)
<1>1. RightAt(2, 0, w)
  <2>1. \A j \in 1 .. 2 : Table[0 + j] = Privileged[j]
    BY TableBlocks
  <2> QED BY <2>1, PrivilegedRight, Placed
<1>2. RightAt(10, 2, w)
  <2>1. \A j \in 1 .. 10 : Table[2 + j] = Jumps[j]
    BY TableBlocks
  <2> QED BY <2>1, JumpsRight, Placed
<1>3. RightAt(8, 12, w)
  <2>1. \A j \in 1 .. 8 : Table[12 + j] = Memory[j]
    BY TableBlocks
  <2> QED BY <2>1, MemoryRight, Placed
<1>4. RightAt(9, 20, w)
  <2>1. \A j \in 1 .. 9 : Table[20 + j] = Immediates[j]
    BY TableBlocks
  <2> QED BY <2>1, ImmediatesRight, Placed
<1>5. RightAt(10, 29, w)
  <2>1. \A j \in 1 .. 10 : Table[29 + j] = Registers[j]
    BY TableBlocks
  <2> QED BY <2>1, RegistersRight, Placed
<1>6. RightAt(3, 39, w)
  <2>1. \A j \in 1 .. 3 : Table[39 + j] = System[j]
    BY TableBlocks
  <2> QED BY <2>1, SystemRight, Placed
<1>7. RightAt(12, 42, w)
  <2>1. \A j \in 1 .. 12 : Table[42 + j] = Rv64[j]
    BY TableBlocks
  <2> QED BY <2>1, Rv64Right, Placed
<1>8. RightAt(7, 54, w)
  <2>1. \A j \in 1 .. 7 : Table[54 + j] = Zicsr[j]
    BY TableBlocks
  <2> QED BY <2>1, ZicsrRight, Placed
<1>9. RightAt(13, 61, w)
  <2>1. \A j \in 1 .. 13 : Table[61 + j] = Multiply[j]
    BY TableBlocks
  <2> QED BY <2>1, MultiplyRight, Placed
<1>10. RightAt(11, 74, w)
  <2>1. \A j \in 1 .. 11 : Table[74 + j] = AtomicW[j]
    BY TableBlocks
  <2> QED BY <2>1, AtomicWRight, Placed
<1>11. RightAt(11, 85, w)
  <2>1. \A j \in 1 .. 11 : Table[85 + j] = AtomicD[j]
    BY TableBlocks
  <2> QED BY <2>1, AtomicDRight, Placed
<1> QED BY <1>1, <1>2, <1>3, <1>4, <1>5, <1>6, <1>7, <1>8, <1>9, <1>10, <1>11

\* Where the block begins that the entry k is in, and how many entries it has.
StartOf(k) ==
  IF k <= 2 THEN 0
  ELSE IF k <= 12 THEN 2
  ELSE IF k <= 20 THEN 12
  ELSE IF k <= 29 THEN 20
  ELSE IF k <= 39 THEN 29
  ELSE IF k <= 42 THEN 39
  ELSE IF k <= 54 THEN 42
  ELSE IF k <= 61 THEN 54
  ELSE IF k <= 74 THEN 61
  ELSE IF k <= 85 THEN 74
  ELSE 85

SizeOf(d) ==
  IF d = 0 THEN 2
  ELSE IF d = 2 THEN 10
  ELSE IF d = 12 THEN 8
  ELSE IF d = 20 THEN 9
  ELSE IF d = 29 THEN 10
  ELSE IF d = 39 THEN 3
  ELSE IF d = 42 THEN 12
  ELSE IF d = 54 THEN 7
  ELSE IF d = 61 THEN 13
  ELSE IF d = 74 THEN 11
  ELSE 11

\* Every entry is in its block.
LEMMA EntryAt ==
  ASSUME NEW w \in Words, NEW k \in 1 .. 96
  PROVE  /\ k \in StartOf(k) + 1 .. StartOf(k) + SizeOf(StartOf(k))
         /\ RightAt(SizeOf(StartOf(k)), StartOf(k), w)
<1>1. k \in StartOf(k) + 1 .. StartOf(k) + SizeOf(StartOf(k))
  BY DEF StartOf, SizeOf
<1>2. RightAt(SizeOf(StartOf(k)), StartOf(k), w)
  BY TableRight DEF StartOf, SizeOf
<1> QED BY <1>1, <1>2

\* An entry outside the major opcode of FENCE that matches a word is the only one.
LEMMA OneEntry ==
  ASSUME NEW w \in Words, w.op # 15, NEW k \in 1 .. 96, Matches(Table[k], w)
  PROVE  /\ Table[k].name = TableName(w) /\ TableName(w) # "reserved"
         /\ \A i \in 1 .. 96 : Matches(Table[i], w) => i = k
<1>1. ASSUME NEW i \in 1 .. 96, Matches(Table[i], w)
      PROVE  /\ Table[i].name = TableName(w) /\ TableName(w) # "reserved"
             /\ Base(w) = StartOf(i)
  BY <1>1, EntryAt DEF RightAt
<1>2. ASSUME NEW i \in 1 .. 96, Matches(Table[i], w) PROVE i = k
  <2>1. StartOf(i) = StartOf(k)
    BY <1>1, <1>2
  <2>2. i \in StartOf(k) + 1 .. StartOf(k) + SizeOf(StartOf(k))
    BY EntryAt, <2>1
  <2> QED BY EntryAt, <1>2, <2>2 DEF RightAt
<1> QED BY <1>1, <1>2

\* The instructions of the ISA are in the table, but for the missing ones.
LEMMA Complete ==
  ASSUME NEW w \in Words, w.op # 15, IsaName(w) \notin {"reserved"} \cup Missing
  PROVE  \E k \in 1 .. 96 : Matches(Table[k], w)
<1> DEFINE At(n, d) == \E k \in d + 1 .. d + n : Matches(Table[k], w)
<1>1. Found(Privileged, 2, w) => At(2, 0)
  <2>1. \A j \in 1 .. 2 : Table[0 + j] = Privileged[j]
    BY TableBlocks
  <2> QED BY <2>1, Placed
<1>2. Found(Jumps, 10, w) => At(10, 2)
  <2>1. \A j \in 1 .. 10 : Table[2 + j] = Jumps[j]
    BY TableBlocks
  <2> QED BY <2>1, Placed
<1>3. Found(Memory, 8, w) => At(8, 12)
  <2>1. \A j \in 1 .. 8 : Table[12 + j] = Memory[j]
    BY TableBlocks
  <2> QED BY <2>1, Placed
<1>4. Found(Immediates, 9, w) => At(9, 20)
  <2>1. \A j \in 1 .. 9 : Table[20 + j] = Immediates[j]
    BY TableBlocks
  <2> QED BY <2>1, Placed
<1>5. Found(Registers, 10, w) => At(10, 29)
  <2>1. \A j \in 1 .. 10 : Table[29 + j] = Registers[j]
    BY TableBlocks
  <2> QED BY <2>1, Placed
<1>6. Found(System, 3, w) => At(3, 39)
  <2>1. \A j \in 1 .. 3 : Table[39 + j] = System[j]
    BY TableBlocks
  <2> QED BY <2>1, Placed
<1>7. Found(Rv64, 12, w) => At(12, 42)
  <2>1. \A j \in 1 .. 12 : Table[42 + j] = Rv64[j]
    BY TableBlocks
  <2> QED BY <2>1, Placed
<1>8. Found(Zicsr, 7, w) => At(7, 54)
  <2>1. \A j \in 1 .. 7 : Table[54 + j] = Zicsr[j]
    BY TableBlocks
  <2> QED BY <2>1, Placed
<1>9. Found(Multiply, 13, w) => At(13, 61)
  <2>1. \A j \in 1 .. 13 : Table[61 + j] = Multiply[j]
    BY TableBlocks
  <2> QED BY <2>1, Placed
<1>10. Found(AtomicW, 11, w) => At(11, 74)
  <2>1. \A j \in 1 .. 11 : Table[74 + j] = AtomicW[j]
    BY TableBlocks
  <2> QED BY <2>1, Placed
<1>11. Found(AtomicD, 11, w) => At(11, 85)
  <2>1. \A j \in 1 .. 11 : Table[85 + j] = AtomicD[j]
    BY TableBlocks
  <2> QED BY <2>1, Placed
<1>12. \/ At(2, 0) \/ At(10, 2) \/ At(8, 12) \/ At(9, 20) \/ At(10, 29) \/ At(3, 39)
       \/ At(12, 42) \/ At(7, 54) \/ At(13, 61) \/ At(11, 74) \/ At(11, 85)
  <2> HIDE DEF At
  <2>1. w.op \in {3, 35, 99, 19, 27, 51, 59, 115, 103, 47, 55, 23, 111}
    BY NameByOp
  <2>2. CASE w.op \in {55, 23, 111, 103, 99}
    BY <2>2, <1>2, FoundJumps
  <2>3. CASE w.op \in {3, 35}
    BY <2>3, <1>3, <1>7, FoundMemory
  <2>4. CASE w.op = 19
    BY <2>4, <1>4, FoundImmediates
  <2>5. CASE w.op = 27
    BY <2>5, <1>7, FoundWordImmediates
  <2>6. CASE w.op = 51
    BY <2>6, <1>5, <1>9, FoundRegisters
  <2>7. CASE w.op = 59
    BY <2>7, <1>7, <1>9, FoundWords
  <2>8. CASE w.op = 115
    BY <2>8, <1>1, <1>6, <1>8, FoundSystem
  <2>9. CASE w.op = 47
    BY <2>9, <1>10, <1>11, FoundAtomics
  <2> QED BY <2>1, <2>2, <2>3, <2>4, <2>5, <2>6, <2>7, <2>8, <2>9
<1> QED BY <1>12

-----------------------------------------------------------------------------
(* The major opcode of FENCE, which two entries match.                     *)

LEMMA FenceEntries ==
  /\ Table[40].name = "FENCE" /\ Table[55].name = "FENCE.I"
  /\ \A w : Matches(Table[40], w) => w.op = 15 /\ w.f3 = 0
  /\ \A w : Matches(Table[55], w) <=> w.op = 15
<1>1. Table[39 + 1] = System[1] /\ Table[54 + 1] = Zicsr[1]
  BY TableBlocks
<1>2. Table[40] = Exact("FENCE", 15, 0, 0) /\ Table[55] = Op("FENCE.I", 15)
  BY <1>1 DEF System, Zicsr
<1> QED BY <1>2, MatchExact, MatchOp

LEMMA FenceBlocks ==
  ASSUME NEW w \in Words, w.op = 15
  PROVE  /\ FencesAt(2, 0, w)
         /\ FencesAt(10, 2, w)
         /\ FencesAt(8, 12, w)
         /\ FencesAt(9, 20, w)
         /\ FencesAt(10, 29, w)
         /\ FencesAt(3, 39, w)
         /\ FencesAt(12, 42, w)
         /\ FencesAt(7, 54, w)
         /\ FencesAt(13, 61, w)
         /\ FencesAt(11, 74, w)
         /\ FencesAt(11, 85, w)
<1>1. FencesAt(2, 0, w)
  <2>1. Fences(Privileged, 2, 0, w)
    BY MatchExact DEF Privileged, Fences
  <2>2. \A j \in 1 .. 2 : Table[0 + j] = Privileged[j]
    BY TableBlocks
  <2> QED BY <2>1, <2>2, Placed
<1>2. FencesAt(10, 2, w)
  <2>1. Fences(Jumps, 10, 2, w)
    BY MatchOp, MatchF3 DEF Jumps, Fences
  <2>2. \A j \in 1 .. 10 : Table[2 + j] = Jumps[j]
    BY TableBlocks
  <2> QED BY <2>1, <2>2, Placed
<1>3. FencesAt(8, 12, w)
  <2>1. Fences(Memory, 8, 12, w)
    BY MatchF3 DEF Memory, Fences
  <2>2. \A j \in 1 .. 8 : Table[12 + j] = Memory[j]
    BY TableBlocks
  <2> QED BY <2>1, <2>2, Placed
<1>4. FencesAt(9, 20, w)
  <2>1. Fences(Immediates, 9, 20, w)
    BY MatchF3, MatchF6 DEF Immediates, Fences
  <2>2. \A j \in 1 .. 9 : Table[20 + j] = Immediates[j]
    BY TableBlocks
  <2> QED BY <2>1, <2>2, Placed
<1>5. FencesAt(10, 29, w)
  <2>1. Fences(Registers, 10, 29, w)
    BY MatchF7 DEF Registers, Fences
  <2>2. \A j \in 1 .. 10 : Table[29 + j] = Registers[j]
    BY TableBlocks
  <2> QED BY <2>1, <2>2, Placed
<1>6. FencesAt(3, 39, w)
  <2>1. Fences(System, 3, 39, w)
    BY MatchExact DEF System, Fences
  <2>2. \A j \in 1 .. 3 : Table[39 + j] = System[j]
    BY TableBlocks
  <2> QED BY <2>1, <2>2, Placed
<1>7. FencesAt(12, 42, w)
  <2>1. Fences(Rv64, 12, 42, w)
    BY MatchF3, MatchF6, MatchF7 DEF Rv64, Fences
  <2>2. \A j \in 1 .. 12 : Table[42 + j] = Rv64[j]
    BY TableBlocks
  <2> QED BY <2>1, <2>2, Placed
<1>8. FencesAt(7, 54, w)
  <2>1. Fences(Zicsr, 7, 54, w)
    BY MatchOp, MatchF3 DEF Zicsr, Fences
  <2>2. \A j \in 1 .. 7 : Table[54 + j] = Zicsr[j]
    BY TableBlocks
  <2> QED BY <2>1, <2>2, Placed
<1>9. FencesAt(13, 61, w)
  <2>1. Fences(Multiply, 13, 61, w)
    BY MatchF7 DEF Multiply, Fences
  <2>2. \A j \in 1 .. 13 : Table[61 + j] = Multiply[j]
    BY TableBlocks
  <2> QED BY <2>1, <2>2, Placed
<1>10. FencesAt(11, 74, w)
  <2>1. Fences(AtomicW, 11, 74, w)
    BY MatchLr, MatchF5 DEF AtomicW, Fences
  <2>2. \A j \in 1 .. 11 : Table[74 + j] = AtomicW[j]
    BY TableBlocks
  <2> QED BY <2>1, <2>2, Placed
<1>11. FencesAt(11, 85, w)
  <2>1. Fences(AtomicD, 11, 85, w)
    BY MatchLr, MatchF5 DEF AtomicD, Fences
  <2>2. \A j \in 1 .. 11 : Table[85 + j] = AtomicD[j]
    BY TableBlocks
  <2> QED BY <2>1, <2>2, Placed
<1> QED BY <1>1, <1>2, <1>3, <1>4, <1>5, <1>6, <1>7, <1>8, <1>9, <1>10, <1>11

LEMMA FenceHits ==
  ASSUME NEW w \in Words, w.op = 15, NEW k \in 1 .. 96, Matches(Table[k], w)
  PROVE  k \in {40, 55}
  BY FenceBlocks DEF FencesAt

-----------------------------------------------------------------------------
(* What Lookup returns.                                                    *)

LEMMA HitsAre == ASSUME NEW w PROVE Hits(w) = {k \in 1 .. 96 : Matches(Table[k], w)}
  BY TableBlocks DEF Hits

LEMMA MinOne == \A k \in Int : Min({k}) = k
  BY DEF Min

LEMMA MinFence == Min({40, 55}) = 40
  BY DEF Min

LEMMA LookupFence ==
  ASSUME NEW w \in Words, w.op = 15
  PROVE  /\ Matches(Table[40], w) => Hits(w) = {40, 55} /\ Lookup(w) = "FENCE"
         /\ ~Matches(Table[40], w) => Hits(w) = {55} /\ Lookup(w) = "FENCE.I"
<1>1. CASE Matches(Table[40], w)
  <2>1. Hits(w) = {40, 55}
    BY <1>1, HitsAre, FenceHits, FenceEntries
  <2> QED BY <1>1, <2>1, MinFence, FenceEntries DEF Lookup
<1>2. CASE ~Matches(Table[40], w)
  <2>1. Hits(w) = {55}
    BY <1>2, HitsAre, FenceHits, FenceEntries
  <2> QED BY <1>2, <2>1, MinOne, FenceEntries DEF Lookup
<1> QED BY <1>1, <1>2

LEMMA LookupOther ==
  ASSUME NEW w \in Words, w.op # 15
  PROVE  \/ Hits(w) = {} /\ Lookup(w) = "IllegalInstruction"
         \/ \E k \in 1 .. 96 : /\ Hits(w) = {k} /\ Lookup(w) = Table[k].name
                               /\ Table[k].name = TableName(w) /\ TableName(w) # "reserved"
<1>1. CASE Hits(w) = {}
  BY <1>1 DEF Lookup
<1>2. ASSUME NEW k \in 1 .. 96, Matches(Table[k], w)
      PROVE  /\ Hits(w) = {k} /\ Lookup(w) = Table[k].name
             /\ Table[k].name = TableName(w) /\ TableName(w) # "reserved"
  <2>1. Hits(w) = {k}
    BY <1>2, HitsAre, OneEntry
  <2>2. Lookup(w) = Table[k].name
    BY <2>1, MinOne DEF Lookup
  <2> QED BY <1>2, <2>1, <2>2, OneEntry
<1> QED BY <1>1, <1>2, HitsAre

-----------------------------------------------------------------------------
(* The theorems.                                                           *)

\* After Decode the name is what the table has for the word; nothing else changes.
DecodedInv ==
  /\ instruction \in Words
  /\ decoded \in {"none", Lookup(instruction)}

LEMMA Decoding == Spec => []DecodedInv
<1>1. Init => DecodedInv
  BY DEF Init, DecodedInv
<1>2. DecodedInv /\ [Next]_vars => DecodedInv'
  BY DEF DecodedInv, Next, Decode, vars
<1> QED BY <1>1, <1>2, PTL DEF Spec

LEMMA LookupNames ==
  ASSUME NEW w \in Words PROVE Lookup(w) \in {"IllegalInstruction"} \cup Names
<1>1. ASSUME NEW k \in 1 .. 96 PROVE Table[k].name \in Names
  BY TableBlocks DEF Names, Range
<1>2. CASE w.op = 15
  BY <1>1, <1>2, LookupFence, FenceEntries
<1>3. CASE w.op # 15
  BY <1>1, <1>3, LookupOther
<1> QED BY <1>2, <1>3

\* CPU::Decode returns an entry of its table or throws, whatever word it is given.
THEOREM DecodeTypeCorrect == Spec => []TypeOK
<1>1. DecodedInv => TypeOK
  BY LookupNames, WordsAssumption DEF DecodedInv, TypeOK
<1> QED BY <1>1, Decoding, PTL

LEMMA LookupIsTheIsa ==
  ASSUME NEW w \in Words, IsaName(w) \notin {"reserved"} \cup Missing
  PROVE  SameEffect(Lookup(w), IsaName(w))
<1>1. CASE w.op = 15
  <2>1. Lookup(w) \in {"FENCE", "FENCE.I"}
    BY <1>1, LookupFence
  <2>2. IsaName(w) \in {"FENCE", "FENCE.I"}
    BY <1>1, NameByOp, WordsAssumption DEF Nth
  <2> QED BY <2>1, <2>2 DEF SameEffect
<1>2. CASE w.op # 15
  <2>1. Hits(w) # {}
    BY <1>2, Complete, HitsAre
  <2>2. Lookup(w) = TableName(w)
    BY <1>2, <2>1, LookupOther
  <2>3. TableName(w) = IsaName(w)
    <3>1. CASE w.op # 27
      BY <1>2, <3>1 DEF TableName
    <3>2. CASE w.op = 27
      <4>1. IsaName(w) = WordImmediateName(w)
        BY <3>2, NameByOp
      <4>2. CASE w.f3 = 5 /\ w.f6 = 0
        <5>1. w.f7 \in {0, 1}
          BY <4>2, WordsAssumption
        <5>2. w.f7 = 0 /\ WordImmediateName(w) = "SRLIW"
          BY <4>1, <4>2, <5>1 DEF WordImmediateName
        <5> QED BY <3>2, <4>1, <4>2, <5>2 DEF TableName
      <4>3. CASE w.f3 = 5 /\ w.f6 = 16
        <5>1. w.f7 \in {32, 33}
          BY <4>3, WordsAssumption
        <5>2. w.f7 = 32 /\ WordImmediateName(w) = "SRAIW"
          BY <4>1, <4>3, <5>1 DEF WordImmediateName
        <5> QED BY <3>2, <4>1, <4>3, <5>2 DEF TableName
      <4>4. CASE w.f3 # 5 \/ w.f6 \notin {0, 16}
        BY <3>2, <4>4 DEF TableName
      <4> QED BY <4>2, <4>3, <4>4
    <3> QED BY <3>1, <3>2
  <2> QED BY <2>2, <2>3 DEF SameEffect
<1> QED BY <1>1, <1>2

\* Every instruction of RV64IMA, Zicsr, Zifencei and the privileged ISA but SFENCE.VMA
\* and WFI is decoded to the entry with its name, whatever its operand fields.
THEOREM DecodeImplementsIsa == Spec => []DecodesTheIsa
<1>1. DecodedInv => DecodesTheIsa
  BY LookupIsTheIsa DEF DecodedInv, DecodesTheIsa
<1> QED BY <1>1, Decoding, PTL

LEMMA ReservedLookup ==
  ASSUME NEW w \in Words, IsaName(w) = "reserved"
  PROVE  \/ Lookup(w) = "IllegalInstruction"
         \/ w.op = 15 /\ Lookup(w) = "FENCE.I"
         \/ w.op = 27 /\ Lookup(w) \in {"SRLIW", "SRAIW"} /\ w.f7 % 2 = 1
<1>1. CASE w.op = 15
  <2>1. w.f3 # 0
    BY <1>1, NameByOp DEF Nth
  <2> QED BY <1>1, <2>1, LookupFence, FenceEntries
<1>2. CASE w.op # 15 /\ Lookup(w) # "IllegalInstruction"
  <2>1. Lookup(w) = TableName(w) /\ TableName(w) # "reserved"
    BY <1>2, LookupOther
  <2>2. /\ w.op = 27 /\ w.f3 = 5
        /\ \/ w.f6 = 0 /\ TableName(w) = "SRLIW"
           \/ w.f6 = 16 /\ TableName(w) = "SRAIW"
    BY <1>2, <2>1 DEF TableName
  <2>3. IsaName(w) = WordImmediateName(w)
    BY <2>2, NameByOp
  <2>4. w.f7 \notin {0, 32}
    BY <2>2, <2>3 DEF WordImmediateName
  <2>5. w.f7 \in {1, 33}
    BY <2>2, <2>4, WordsAssumption
  <2>6. w.f7 % 2 = 1
    BY <2>5
  <2> QED BY <2>1, <2>2, <2>6
<1> QED BY <1>1, <1>2

\* A word the ISA assigns to no instruction raises the illegal-instruction trap, but in
\* the major opcode of FENCE and for the word shifts by more than 31.
THEOREM DecodeTrapsReserved == Spec => []ReservedWordsTrap
<1>1. DecodedInv => ReservedWordsTrap
  BY ReservedLookup DEF DecodedInv, ReservedWordsTrap
<1> QED BY <1>1, Decoding, PTL

LEMMA HitsOnce ==
  ASSUME NEW w \in Words, Lookup(w) # "FENCE" PROVE Cardinality(Hits(w)) <= 1
<1>1. Hits(w) = {} \/ \E k \in 1 .. 96 : Hits(w) = {k}
  BY LookupFence, LookupOther
<1>2. ASSUME Hits(w) = {} PROVE Cardinality(Hits(w)) = 0
  BY <1>2, FS_EmptySet, Zenon
<1>3. ASSUME NEW k, Hits(w) = {k} PROVE Cardinality(Hits(w)) = 1
  BY <1>3, FS_Singleton, Zenon
<1>4. Cardinality(Hits(w)) \in {0, 1}
  BY <1>1, <1>2, <1>3, Zenon
<1> QED BY <1>4

\* No word matches two entries of the table but the one word that is FENCE: the order
\* in which the loop of CPU::Decode visits the others is immaterial.
THEOREM DecodeOrderIsIrrelevant == Spec => []OrderIsIrrelevant
<1>1. DecodedInv => OrderIsIrrelevant
  BY HitsOnce DEF DecodedInv, OrderIsIrrelevant
<1> QED BY <1>1, Decoding, PTL
=============================================================================
