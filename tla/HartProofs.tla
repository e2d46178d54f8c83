------------------------------ MODULE HartProofs ------------------------------
(***************************************************************************)
(* Proofs about Hart, for every address space, guest program and fetchable *)
(* region.                                                                 *)
(***************************************************************************)
EXTENDS Hart, TLAPS

USE DEF NoTrap, LoadAccessFault, StoreAMOAccessFault

\* Reducing an integer modulo AddrSpace gives an address.
LEMMA AddrMod == \A n \in Int : n % AddrSpace \in Addr
  BY AddrSpaceAssumption DEF Addr

\* Clearing bit 0 of an address gives an address, and it is even.
LEMMA ClearBit0Addr ==
  \A a \in Addr : ClearBit0(a) \in Addr /\ ClearBit0(a) % 2 = 0
  BY AddrSpaceAssumption DEF Addr, ClearBit0

\* A trap vector is an address, whatever the cause.
LEMMA TrapVectorAddr ==
  ASSUME NEW tvec \in Addr, NEW code \in Int, NEW intr \in BOOLEAN
  PROVE  TrapVector(tvec, code, intr) \in Addr
  <1>1. AddrSpace \div 2 \in Int
    BY AddrSpaceAssumption
  <1>2. CauseNumber(code, intr) \in Int
    BY <1>1 DEF CauseNumber
  <1>3. ClearBit0(tvec) \in Int
    BY ClearBit0Addr DEF Addr
  <1> DEFINE vec == IF intr /\ tvec % 2 = 1 THEN 4 * CauseNumber(code, intr) ELSE 0
  <1>4. vec \in Int
    BY <1>2
  <1>5. ClearBit0(tvec) + vec \in Int
    BY <1>3, <1>4
  <1> QED
    BY <1>5, AddrMod DEF TrapVector

\* The address HandleTrap saves is an address.
LEMMA TrapPcAddr == pc \in Addr => TrapPc \in Addr
  <1> SUFFICES ASSUME pc \in Addr PROVE TrapPc \in Addr
    OBVIOUS
  <1>1. (pc - 4) % AddrSpace \in Addr
    BY AddrMod DEF Addr
  <1> QED
    BY <1>1, ClearBit0Addr DEF TrapPc

\* The interrupt HandleInterrupts takes is a pending one.
LEMMA FirstHandlerPending == Pending # {} => FirstHandler \in Pending
  <1> SUFFICES ASSUME Pending # {} PROVE FirstHandler \in Pending
    OBVIOUS
  <1>1. Pending \subseteq {1, 3, 5, 7, 9, 11}
    BY DEF Pending, Interrupts
  <1>2. \E m \in Pending : \A n \in Pending : m <= n
    <2>1. CASE 1 \in Pending
      BY <1>1, <2>1
    <2>2. CASE 1 \notin Pending /\ 3 \in Pending
      BY <1>1, <2>2
    <2>3. CASE {1, 3} \cap Pending = {} /\ 5 \in Pending
      BY <1>1, <2>3
    <2>4. CASE {1, 3, 5} \cap Pending = {} /\ 7 \in Pending
      BY <1>1, <2>4
    <2>5. CASE {1, 3, 5, 7} \cap Pending = {}
      <3>1. CASE 9 \in Pending
        BY <1>1, <2>5, <3>1
      <3>2. CASE 9 \notin Pending
        <4>1. \A n \in Pending : n = 11
          BY <1>1, <2>5, <3>2
        <4> QED
          BY <4>1
      <3> QED
        BY <3>1, <3>2
    <2> QED
      BY <2>1, <2>2, <2>3, <2>4, <2>5
  <1> QED
    BY <1>2 DEF FirstHandler, Min

\* It is the one with the lowest number.
LEMMA FirstIsLowest ==
  ASSUME NEW b \in Pending, \A d \in Pending : b <= d
  PROVE  FirstHandler = b
  <1>1. Pending \subseteq Int
    BY DEF Pending, Interrupts
  <1>2. \A c \in Pending : (\A d \in Pending : c <= d) => c = b
    BY <1>1
  <1> QED
    BY <1>2 DEF FirstHandler, Min

\* A cause fits in a CSR word.
LEMMA CauseWordType ==
  ASSUME NEW code, NEW intr \in BOOLEAN
  PROVE  CauseWord(code, intr) \in Word
  BY DEF CauseWord, Word, Bit, InterruptBit

\* Copying one status bit onto another gives a word.
LEMMA CopyBitType ==
  ASSUME NEW w \in Word, NEW from \in Bit, NEW to \in Bit
  PROVE  CopyBit(w, from, to) \in Word
  BY DEF CopyBit, Word

\* The CSRs HandleTrap is called with: those of the hart, or those with one
\* interrupt withdrawn.
LEMMA HandleTrapType ==
  ASSUME TypeOK, NEW code \in Int, NEW intr \in BOOLEAN,
         NEW cs \in [FlagCsr -> Word], HandleTrap(code, intr, cs)
  PROVE  /\ pc' \in Addr
         /\ mode' \in Mode
         /\ csrs' \in [FlagCsr -> Word]
         /\ ptrs' \in [PtrCsr -> Addr]
  <1> USE DEF TypeOK
  <1>1. TrapPc \in Addr
    BY TrapPcAddr
  <1>2. CauseWord(code, intr) \in Word
    BY CauseWordType
  <1>3. {} \in Word /\ {SIE, SPIE, SPP, MIE, MPIE} \subseteq Bit
    BY DEF Word, Bit, SIE, SPIE, SPP, MIE, MPIE
  <1>4. CASE Delegated(code, cs)
    <2> DEFINE status == CopyBit(cs["sstatus"], SIE, SPIE) \ {SIE, SPP}
    <2>1. TrapToSupervisor(code, intr, cs)
      BY <1>4 DEF HandleTrap
    <2>2. TrapVector(ptrs["stvec"], code, intr) \in Addr
      BY TrapVectorAddr DEF PtrCsr
    <2>3. cs["sstatus"] \in Word
      BY DEF FlagCsr
    <2>4. CopyBit(cs["sstatus"], SIE, SPIE) \in Word
      BY <1>3, <2>3, CopyBitType
    <2>5. status \in Word /\ status \cup {SPP} \in Word
      BY <1>3, <2>4 DEF Word
    <2> QED
      BY <1>1, <1>2, <1>3, <2>1, <2>2, <2>5 DEF TrapToSupervisor, Mode
  <1>5. CASE ~Delegated(code, cs)
    <2>1. TrapToMachine(code, intr, cs)
      BY <1>5 DEF HandleTrap
    <2>2. TrapVector(ptrs["mtvec"], code, intr) \in Addr
      BY TrapVectorAddr DEF PtrCsr
    <2>3. cs["mstatus"] \in Word
      BY DEF FlagCsr
    <2>4. CopyBit(cs["mstatus"], MIE, MPIE) \in Word
      BY <1>3, <2>3, CopyBitType
    <2>5. CopyBit(cs["mstatus"], MIE, MPIE) \ ({MIE} \cup MPP) \in Word
      BY <2>4 DEF Word
    <2> QED
      BY <1>1, <1>2, <1>3, <2>1, <2>2, <2>5 DEF TrapToMachine, Mode
  <1> QED
    BY <1>4, <1>5

\* Every branch of SetCsr keeps the types.
LEMMA SetCsrType ==
  ASSUME TypeOK, NEW c \in FlagCsr, NEW val \in Word, SetCsr(c, val)
  PROVE  /\ csrs' \in [FlagCsr -> Word]
         /\ paging' \in {"Bare", "Sv39"}
         /\ root' \in Word
  BY DEF TypeOK, SetCsr, UpdatePagingMode, mmu, Word

\* What a Zicsr instruction computes is a word.
LEMMA CsrResultType ==
  ASSUME NEW op \in {"CSRRW", "CSRRS", "CSRRC"}, NEW old \in Word, NEW w \in Word
  PROVE  CsrResult(op, old, w) \in Word
  BY DEF CsrResult, Word

\* What the atomics leave outside the registers has its type.
LEMMA AtomicType == TypeOK /\ Atomic => TypeOK'
  <1> SUFFICES ASSUME TypeOK, Atomic PROVE TypeOK'
    OBVIOUS
  <1> USE DEF TypeOK
  <1>1. /\ \A c \in FlagCsr : Stray.csrs[c] \subseteq Word
        /\ Stray.pc \subseteq Addr /\ Stray.mode \subseteq Mode
        /\ Stray.paging \subseteq {"Bare", "Sv39"} /\ Stray.root \subseteq Word
    BY GuestAssumption DEF StrayWrites
  <1>2. ASSUME NEW c \in FlagCsr, NEW w \in Stray.csrs[c], AmoCsr(c, w)
        PROVE  TypeOK'
    BY <1>1, <1>2 DEF AmoCsr, Execute, mmu
  <1>3. ASSUME NEW a \in Stray.pc, AmoPc(a)
        PROVE  TypeOK'
    BY <1>1, <1>3 DEF AmoPc, Execute, mmu
  <1>4. ASSUME NEW m \in Stray.mode, AmoMode(m)
        PROVE  TypeOK'
    BY <1>1, <1>4 DEF AmoMode, Execute, mmu
  <1>5. CASE AmoMmu
    BY <1>1, <1>5 DEF AmoMmu, Execute
  <1>6. CASE AmoBeyond
    BY <1>6 DEF AmoBeyond, mmu
  <1> QED
    BY <1>2, <1>3, <1>4, <1>5, <1>6 DEF Atomic

\* Every step preserves the types.
LEMMA TypeStep == TypeOK /\ [Step]_vars => TypeOK'
  <1> SUFFICES ASSUME TypeOK, [Step]_vars PROVE TypeOK'
    OBVIOUS
  <1> USE DEF TypeOK
  <1>1. {} \in Word /\ {SIE, SPIE, SPP, MIE, MPIE} \subseteq Bit
    BY DEF Word, Bit, SIE, SPIE, SPP, MIE, MPIE
  <1>2. csrs["sstatus"] \in Word /\ csrs["mstatus"] \in Word
    BY DEF FlagCsr
  <1>3. CASE Fetch
    <2>1. (pc + 4) % AddrSpace \in Addr
      BY AddrMod DEF Addr
    <2> QED
      BY <1>3, <2>1 DEF Fetch, mmu
  <1>4. CASE FetchFault
    BY <1>4 DEF FetchFault, mmu
  <1>5. CASE FetchDiverges
    BY <1>5 DEF FetchDiverges, mmu
  <1>6. CASE DecodeFault
    BY <1>6 DEF DecodeFault, mmu
  <1>7. CASE Sret
    <2>1. CopyBit(csrs["sstatus"], SPIE, SIE) \in Word
      BY <1>1, <1>2, CopyBitType
    <2>2. (CopyBit(csrs["sstatus"], SPIE, SIE) \cup {SPIE}) \ {SPP} \in Word
      BY <1>1, <2>1 DEF Word
    <2> QED
      BY <1>7, <2>2 DEF Sret, Execute, mmu, PtrCsr, Mode
  <1>8. CASE Mret
    <2>1. CopyBit(csrs["mstatus"], MPIE, MIE) \in Word
      BY <1>1, <1>2, CopyBitType
    <2>2. (CopyBit(csrs["mstatus"], MPIE, MIE) \cup {MPIE}) \ MPP \in Word
      BY <1>1, <2>1 DEF Word
    <2>3. ModeOfMpp(csrs["mstatus"]) \in Mode
      BY DEF ModeOfMpp, Mode
    <2> QED
      BY <1>8, <2>2, <2>3 DEF Mret, Execute, mmu, PtrCsr
  <1>9. CASE Ecall
    BY <1>9 DEF Ecall, Throw, mmu, Mode, ExceptionCode
  <1>10. CASE MemoryFault
    BY <1>10 DEF MemoryFault, Throw, mmu, ExceptionCode
  <1>11. CASE Plain
    BY <1>11 DEF Plain, Execute, mmu
  <1>12. ASSUME NEW c \in FlagCsr, NEW op \in {"CSRRW", "CSRRS", "CSRRC"},
                NEW w \in Operand[c], Zicsr(c, op, w)
         PROVE  TypeOK'
    <2>1. w \in Word /\ csrs[c] \in Word
      BY GuestAssumption
    <2>2. CsrResult(op, csrs[c], w) \in Word
      BY <2>1, CsrResultType
    <2> QED
      BY <1>12, <2>2, SetCsrType DEF Zicsr, Execute
  <1>13. ASSUME NEW c \in PtrCsr, NEW a \in PtrOperand[c], ZicsrPtr(c, a)
         PROVE  TypeOK'
    <2>1. a \in Addr
      BY GuestAssumption
    <2> QED
      BY <1>13, <2>1 DEF ZicsrPtr, Execute, mmu
  <1>14. ASSUME NEW t \in Target, Jalr(t)
         PROVE  TypeOK'
    <2>1. ClearBit0(t) \in Addr
      BY GuestAssumption, ClearBit0Addr
    <2> QED
      BY <1>14, <2>1 DEF Jalr, Execute, mmu
  <1>15. ASSUME NEW off \in Offset, Branch(off)
         PROVE  TypeOK'
    <2>1. pc + off - 4 \in Int
      BY GuestAssumption DEF Addr
    <2>2. (pc + off - 4) % AddrSpace \in Addr
      BY <2>1, AddrMod
    <2> QED
      BY <1>15, <2>2 DEF Branch, Execute, mmu
  <1>16. CASE CatchTrap
    <2>1. raised \in Int
      BY DEF ExceptionCode
    <2>2. HandleTrap(raised, FALSE, csrs)
      BY <1>16 DEF CatchTrap
    <2>3. /\ pc' \in Addr /\ mode' \in Mode
          /\ csrs' \in [FlagCsr -> Word] /\ ptrs' \in [PtrCsr -> Addr]
      BY <2>1, <2>2, HandleTrapType
    <2> QED
      BY <1>16, <2>3 DEF CatchTrap, mmu
  <1>17. CASE Poll
    <2>1. CASE TakeInterrupt
      <3> DEFINE cs == [csrs EXCEPT !["mip"] = @ \ {FirstHandler}]
      <3>1. FirstHandler \in Int
        BY <2>1, FirstHandlerPending DEF TakeInterrupt, Pending, Interrupts
      <3>2. cs \in [FlagCsr -> Word]
        BY DEF FlagCsr, Word
      <3>3. HandleTrap(FirstHandler, TRUE, cs)
        BY <2>1 DEF TakeInterrupt
      <3>4. /\ pc' \in Addr /\ mode' \in Mode
            /\ csrs' \in [FlagCsr -> Word] /\ ptrs' \in [PtrCsr -> Addr]
        <4> HIDE DEF cs, TypeOK
        <4> QED
          BY <3>1, <3>2, <3>3, HandleTrapType
      <3> QED
        BY <1>17, <3>4 DEF Poll, mmu
    <2>2. CASE NoInterrupt
      BY <1>17, <2>2 DEF Poll, NoInterrupt, mmu
    <2> QED
      BY <1>17, <2>1, <2>2 DEF Poll
  <1>18. CASE Atomic
    BY <1>18, AtomicType
  <1>19. CASE UNCHANGED vars
    BY <1>19 DEF vars
  <1> QED
    BY <1>3, <1>4, <1>5, <1>6, <1>7, <1>8, <1>9, <1>10, <1>11, <1>12, <1>13,
       <1>14, <1>15, <1>16, <1>17, <1>18, <1>19 DEF Step

\* The initial states are well typed.
LEMMA TypeInit == Init => TypeOK
  <1> SUFFICES ASSUME Init PROVE TypeOK
    OBVIOUS
  <1>1. pc \in Addr /\ root \in Word
    BY GuestAssumption DEF Init
  <1>2. csrs \in [FlagCsr -> Word]
    BY DEF Init, Word
  <1>3. 0 \in Addr
    BY AddrSpaceAssumption DEF Addr
  <1>4. ptrs \in [PtrCsr -> Addr]
    BY <1>3 DEF Init
  <1> QED
    BY <1>1, <1>2, <1>4 DEF Init, TypeOK, Mode

\* Type correctness: in every reachable state of the hart each component has
\* its type; in particular pc and the address CSRs never leave the address
\* space, whatever vectors, branches and traps compute.
THEOREM TypeCorrect == Spec => []TypeOK
  <1>1. Init => TypeOK
    BY TypeInit
  <1>2. TypeOK /\ [Step]_vars => TypeOK'
    BY TypeStep
  <1> QED
    BY <1>1, <1>2, PTL DEF Spec

-----------------------------------------------------------------------------
(***************************************************************************)
(* Paging.  With the types the property is inductive: only SetCsr writes   *)
(* satp and only SetCsr tells the MMU, if the guest's atomics spare both.  *)
(***************************************************************************)

PagingInv == TypeOK /\ PagingCoherent

\* HandleTrap leaves satp and mip alone.
LEMMA TrapKeepsSatp ==
  ASSUME TypeOK, NEW code, NEW intr, NEW cs \in [FlagCsr -> Word],
         HandleTrap(code, intr, cs)
  PROVE  csrs'["satp"] = cs["satp"] /\ csrs'["mip"] = cs["mip"]
  BY DEF HandleTrap, TrapToSupervisor, TrapToMachine, FlagCsr

\* Every step preserves PagingInv.
LEMMA PagingStep == PagingInv /\ [Step]_vars => PagingInv'
  <1> SUFFICES ASSUME PagingInv, [Step]_vars
               PROVE  PagingCoherent'
    BY TypeStep DEF PagingInv
  <1> USE DEF PagingInv, PagingCoherent
  <1>1. CASE Fetch
    BY <1>1 DEF Fetch, mmu
  <1>2. CASE FetchFault \/ FetchDiverges \/ DecodeFault
    BY <1>2 DEF FetchFault, FetchDiverges, DecodeFault, mmu
  <1>3. CASE Sret
    BY <1>3 DEF Sret, Execute, mmu, TypeOK, FlagCsr
  <1>4. CASE Mret
    BY <1>4 DEF Mret, Execute, mmu, TypeOK, FlagCsr
  <1>5. CASE Ecall
    BY <1>5 DEF Ecall, Throw, mmu
  <1>6. CASE MemoryFault
    BY <1>6 DEF MemoryFault, Throw, mmu
  <1>7. CASE Plain
    BY <1>7 DEF Plain, Execute, mmu
  <1>8. ASSUME NEW c \in FlagCsr, NEW op, NEW w \in Operand[c], Zicsr(c, op, w)
        PROVE  PagingCoherent'
    <2>1. CASE c = "satp"
      BY <1>8, <2>1
      DEF Zicsr, SetCsr, Execute, UpdatePagingMode, TypeOK, FlagCsr
    <2>2. CASE c # "satp"
      BY <1>8, <2>2 DEF Zicsr, SetCsr, Execute, mmu, TypeOK, FlagCsr
    <2> QED
      BY <2>1, <2>2
  <1>9. ASSUME NEW c \in PtrCsr, NEW a, ZicsrPtr(c, a)
        PROVE  PagingCoherent'
    BY <1>9 DEF ZicsrPtr, Execute, mmu
  <1>10. ASSUME NEW t \in Target, Jalr(t)
         PROVE  PagingCoherent'
    BY <1>10 DEF Jalr, Execute, mmu
  <1>11. ASSUME NEW off \in Offset, Branch(off)
         PROVE  PagingCoherent'
    BY <1>11 DEF Branch, Execute, mmu
  <1>12. CASE CatchTrap
    <2>1. csrs'["satp"] = csrs["satp"]
      BY <1>12, TrapKeepsSatp DEF CatchTrap, TypeOK
    <2> QED
      BY <1>12, <2>1 DEF CatchTrap, mmu
  <1>13. CASE Poll
    <2>1. CASE TakeInterrupt
      <3> DEFINE cs == [csrs EXCEPT !["mip"] = @ \ {FirstHandler}]
      <3>1. cs \in [FlagCsr -> Word] /\ cs["satp"] = csrs["satp"]
        BY DEF TypeOK, FlagCsr, Word
      <3>2. HandleTrap(FirstHandler, TRUE, cs)
        BY <2>1 DEF TakeInterrupt
      <3>3. csrs'["satp"] = cs["satp"]
        <4> HIDE DEF cs, PagingInv, PagingCoherent
        <4> QED
          BY <3>1, <3>2, TrapKeepsSatp DEF PagingInv
      <3> QED
        BY <1>13, <3>1, <3>3 DEF Poll, mmu
    <2>2. CASE NoInterrupt
      BY <1>13, <2>2 DEF Poll, NoInterrupt, mmu
    <2> QED
      BY <1>13, <2>1, <2>2 DEF Poll
  <1>14. CASE Atomic
    <2> SUFFICES ASSUME SparesPaging PROVE PagingCoherent'
      OBVIOUS
    <2>1. ASSUME NEW c \in FlagCsr, NEW w \in Stray.csrs[c], AmoCsr(c, w)
          PROVE  csrs'["satp"] = csrs["satp"] /\ UNCHANGED mmu
      BY <2>1 DEF AmoCsr, SparesPaging, TypeOK, FlagCsr
    <2>2. ASSUME NEW x, AmoPc(x) \/ AmoMode(x) \/ AmoBeyond
          PROVE  csrs' = csrs /\ UNCHANGED mmu
      BY <2>2 DEF AmoPc, AmoMode, AmoBeyond
    <2>3. ~AmoMmu
      BY DEF AmoMmu, SparesPaging
    <2>4. csrs'["satp"] = csrs["satp"] /\ UNCHANGED mmu
      BY <1>14, <2>1, <2>2, <2>3 DEF Atomic
    <2> QED
      BY <2>4 DEF mmu
  <1>15. CASE UNCHANGED vars
    BY <1>15 DEF vars
  <1> QED
    BY <1>1, <1>2, <1>3, <1>4, <1>5, <1>6, <1>7, <1>8, <1>9, <1>10, <1>11,
       <1>12, <1>13, <1>14, <1>15 DEF Step

\* PagingInv holds in every reachable state.
LEMMA PagingInvariant == Spec => []PagingInv
  <1>1. Init => PagingInv
    BY TypeInit
    DEF Init, PagingInv, PagingCoherent, FlagCsr
  <1>2. PagingInv /\ [Step]_vars => PagingInv'
    BY PagingStep
  <1> QED
    BY <1>1, <1>2, PTL DEF Spec

\* For every guest whose atomics keep off satp and the MMU, the MMU's mode and root
\* always agree with satp, so the uninitialised root is never used, whatever the guest
\* writes with Zicsr instructions and however it traps.
THEOREM PagingIsCoherent == Spec => []PagingCoherent
  <1>1. PagingInv => PagingCoherent
    BY DEF PagingInv
  <1> QED
    BY <1>1, PagingInvariant, PTL

-----------------------------------------------------------------------------
(***************************************************************************)
(* Exceptions and interrupts.  ExceptionMasksInterrupts is inductive with  *)
(* the bookkeeping of raised: nothing is raised while an instruction is    *)
(* fetched or executed, and Step is in its catch block only because an     *)
(* exception was thrown.                                                   *)
(***************************************************************************)

ExceptionInv ==
  /\ TypeOK
  /\ phase \in {"fetch", "execute"} => raised = NoTrap
  /\ ExceptionMasksInterrupts

\* When HandleTrap is done the mode it entered masks interrupts.
LEMMA HandleTrapMasks ==
  ASSUME TypeOK, NEW code, NEW intr, NEW cs \in [FlagCsr -> Word],
         HandleTrap(code, intr, cs)
  PROVE  Masked'
  <1> DEFINE status == CopyBit(cs["sstatus"], SIE, SPIE) \ {SIE, SPP}
  <1>1. CASE Delegated(code, cs)
    <2>1. TrapToSupervisor(code, intr, cs)
      BY <1>1 DEF HandleTrap
    <2>2. mode' = "SUPERVISOR"
      BY <2>1 DEF TrapToSupervisor
    <2>3. SIE \notin status \cup {SPP}
      BY DEF SIE, SPP
    <2>4. csrs'["sstatus"] \in {status, status \cup {SPP}}
      BY <2>1 DEF TrapToSupervisor, FlagCsr
    <2> QED
      BY <2>2, <2>3, <2>4 DEF Masked
  <1>2. CASE ~Delegated(code, cs)
    <2>1. TrapToMachine(code, intr, cs)
      BY <1>2 DEF HandleTrap
    <2>2. mode' = "MACHINE"
      BY <2>1 DEF TrapToMachine
    <2>3. csrs'["mstatus"] = CopyBit(cs["mstatus"], MIE, MPIE) \ ({MIE} \cup MPP)
      BY <2>1 DEF TrapToMachine, FlagCsr
    <2> QED
      BY <2>2, <2>3 DEF Masked
  <1> QED
    BY <1>1, <1>2

\* Every step preserves ExceptionInv.
LEMMA ExceptionStep == ExceptionInv /\ [Step]_vars => ExceptionInv'
  <1> SUFFICES ASSUME ExceptionInv, [Step]_vars
               PROVE  /\ phase' \in {"fetch", "execute"} => raised' = NoTrap
                      /\ ExceptionMasksInterrupts'
    BY TypeStep DEF ExceptionInv
  <1> USE DEF ExceptionInv, ExceptionMasksInterrupts
  <1>1. CASE Fetch
    BY <1>1 DEF Fetch
  <1>2. CASE FetchFault \/ FetchDiverges \/ DecodeFault
    BY <1>2 DEF FetchFault, FetchDiverges, DecodeFault
  <1>3. CASE Execute
    BY <1>3 DEF Execute
  <1>4. CASE \E code \in ExceptionCode : Throw(code)
    BY <1>4 DEF Throw
  <1>5. CASE CatchTrap
    <2>1. Masked'
      BY <1>5, HandleTrapMasks DEF CatchTrap, TypeOK
    <2> QED
      BY <1>5, <2>1 DEF CatchTrap
  <1>6. CASE Poll
    BY <1>6 DEF Poll
  <1>7. CASE UNCHANGED vars
    BY <1>7 DEF vars, Masked
  <1>8. Ecall => \E code \in ExceptionCode : Throw(code)
    BY DEF Ecall, ExceptionCode, ExceptionInv, TypeOK, Mode
  <1>9. MemoryFault => \E code \in ExceptionCode : Throw(code)
    BY DEF MemoryFault, ExceptionCode
  <1>10. Sret \/ Mret \/ Plain => Execute
    BY DEF Sret, Mret, Plain
  <1>11. \A c, op, w : Zicsr(c, op, w) => Execute
    BY DEF Zicsr
  <1>12. \A c, a : ZicsrPtr(c, a) => Execute
    BY DEF ZicsrPtr
  <1>13. \A x : Jalr(x) \/ Branch(x) => Execute
    BY DEF Jalr, Branch
  <1>14. Atomic => Execute \/ AmoBeyond
    BY DEF Atomic, AmoCsr, AmoPc, AmoMode, AmoMmu
  <1>15. CASE AmoBeyond
    BY <1>15 DEF AmoBeyond
  <1> QED
    BY <1>1, <1>2, <1>3, <1>4, <1>5, <1>6, <1>7, <1>8, <1>9, <1>10, <1>11,
       <1>12, <1>13, <1>14, <1>15 DEF Step

\* ExceptionInv holds in every reachable state.
LEMMA ExceptionInvariant == Spec => []ExceptionInv
  <1>1. Init => ExceptionInv
    BY TypeInit DEF Init, ExceptionInv, ExceptionMasksInterrupts
  <1>2. ExceptionInv /\ [Step]_vars => ExceptionInv'
    BY ExceptionStep
  <1> QED
    BY <1>1, <1>2, PTL DEF Spec

\* No Step takes both an exception and an interrupt, whatever the delegation
\* and enable bits: the exception's epc and cause reach its handler.
THEOREM ExceptionsMaskInterrupts == Spec => []ExceptionMasksInterrupts
  <1>1. ExceptionInv => ExceptionMasksInterrupts
    BY DEF ExceptionInv
  <1> QED
    BY <1>1, ExceptionInvariant, PTL

\* HandleTrap never lowers the privilege mode.
LEMMA HandleTrapRaises ==
  ASSUME TypeOK, NEW code, NEW intr, NEW cs, HandleTrap(code, intr, cs)
  PROVE  mode' \notin Below(mode)
  <1>1. "MACHINE" \notin Below(mode)
    BY DEF Below, TypeOK, Mode
  <1>2. mode # "MACHINE" => "SUPERVISOR" \notin Below(mode)
    BY DEF Below, TypeOK, Mode
  <1> QED
    BY <1>1, <1>2
    DEF HandleTrap, Delegated, TrapToSupervisor, TrapToMachine

\* The steps of the phases "trap" and "poll" are CatchTrap and Poll.
LEMMA TrapPhases ==
  [Step]_vars /\ phase \in {"trap", "poll"} =>
    CatchTrap \/ Poll \/ UNCHANGED vars
  BY DEF Step, Fetch, FetchFault, FetchDiverges, DecodeFault, Sret, Mret, Ecall,
         MemoryFault, Throw, Plain, Zicsr, ZicsrPtr, Jalr, Branch, Atomic, AmoCsr,
         AmoPc, AmoMode, AmoMmu, AmoBeyond, Execute

\* A mode is not below itself.
LEMMA NotBelowItself == TypeOK => mode \notin Below(mode)
  BY DEF Below, TypeOK, Mode

LEMMA PrivilegeStep ==
  ASSUME TypeOK, [Step]_vars, phase \in {"trap", "poll"}
  PROVE  mode' \notin Below(mode)
  <1>1. CASE CatchTrap
    BY <1>1, HandleTrapRaises DEF CatchTrap
  <1>2. CASE Poll /\ TakeInterrupt
    BY <1>2, HandleTrapRaises DEF TakeInterrupt
  <1>3. CASE (Poll /\ NoInterrupt) \/ UNCHANGED vars
    BY <1>3, NotBelowItself DEF NoInterrupt, vars
  <1> QED
    BY <1>1, <1>2, <1>3, TrapPhases DEF Poll

\* Traps and interrupts never lower the privilege mode, for every guest.
THEOREM TrapsNeverLowerPrivilege == Spec => TrapNeverLowersPrivilege
  <1>1. TypeOK /\ [Step]_vars =>
          [(phase \in {"trap", "poll"}) => mode' \notin Below(mode)]_vars
    BY PrivilegeStep
  <1> QED
    BY <1>1, TypeCorrect, PTL DEF Spec, TrapNeverLowersPrivilege

\* HandleTrap leaves the cause in the CSR of the mode it enters.
LEMMA HandleTrapCause ==
  ASSUME NEW code, NEW intr, NEW cs \in [FlagCsr -> Word],
         HandleTrap(code, intr, cs)
  PROVE  csrs'[CauseOf(mode')] = CauseWord(code, intr)
  BY DEF HandleTrap, TrapToSupervisor, TrapToMachine, CauseOf, FlagCsr

\* What a poll that lets interrupts through does: the pending one with the lowest
\* number is the one it takes.
LEMMA PollDelivers ==
  ASSUME TypeOK, Poll, ~Masked, NEW b \in Pending, \A d \in Pending : b <= d
  PROVE  /\ csrs'["mip"] = csrs["mip"] \ {b}
         /\ csrs'[CauseOf(mode')] = CauseWord(b, TRUE)
  <1> DEFINE cs == [csrs EXCEPT !["mip"] = @ \ {FirstHandler}]
  <1>1. HandleTrap(FirstHandler, TRUE, cs)
    BY DEF Poll, TakeInterrupt, NoInterrupt
  <1>2. cs \in [FlagCsr -> Word] /\ cs["mip"] = csrs["mip"] \ {FirstHandler}
    BY DEF TypeOK, FlagCsr, Word
  <1> HIDE DEF cs
  <1>3. csrs'["mip"] = csrs["mip"] \ {FirstHandler}
    BY <1>1, <1>2, TrapKeepsSatp
  <1>4. csrs'[CauseOf(mode')] = CauseWord(FirstHandler, TRUE)
    BY <1>1, <1>2, HandleTrapCause
  <1>5. FirstHandler = b
    BY FirstIsLowest
  <1> QED
    BY <1>3, <1>4, <1>5

\* How a step treats the interrupts: InterruptDelivery without the brackets.
Delivery ==
  LET deliverable == csrs["mie"] \cap csrs["mip"] \cap Interrupts
  IN  /\ phase = "poll" /\ (Masked \/ deliverable = {}) =>
           UNCHANGED <<pc, mode, csrs, ptrs>>
      /\ phase = "poll" /\ ~Masked =>
           \A b \in deliverable :
             (\A d \in deliverable : b <= d) =>
               /\ csrs'["mip"] = csrs["mip"] \ {b}
               /\ csrs'[CauseOf(mode')] = CauseWord(b, TRUE)
      /\ phase \notin {"execute", "poll"} => csrs'["mip"] = csrs["mip"]

LEMMA DeliveryStep ==
  ASSUME TypeOK, [Step]_vars, vars' # vars
  PROVE  Delivery
  <1>1. CASE phase = "poll"
    <2>1. Poll
      BY <1>1, TrapPhases DEF CatchTrap
    <2>2. Masked \/ Pending = {} => UNCHANGED <<pc, mode, csrs, ptrs>>
      BY <2>1 DEF Poll, TakeInterrupt, NoInterrupt
    <2>3. ASSUME ~Masked, NEW b \in Pending, \A d \in Pending : b <= d
          PROVE  /\ csrs'["mip"] = csrs["mip"] \ {b}
                 /\ csrs'[CauseOf(mode')] = CauseWord(b, TRUE)
      BY <2>1, <2>3, PollDelivers
    <2> QED
      BY <1>1, <2>2, <2>3 DEF Delivery, Pending
  <1>2. CASE phase = "trap"
    <2>1. CatchTrap
      BY <1>2, TrapPhases DEF Poll
    <2>2. csrs'["mip"] = csrs["mip"]
      BY <2>1, TrapKeepsSatp DEF CatchTrap, TypeOK
    <2> QED
      BY <1>2, <2>2 DEF Delivery
  <1>3. CASE phase \notin {"execute", "trap", "poll"}
    <2>1. csrs' = csrs
      BY <1>3
      DEF Step, Fetch, FetchFault, FetchDiverges, DecodeFault, Sret, Mret, Ecall,
          MemoryFault, Throw, Plain, Zicsr, ZicsrPtr, Jalr, Branch, Atomic, AmoCsr,
          AmoPc, AmoMode, AmoMmu, AmoBeyond, Execute, CatchTrap, Poll, vars
    <2> QED
      BY <1>3, <2>1 DEF Delivery
  <1>4. CASE phase = "execute"
    BY <1>4 DEF Delivery
  <1> QED
    BY <1>1, <1>2, <1>3, <1>4

\* Interrupts are delivered exactly once: every poll that may take one takes the
\* lowest, alone, with its cause recorded, every other poll changes nothing, and only
\* instructions change mip besides.
THEOREM InterruptsAreDelivered == Spec => InterruptDelivery
  <1>1. TypeOK /\ [Step]_vars => [Delivery]_vars
    BY DeliveryStep
  <1> QED
    BY <1>1, TypeCorrect, PTL DEF Spec, InterruptDelivery, Delivery

-----------------------------------------------------------------------------
(***************************************************************************)
(* Handlers start where the guest has set them up: 4 * 2^63 is no multiple *)
(* of the address space too few, it is twice the address space.            *)
(***************************************************************************)

\* Quotient and remainder.
LEMMA DivMod ==
  ASSUME NEW n \in Int, NEW m \in Nat \ {0}
  PROVE  /\ n \div m \in Int /\ n % m \in 0 .. m - 1
         /\ n = m * (n \div m) + (n % m)
  OBVIOUS

\* A remainder is determined by the two things that characterise it.
LEMMA ModUnique ==
  ASSUME NEW m \in Nat \ {0}, NEW q \in Int, NEW r \in 0 .. m - 1
  PROVE  (m * q + r) % m = r
  <1> DEFINE n == m * q + r
  <1>1. m * q \in Int /\ n \in Int
    OBVIOUS
  <1>2. n \div m \in Int /\ n % m \in 0 .. m - 1 /\ n = m * (n \div m) + (n % m)
    BY <1>1, DivMod
  <1>3. m * (q - (n \div m)) = (n % m) - r
    BY <1>1, <1>2
  <1>4. q - (n \div m) = 0
    <2> DEFINE d == q - (n \div m)
    <2>1. d \in Int /\ m * d = (n % m) - r /\ -m < (n % m) - r /\ (n % m) - r < m
      BY <1>2, <1>3
    <2>2. CASE d >= 1
      BY <2>1, <2>2
    <2>3. CASE d <= -1
      BY <2>1, <2>3
    <2> QED
      BY <2>1, <2>2, <2>3
  <1> QED
    BY <1>2, <1>3, <1>4

\* Twice the address space more is the same address.
LEMMA ModTwice ==
  \A n \in Int : (n + 2 * AddrSpace) % AddrSpace = n % AddrSpace
  <1> SUFFICES ASSUME NEW n \in Int
               PROVE  (n + 2 * AddrSpace) % AddrSpace = n % AddrSpace
    OBVIOUS
  <1> DEFINE q == n \div AddrSpace
             r == n % AddrSpace
  <1>1. AddrSpace \in Nat \ {0}
    BY AddrSpaceAssumption
  <1>2. q \in Int /\ r \in 0 .. AddrSpace - 1 /\ n = AddrSpace * q + r
    BY <1>1, DivMod
  <1> HIDE DEF q, r
  <1>3. q + 2 \in Int /\ n + 2 * AddrSpace = AddrSpace * (q + 2) + r
    BY <1>1, <1>2
  <1>4. (n + 2 * AddrSpace) % AddrSpace = r
    BY <1>1, <1>2, <1>3, ModUnique
  <1> QED
    BY <1>4 DEF r

\* Exceptions are not vectored.
LEMMA ExceptionVector ==
  ASSUME NEW tvec \in Addr, NEW code
  PROVE  TrapVector(tvec, code, FALSE) = ClearBit0(tvec)
  <1>1. ClearBit0(tvec) \in 0 .. AddrSpace - 1
    BY ClearBit0Addr DEF Addr
  <1>2. ClearBit0(tvec) % AddrSpace = ClearBit0(tvec)
    BY <1>1, AddrSpaceAssumption
  <1> QED
    BY <1>1, <1>2 DEF TrapVector

\* Interrupts are, and bit 63 of the cause is lost in the multiplication.
LEMMA InterruptVector ==
  ASSUME NEW tvec \in Addr, NEW b \in Int
  PROVE  TrapVector(tvec, b, TRUE) =
           IF tvec % 2 = 1 THEN (ClearBit0(tvec) + 4 * b) % AddrSpace
           ELSE ClearBit0(tvec)
  <1>1. ClearBit0(tvec) \in 0 .. AddrSpace - 1
    BY ClearBit0Addr DEF Addr
  <1>2. CASE tvec % 2 = 1
    <2> DEFINE n == ClearBit0(tvec) + 4 * b
    <2>1. AddrSpace \in Int /\ 2 * (AddrSpace \div 2) = AddrSpace
      BY AddrSpaceAssumption
    <2>2. n \in Int /\ ClearBit0(tvec) + 4 * CauseNumber(b, TRUE) = n + 2 * AddrSpace
      BY <1>1, <2>1 DEF CauseNumber
    <2>3. TrapVector(tvec, b, TRUE) = (n + 2 * AddrSpace) % AddrSpace
      BY <1>2, <2>2 DEF TrapVector
    <2> HIDE DEF n
    <2>4. TrapVector(tvec, b, TRUE) = n % AddrSpace
      BY <2>2, <2>3, ModTwice
    <2> QED
      BY <1>2, <2>4 DEF n
  <1>3. CASE tvec % 2 # 1
    <2>1. TrapVector(tvec, b, TRUE) = (ClearBit0(tvec) + 0) % AddrSpace
      BY <1>3 DEF TrapVector
    <2>2. (ClearBit0(tvec) + 0) % AddrSpace = ClearBit0(tvec)
      BY <1>1, AddrSpaceAssumption
    <2> QED
      BY <1>3, <2>1, <2>2
  <1> QED
    BY <1>2, <1>3

\* HandleTrap jumps through the vector of the mode it enters.
LEMMA HandleTrapVector ==
  ASSUME NEW code, NEW intr, NEW cs, HandleTrap(code, intr, cs)
  PROVE  pc' = TrapVector(ptrs[TvecOf(mode')], code, intr)
  BY DEF HandleTrap, TrapToSupervisor, TrapToMachine, TvecOf

\* The vectors are addresses.
LEMMA TvecAddr == TypeOK => \A m \in Mode : ptrs[TvecOf(m)] \in Addr
  BY DEF TypeOK, TvecOf, PtrCsr

\* The catch block starts the handler at the base of the vector.
LEMMA CatchVector ==
  ASSUME TypeOK, CatchTrap
  PROVE  pc' = ClearBit0(ptrs[TvecOf(mode')])
  <1>1. HandleTrap(raised, FALSE, csrs)
    BY DEF CatchTrap
  <1>2. raised \in Int
    BY DEF TypeOK, ExceptionCode
  <1>3. mode' \in Mode
    BY <1>1, <1>2, HandleTrapType DEF TypeOK
  <1> QED
    BY <1>1, <1>3, HandleTrapVector, TvecAddr, ExceptionVector

\* HandleInterrupts starts it behind the base, if the vector has bit 0 set.
LEMMA InterruptStart ==
  ASSUME TypeOK, Poll, NEW b \in csrs["mip"] \ csrs'["mip"]
  PROVE  LET tvec == ptrs[TvecOf(mode')]
         IN  pc' = IF tvec % 2 = 1 THEN (ClearBit0(tvec) + 4 * b) % AddrSpace
                   ELSE ClearBit0(tvec)
  <1> DEFINE cs == [csrs EXCEPT !["mip"] = @ \ {FirstHandler}]
  <1>1. HandleTrap(FirstHandler, TRUE, cs) /\ Pending # {}
    BY DEF Poll, TakeInterrupt, NoInterrupt
  <1>2. cs \in [FlagCsr -> Word] /\ cs["mip"] = csrs["mip"] \ {FirstHandler}
    BY DEF TypeOK, FlagCsr, Word
  <1> HIDE DEF cs
  <1>3. b = FirstHandler
    BY <1>1, <1>2, TrapKeepsSatp
  <1>4. b \in Int
    BY <1>1, <1>3, FirstHandlerPending DEF Pending, Interrupts
  <1>5. mode' \in Mode
    BY <1>1, <1>2, <1>3, <1>4, HandleTrapType
  <1>6. pc' = TrapVector(ptrs[TvecOf(mode')], b, TRUE)
    BY <1>1, <1>3, HandleTrapVector
  <1> QED
    BY <1>4, <1>5, <1>6, TvecAddr, InterruptVector

\* Where a step that enters a handler leads.
HandlerStarts ==
  LET tvec == ptrs[TvecOf(mode')]
      delivered == csrs["mip"] \ csrs'["mip"]
  IN  /\ phase = "trap" => pc' = ClearBit0(tvec)
      /\ phase = "poll" =>
           \A b \in delivered :
             pc' = IF tvec % 2 = 1 THEN (ClearBit0(tvec) + 4 * b) % AddrSpace
                   ELSE ClearBit0(tvec)

LEMMA VectorStep ==
  ASSUME TypeOK, [Step]_vars, vars' # vars
  PROVE  HandlerStarts
  <1>1. CASE phase = "trap"
    <2>1. CatchTrap
      BY <1>1, TrapPhases DEF Poll
    <2> QED
      BY <1>1, <2>1, CatchVector DEF HandlerStarts
  <1>2. CASE phase = "poll"
    <2>1. Poll
      BY <1>2, TrapPhases DEF CatchTrap
    <2>2. \A b \in csrs["mip"] \ csrs'["mip"] :
            LET tvec == ptrs[TvecOf(mode')]
            IN  pc' = IF tvec % 2 = 1 THEN (ClearBit0(tvec) + 4 * b) % AddrSpace
                      ELSE ClearBit0(tvec)
      BY <2>1, InterruptStart
    <2> QED
      BY <1>2, <2>2 DEF HandlerStarts
  <1> QED
    BY <1>1, <1>2 DEF HandlerStarts

\* Every handler starts where the vector of its mode says, interrupts 4 bytes per
\* cause code behind the base although bit 63 of the cause is multiplied too.
THEOREM HandlersStartWhereSet == Spec => VectoredDispatch
  <1>1. TypeOK /\ [Step]_vars => [HandlerStarts]_vars
    BY VectorStep
  <1> QED
    BY <1>1, TypeCorrect, PTL DEF Spec, VectoredDispatch, HandlerStarts
=============================================================================
