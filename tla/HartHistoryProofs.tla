--------------------------- MODULE HartHistoryProofs ---------------------------
(***************************************************************************)
(* Proofs about HartHistory: exceptions are precise, and SRET and MRET     *)
(* undo the traps they return from.                                        *)
(***************************************************************************)
EXTENDS HartHistory, HartProofs

\* What Fetch adds to pc, HandleTrap takes away again.
LEMMA ModCancel ==
  \A a \in Addr : (((a + 4) % AddrSpace) - 4) % AddrSpace = a
  <1> SUFFICES ASSUME NEW a \in Addr
               PROVE  (((a + 4) % AddrSpace) - 4) % AddrSpace = a
    OBVIOUS
  <1> DEFINE q == (a + 4) \div AddrSpace
             r == (a + 4) % AddrSpace
  <1>1. AddrSpace \in Nat \ {0} /\ a + 4 \in Int /\ a \in 0 .. AddrSpace - 1
    BY AddrSpaceAssumption DEF Addr
  <1>2. q \in Int /\ r \in Int /\ a + 4 = AddrSpace * q + r
    BY <1>1, DivMod
  <1>3. r - 4 = AddrSpace * (-q) + a
    BY <1>1, <1>2
  <1>4. -q \in Int
    BY <1>2
  <1> HIDE DEF q, r
  <1>5. (r - 4) % AddrSpace = a
    BY <1>1, <1>3, <1>4, ModUnique
  <1> QED
    BY <1>5 DEF r

\* The address space being even, reduction keeps even numbers even.
LEMMA EvenMod ==
  \A n \in Int : n % 2 = 0 => (n % AddrSpace) % 2 = 0
  <1> SUFFICES ASSUME NEW n \in Int, n % 2 = 0
               PROVE  (n % AddrSpace) % 2 = 0
    OBVIOUS
  <1> DEFINE k == AddrSpace \div 2
             q == n \div AddrSpace
  <1>1. k \in Int /\ AddrSpace = 2 * k
    BY AddrSpaceAssumption
  <1>2. q \in Int /\ n % AddrSpace \in Int /\ n = AddrSpace * q + (n % AddrSpace)
    BY AddrSpaceAssumption, DivMod
  <1> HIDE DEF k, q
  <1>3. k * q \in Int /\ AddrSpace * q = 2 * (k * q)
    BY <1>1, <1>2
  <1>4. n % AddrSpace = n - 2 * (k * q)
    BY <1>2, <1>3
  <1> QED
    BY <1>3, <1>4

-----------------------------------------------------------------------------
(***************************************************************************)
(* HartHistory only adds history variables to Hart.                        *)
(***************************************************************************)

\* Every step with history is a step without it.
LEMMA StepHStep == [StepH]_varsH => [Step]_vars
  BY DEF StepH, FetchH, SretH, MretH, CatchTrapH, InterruptH, NoInterruptH,
         OtherH, ZicsrH, AmoCsrH, Atomic, Step, varsH

\* What holds of Hart holds of HartHistory: recording history restricts nothing.
THEOREM HistoryImplementsHart == SpecH => Spec
  <1>1. InitH => Init
    BY DEF InitH
  <1>2. [StepH]_varsH => [Step]_vars
    BY StepHStep
  <1> QED
    BY <1>1, <1>2, PTL DEF SpecH, Spec

\* The types hold initially and are kept by every step.
LEMMA TypeInitH == InitH => TypeOKH
  BY TypeInit, GuestAssumption DEF InitH, TypeOKH

LEMMA TypeStepH == TypeOKH /\ [StepH]_varsH => TypeOKH'
  <1> SUFFICES ASSUME TypeOKH, [StepH]_varsH PROVE TypeOKH'
    OBVIOUS
  <1>1. TypeOK'
    BY StepHStep, TypeStep DEF TypeOKH
  <1>2. ASSUME NEW m PROVE Interrupted(m) \in Frame
    <2>1. Enabled(m) \in BOOLEAN
      BY DEF Enabled
    <2>2. [from |-> mode, ie |-> Enabled(m)] \in Frame
      BY <2>1 DEF Frame, TypeOKH, TypeOK
    <2> QED
      BY <2>2 DEF Interrupted
  <1>3. cur' \in Addr /\ sframe' \in Frame \cup {NoFrame} /\ mframe' \in Frame \cup {NoFrame}
    BY <1>2 DEF TypeOKH, TypeOK, StepH, FetchH, SretH, MretH, CatchTrapH,
         InterruptH, NoInterruptH, OtherH, ZicsrH, AmoCsrH, RecordFrame, history, varsH
  <1> QED
    BY <1>1, <1>3 DEF TypeOKH

\* Type correctness with history.
LEMMA TypeCorrectH == SpecH => []TypeOKH
  BY TypeInitH, TypeStepH, PTL DEF SpecH

-----------------------------------------------------------------------------
(***************************************************************************)
(* Precise exceptions.  The epc is computed from pc, so the invariant says *)
(* where pc is while an instruction is executed or trapped; the epc is     *)
(* computed by clearing bit 0, so it says that addresses are even.         *)
(***************************************************************************)

EvenAddresses ==
  pc % 2 = 0 /\ cur % 2 = 0 /\ ptrs["sepc"] % 2 = 0 /\ ptrs["mepc"] % 2 = 0

PreciseInv ==
  EvenGuest =>
    /\ EvenAddresses
    /\ phase \in {"execute", "trap"} => pc = (cur + 4) % AddrSpace
    /\ PreciseException

InvH == TypeOKH /\ ExceptionInv /\ PreciseInv

\* A vector is even: bit 0 of tvec is cleared, and it is a multiple of 4 further.
LEMMA TrapVectorEven ==
  ASSUME NEW tvec \in Addr, NEW code \in Int, NEW intr \in BOOLEAN
  PROVE  TrapVector(tvec, code, intr) % 2 = 0
  <1>1. AddrSpace \div 2 \in Int
    BY AddrSpaceAssumption
  <1>2. CauseNumber(code, intr) \in Int
    BY <1>1 DEF CauseNumber
  <1>3. ClearBit0(tvec) \in Int /\ ClearBit0(tvec) % 2 = 0
    BY ClearBit0Addr DEF Addr
  <1> DEFINE vec == IF intr /\ tvec % 2 = 1 THEN 4 * CauseNumber(code, intr) ELSE 0
  <1>4. vec \in Int /\ vec % 2 = 0
    BY <1>2
  <1>5. ClearBit0(tvec) + vec \in Int /\ (ClearBit0(tvec) + vec) % 2 = 0
    BY <1>3, <1>4
  <1> QED
    BY <1>5, EvenMod DEF TrapVector

\* What HandleTrap does to the addresses.
LEMMA HandleTrapAddresses ==
  ASSUME TypeOK, NEW code \in Int, NEW intr \in BOOLEAN,
         NEW cs \in [FlagCsr -> Word], HandleTrap(code, intr, cs)
  PROVE  /\ pc' % 2 = 0
         /\ ptrs' = [ptrs EXCEPT ![EpcOf(mode')] = TrapPc]
         /\ TrapPc % 2 = 0
  <1>1. ptrs["stvec"] \in Addr /\ ptrs["mtvec"] \in Addr
    BY DEF TypeOK, PtrCsr
  <1>2. pc' % 2 = 0
    BY <1>1, TrapVectorEven DEF HandleTrap, TrapToSupervisor, TrapToMachine
  <1>3. ptrs' = [ptrs EXCEPT ![EpcOf(mode')] = TrapPc]
    BY DEF HandleTrap, TrapToSupervisor, TrapToMachine, EpcOf
  <1>4. (pc - 4) % AddrSpace \in Addr
    BY AddrMod DEF TypeOK, Addr
  <1>5. TrapPc % 2 = 0
    BY <1>4, ClearBit0Addr DEF TrapPc
  <1> QED
    BY <1>2, <1>3, <1>5

\* Addresses stay even.
LEMMA EvenStep ==
  ASSUME TypeOKH, EvenGuest, EvenAddresses, [StepH]_varsH
  PROVE  EvenAddresses'
  <1> USE DEF EvenAddresses, TypeOKH, TypeOK
  <1>0. {"sepc", "mepc"} \subseteq PtrCsr /\ EpcOf(mode') \in {"sepc", "mepc"}
    BY DEF PtrCsr, EpcOf
  <1>1. CASE FetchH
    <2>1. pc + 4 \in Int /\ (pc + 4) % 2 = 0
      BY DEF Addr
    <2>2. ((pc + 4) % AddrSpace) % 2 = 0
      BY <2>1, EvenMod
    <2> QED
      BY <1>1, <2>2 DEF FetchH, Fetch
  <1>2. CASE SretH
    BY <1>2 DEF SretH, Sret
  <1>3. CASE MretH
    BY <1>3 DEF MretH, Mret
  <1>4. CASE CatchTrapH \/ InterruptH
    <2> DEFINE cs == [csrs EXCEPT !["mip"] = @ \ {FirstHandler}]
    <2>1. raised \in Int /\ (Pending # {} => FirstHandler \in Int)
      BY FirstHandlerPending DEF ExceptionCode, Pending, Interrupts, NoTrap,
                                 LoadAccessFault, StoreAMOAccessFault
    <2>2. cs \in [FlagCsr -> Word]
      BY DEF FlagCsr, Word
    <2>3. HandleTrap(raised, FALSE, csrs) \/
            (Pending # {} /\ HandleTrap(FirstHandler, TRUE, cs))
      BY <1>4 DEF CatchTrapH, CatchTrap, InterruptH, TakeInterrupt
    <2>4. /\ pc' % 2 = 0
          /\ ptrs' = [ptrs EXCEPT ![EpcOf(mode')] = TrapPc]
          /\ TrapPc % 2 = 0
      <3> HIDE DEF cs
      <3> QED
        BY <2>1, <2>2, <2>3, HandleTrapAddresses
    <2>5. cur' = cur
      BY <1>4 DEF CatchTrapH, InterruptH, RecordFrame
    <2> QED
      BY <1>0, <2>4, <2>5
  <1>5. CASE NoInterruptH
    BY <1>5 DEF NoInterruptH, NoInterrupt, history
  <1>6. ASSUME NEW c \in FlagCsr, NEW op, NEW w, ZicsrH(c, op, w)
        PROVE  EvenAddresses'
    BY <1>6 DEF ZicsrH, Zicsr
  <1>7. ASSUME FetchFault \/ FetchDiverges \/ DecodeFault \/ Ecall \/ MemoryFault
               \/ Plain, UNCHANGED history
        PROVE  EvenAddresses'
    BY <1>7 DEF FetchFault, FetchDiverges, DecodeFault, Ecall, MemoryFault, Throw,
                Plain, history
  <1>8. ASSUME NEW c \in PtrCsr, NEW a \in PtrOperand[c], ZicsrPtr(c, a),
               UNCHANGED history
        PROVE  EvenAddresses'
    BY <1>0, <1>8 DEF ZicsrPtr, EvenGuest, history
  <1>9. ASSUME NEW t \in Target, Jalr(t), UNCHANGED history
        PROVE  EvenAddresses'
    BY <1>9, ClearBit0Addr, GuestAssumption DEF Jalr, history
  <1>10. ASSUME NEW off \in Offset, Branch(off), UNCHANGED history
         PROVE  EvenAddresses'
    <2>1. pc + off - 4 \in Int /\ (pc + off - 4) % 2 = 0
      BY GuestAssumption DEF Addr
    <2>2. ((pc + off - 4) % AddrSpace) % 2 = 0
      BY <2>1, EvenMod
    <2> QED
      BY <1>10, <2>2 DEF Branch, history
  <1>11. ASSUME NEW c \in FlagCsr, NEW w, AmoCsrH(c, w)
         PROVE  EvenAddresses'
    BY <1>11 DEF AmoCsrH, AmoCsr
  <1>12. ASSUME NEW a \in Stray.pc, AmoPc(a), UNCHANGED history
         PROVE  EvenAddresses'
    BY <1>12 DEF AmoPc, EvenGuest, history
  <1>13. ASSUME NEW m, AmoMode(m) \/ AmoMmu \/ AmoBeyond, UNCHANGED history
         PROVE  EvenAddresses'
    BY <1>13 DEF AmoMode, AmoMmu, AmoBeyond, history
  <1>14. CASE UNCHANGED varsH
    BY <1>14 DEF varsH, vars, history
  <1> QED
    BY <1>1, <1>2, <1>3, <1>4, <1>5, <1>6, <1>7, <1>8, <1>9, <1>10, <1>11, <1>12,
       <1>13, <1>14
    DEF StepH, OtherH

\* The catch block is what makes PreciseException true ...
LEMMA CatchIsPrecise ==
  ASSUME TypeOKH, EvenGuest, EvenAddresses, pc = (cur + 4) % AddrSpace,
         CatchTrapH
  PROVE  PreciseException'
  <1> USE DEF TypeOKH, TypeOK
  <1>1. HandleTrap(raised, FALSE, csrs) /\ raised' = raised /\ cur' = cur
    BY DEF CatchTrapH, CatchTrap, RecordFrame
  <1>2. raised \in Int
    BY DEF ExceptionCode, NoTrap, LoadAccessFault, StoreAMOAccessFault
  <1>3. TrapPc = cur
    <2>1. (pc - 4) % AddrSpace = cur
      BY ModCancel
    <2> QED
      BY <2>1 DEF TrapPc, ClearBit0, EvenAddresses, Addr
  <1>4. ptrs' = [ptrs EXCEPT ![EpcOf(mode')] = TrapPc]
    BY <1>1, <1>2, HandleTrapAddresses
  <1>5. EpcOf(mode') \in PtrCsr
    BY DEF EpcOf, PtrCsr
  <1>6. ptrs'[EpcOf(mode')] = cur'
    BY <1>1, <1>3, <1>4, <1>5
  <1>7. csrs'[CauseOf(mode')] = CauseWord(raised', FALSE)
    BY <1>1, HandleTrapCause
  <1> QED
    BY <1>6, <1>7 DEF PreciseException, CauseOf, EpcOf

\* ... and every other step leaves "poll" or has nothing raised.
LEMMA PreciseStep == InvH /\ [StepH]_varsH => InvH'
  <1> SUFFICES ASSUME InvH, [StepH]_varsH PROVE InvH'
    OBVIOUS
  <1>1. TypeOKH' /\ ExceptionInv'
    BY TypeStepH, StepHStep, ExceptionStep DEF InvH
  <1>2. ASSUME EvenGuest PROVE EvenAddresses'
    BY <1>2, EvenStep DEF InvH, PreciseInv
  <1>3. ASSUME EvenGuest, phase' \in {"execute", "trap"}
        PROVE  pc' = (cur' + 4) % AddrSpace
    <2>1. CASE FetchH
      BY <2>1 DEF FetchH, Fetch
    <2>2. CASE Throw(raised') /\ UNCHANGED history
      BY <1>3, <2>2 DEF Throw, history, InvH, PreciseInv
    <2>3. CASE UNCHANGED varsH
      BY <1>3, <2>3 DEF varsH, vars, history, InvH, PreciseInv
    <2>4. CASE FetchFault /\ UNCHANGED history
      BY <1>3, <2>4 DEF FetchFault, InvH, PreciseInv, history
    <2> QED
      BY <1>3, <2>1, <2>2, <2>3, <2>4
      DEF StepH, SretH, Sret, MretH, Mret, CatchTrapH, CatchTrap, InterruptH,
          NoInterruptH, Poll, OtherH, ZicsrH, Zicsr, FetchDiverges,
          DecodeFault, Ecall, MemoryFault, Throw, Plain, ZicsrPtr, Jalr, Branch,
          AmoCsrH, AmoCsr, AmoPc, AmoMode, AmoMmu, AmoBeyond, Execute
  <1>4. ASSUME EvenGuest PROVE PreciseException'
    <2>1. CASE CatchTrapH
      <3>1. phase = "trap"
        BY <2>1 DEF CatchTrapH, CatchTrap
      <3> QED
        BY <1>4, <2>1, <3>1, CatchIsPrecise DEF InvH, PreciseInv
    <2>2. CASE UNCHANGED varsH
      BY <1>4, <2>2
      DEF InvH, PreciseInv, PreciseException, varsH, vars, history, EpcOf, CauseOf
    <2>3. CASE phase' # "poll"
      BY <2>3 DEF PreciseException
    <2>4. CASE phase = "execute" /\ raised' = raised
      BY <2>4 DEF PreciseException, InvH, ExceptionInv
    <2> QED
      BY <2>1, <2>2, <2>3, <2>4
      DEF StepH, FetchH, Fetch, SretH, Sret, MretH, Mret, InterruptH,
          NoInterruptH, Poll, OtherH, ZicsrH, Zicsr, FetchFault, FetchDiverges,
          DecodeFault, Ecall, MemoryFault, Throw, Plain, ZicsrPtr, Jalr, Branch,
          AmoCsrH, AmoCsr, AmoPc, AmoMode, AmoMmu, AmoBeyond, Execute
  <1> QED
    BY <1>1, <1>2, <1>3, <1>4 DEF InvH, PreciseInv

\* Exceptions are precise for every guest that keeps its addresses even: the epc
\* is the address of the instruction that threw, and the cause the one thrown.
THEOREM ExceptionsArePrecise == SpecH => []PreciseException
  <1>1. InitH => InvH
    <2>1. ASSUME InitH, EvenGuest PROVE EvenAddresses
      BY <2>1 DEF InitH, Init, EvenAddresses, EvenGuest, PtrCsr
    <2>2. InitH => ExceptionInv
      BY TypeInit DEF InitH, Init, ExceptionInv, ExceptionMasksInterrupts
    <2> QED
      BY <2>1, <2>2, TypeInitH
      DEF InvH, PreciseInv, PreciseException, InitH, Init
  <1>2. InvH /\ [StepH]_varsH => InvH'
    BY PreciseStep
  <1>3. InvH => PreciseException
    BY DEF InvH, PreciseInv, PreciseException
  <1> QED
    BY <1>1, <1>2, <1>3, PTL DEF SpecH

-----------------------------------------------------------------------------
(***************************************************************************)
(* Traps and returns.  Each status register keeps its own frame, so the    *)
(* invariant is SupervisorFrameKept and its counterpart for MACHINE, with  *)
(* the fact that no trap leads from MACHINE to SUPERVISOR.                 *)
(***************************************************************************)

MachineFrameKept ==
  mframe # NoFrame => ((MPIE \in csrs["mstatus"]) <=> mframe.ie)

NotFromMachine == sframe.from # "MACHINE"

FrameInv ==
  TypeOKH /\ NotFromMachine /\ SupervisorFrameKept /\ MachineFrameKept

\* A trap makes the frame of the mode it enters agree with its status register
\* and touches neither frame nor status register of the other mode.
LEMMA TrapFrames ==
  ASSUME FrameInv, NEW code, NEW intr, NEW cs \in [FlagCsr -> Word],
         cs["sstatus"] = csrs["sstatus"], cs["mstatus"] = csrs["mstatus"],
         HandleTrap(code, intr, cs), RecordFrame
  PROVE  NotFromMachine' /\ SupervisorFrameKept' /\ MachineFrameKept'
  <1> USE DEF FrameInv, NotFromMachine, SupervisorFrameKept, MachineFrameKept
  <1>1. CASE Delegated(code, cs)
    <2> DEFINE status == CopyBit(cs["sstatus"], SIE, SPIE) \ {SIE, SPP}
    <2>1. TrapToSupervisor(code, intr, cs)
      BY <1>1 DEF HandleTrap
    <2>2. mode' = "SUPERVISOR" /\ csrs'["mstatus"] = csrs["mstatus"]
      BY <2>1 DEF TrapToSupervisor, FlagCsr
    <2>3. csrs'["sstatus"] = IF mode = "USER" THEN status ELSE status \cup {SPP}
      BY <2>1 DEF TrapToSupervisor, FlagCsr
    <2>4. (SPP \in csrs'["sstatus"]) <=> (mode = "SUPERVISOR")
      BY <1>1, <2>3 DEF Delegated, TypeOKH, TypeOK, Mode
    <2>5. (SPIE \in csrs'["sstatus"]) <=> (SIE \in csrs["sstatus"])
      BY <2>3 DEF CopyBit, SIE, SPIE, SPP
    <2>6. sframe' = Interrupted("SUPERVISOR") /\ mframe' = mframe
      BY <2>2 DEF RecordFrame
    <2>7. sframe'.from = mode /\ (sframe'.ie <=> SIE \in csrs["sstatus"])
      BY <2>6, Zenon DEF Interrupted, Enabled
    <2>8. SupervisorFrameKept'
      BY <2>4, <2>5, <2>7
    <2>9. NotFromMachine'
      BY <1>1, <2>7 DEF Delegated
    <2> QED
      BY <2>2, <2>6, <2>8, <2>9
  <1>2. CASE ~Delegated(code, cs)
    <2>1. TrapToMachine(code, intr, cs)
      BY <1>2 DEF HandleTrap
    <2>2. mode' = "MACHINE" /\ csrs'["sstatus"] = csrs["sstatus"]
      BY <2>1 DEF TrapToMachine, FlagCsr
    <2>3. csrs'["mstatus"] = CopyBit(cs["mstatus"], MIE, MPIE) \ ({MIE} \cup MPP)
      BY <2>1 DEF TrapToMachine, FlagCsr
    <2>4. (MPIE \in csrs'["mstatus"]) <=> (MIE \in csrs["mstatus"])
      BY <2>3 DEF CopyBit, MIE, MPIE, MPP
    <2>5. mframe' = Interrupted("MACHINE") /\ sframe' = sframe
      BY <2>2 DEF RecordFrame
    <2>6. mframe'.ie <=> MIE \in csrs["mstatus"]
      BY <2>5, Zenon DEF Interrupted, Enabled
    <2> QED
      BY <2>2, <2>4, <2>5, <2>6
  <1> QED
    BY <1>1, <1>2

\* Every step preserves FrameInv.
LEMMA FrameStep == FrameInv /\ [StepH]_varsH => FrameInv'
  <1> SUFFICES ASSUME FrameInv, [StepH]_varsH
               PROVE  NotFromMachine' /\ SupervisorFrameKept' /\ MachineFrameKept'
    BY TypeStepH DEF FrameInv
  <1> USE DEF FrameInv, NotFromMachine, SupervisorFrameKept, MachineFrameKept
  <1>1. csrs \in [FlagCsr -> Word]
    BY DEF TypeOKH, TypeOK
  <1>2. CASE UNCHANGED <<csrs, sframe, mframe>>
    BY <1>2
  <1>3. CASE SretH
    BY <1>1, <1>3 DEF SretH, Sret, FlagCsr, NoFrame
  <1>4. CASE MretH
    BY <1>1, <1>4 DEF MretH, Mret, FlagCsr
  <1>5. CASE CatchTrapH
    BY <1>1, <1>5, TrapFrames DEF CatchTrapH, CatchTrap
  <1>6. CASE InterruptH
    <2> DEFINE cs == [csrs EXCEPT !["mip"] = @ \ {FirstHandler}]
    <2>1. /\ cs \in [FlagCsr -> Word]
          /\ cs["sstatus"] = csrs["sstatus"] /\ cs["mstatus"] = csrs["mstatus"]
      BY <1>1 DEF FlagCsr, Word
    <2>2. HandleTrap(FirstHandler, TRUE, cs) /\ RecordFrame
      BY <1>6 DEF InterruptH, TakeInterrupt
    <2> QED
      <3> HIDE DEF cs, FrameInv, NotFromMachine, SupervisorFrameKept, MachineFrameKept
      <3> QED
        BY <2>1, <2>2, TrapFrames
  <1>7. ASSUME NEW c \in FlagCsr, NEW op, NEW w, ZicsrH(c, op, w)
        PROVE  NotFromMachine' /\ SupervisorFrameKept' /\ MachineFrameKept'
    BY <1>1, <1>7 DEF ZicsrH, Zicsr, SetCsr, FlagCsr, NoFrame
  <1>8. ASSUME NEW c \in FlagCsr, NEW w, AmoCsrH(c, w)
        PROVE  NotFromMachine' /\ SupervisorFrameKept' /\ MachineFrameKept'
    BY <1>1, <1>8 DEF AmoCsrH, AmoCsr, FlagCsr, NoFrame
  <1> QED
    BY <1>2, <1>3, <1>4, <1>5, <1>6, <1>7, <1>8
    DEF StepH, FetchH, Fetch, NoInterruptH, NoInterrupt, OtherH, FetchFault,
        FetchDiverges, DecodeFault, Ecall, MemoryFault, Throw, Plain, ZicsrPtr,
        Jalr, Branch, AmoPc, AmoMode, AmoMmu, AmoBeyond, history, vars, varsH

\* FrameInv holds in every reachable state.
LEMMA FrameInvariant == SpecH => []FrameInv
  <1>1. InitH => FrameInv
    BY TypeInitH
    DEF InitH, FrameInv, NotFromMachine, SupervisorFrameKept, MachineFrameKept,
        NoFrame
  <1>2. FrameInv /\ [StepH]_varsH => FrameInv'
    BY FrameStep
  <1> QED
    BY <1>1, <1>2, PTL DEF SpecH

\* sstatus keeps what the last trap to SUPERVISOR interrupted, for every nesting
\* of traps, returns and writes of other CSRs or of the mode.
THEOREM SupervisorFrameIsKept == SpecH => []SupervisorFrameKept
  <1>1. FrameInv => SupervisorFrameKept
    BY DEF FrameInv
  <1> QED
    BY <1>1, FrameInvariant, PTL

\* SRET restores the mode and the interrupt enable of the trap it returns from.
THEOREM SretUndoesItsTrap == SpecH => SretUndoesTrap
  <1>1. ASSUME FrameInv, [StepH]_varsH, Sret, sframe # NoFrame
        PROVE  mode' = sframe.from /\ ((SIE \in csrs'["sstatus"]) <=> sframe.ie)
    <2>1. csrs'["sstatus"] = (CopyBit(csrs["sstatus"], SPIE, SIE) \cup {SPIE}) \ {SPP}
      BY <1>1 DEF Sret, FrameInv, TypeOKH, TypeOK, FlagCsr
    <2>2. (SIE \in csrs'["sstatus"]) <=> (SPIE \in csrs["sstatus"])
      BY <2>1 DEF CopyBit, SIE, SPIE, SPP
    <2>3. (SPP \in csrs["sstatus"]) <=> (sframe.from = "SUPERVISOR")
      BY <1>1 DEF FrameInv, SupervisorFrameKept
    <2>4. sframe.from \in {"USER", "SUPERVISOR"}
      BY <1>1 DEF FrameInv, NotFromMachine, TypeOKH, Frame, Mode
    <2>5. mode' = IF SPP \in csrs["sstatus"] THEN "SUPERVISOR" ELSE "USER"
      BY <1>1 DEF Sret
    <2> QED
      BY <1>1, <2>2, <2>3, <2>4, <2>5 DEF FrameInv, SupervisorFrameKept
  <1>2. FrameInv /\ [StepH]_varsH =>
          [Sret /\ sframe # NoFrame =>
             /\ mode' = sframe.from
             /\ (SIE \in csrs'["sstatus"]) <=> sframe.ie]_varsH
    BY <1>1
  <1> QED
    BY <1>2, FrameInvariant, PTL DEF SpecH, SretUndoesTrap

\* MRET gives MIE back its value of before the trap.
THEOREM MretRestoresTheEnable == SpecH => MretRestoresEnable
  <1>1. ASSUME FrameInv, Mret, mframe # NoFrame
        PROVE  (MIE \in csrs'["mstatus"]) <=> mframe.ie
    <2>1. csrs'["mstatus"] = (CopyBit(csrs["mstatus"], MPIE, MIE) \cup {MPIE}) \ MPP
      BY <1>1 DEF Mret, FrameInv, TypeOKH, TypeOK, FlagCsr
    <2>2. (MIE \in csrs'["mstatus"]) <=> (MPIE \in csrs["mstatus"])
      BY <2>1 DEF CopyBit, MIE, MPIE, MPP
    <2> QED
      BY <1>1, <2>2 DEF FrameInv, MachineFrameKept
  <1>2. FrameInv /\ [StepH]_varsH =>
          [Mret /\ mframe # NoFrame =>
             ((MIE \in csrs'["mstatus"]) <=> mframe.ie)]_varsH
    BY <1>1
  <1> QED
    BY <1>2, FrameInvariant, PTL DEF SpecH, MretRestoresEnable
=============================================================================
