----------------------------- MODULE HartHistory -----------------------------
(***************************************************************************)
(* Hart with history variables: the address of the instruction the Step is *)
(* executing, and for each of the two trap modes what the last trap into   *)
(* it interrupted.  They restrict no action of Hart.                       *)
(***************************************************************************)
EXTENDS Hart

VARIABLES
  cur,    \* address of the instruction last fetched
  sframe, \* what the last trap to SUPERVISOR interrupted; NoFrame once SRET
          \* ran or the guest wrote sstatus
  mframe  \* the same for MACHINE, MRET and mstatus

history == <<cur, sframe, mframe>>
varsH   == <<vars, history>>

Frame   == [from : Mode, ie : BOOLEAN]
NoFrame == [from |-> "NONE", ie |-> FALSE]

TypeOKH ==
  /\ TypeOK
  /\ cur \in Addr
  /\ sframe \in Frame \cup {NoFrame}
  /\ mframe \in Frame \cup {NoFrame}

InitH == Init /\ cur = Entry /\ sframe = NoFrame /\ mframe = NoFrame

FetchH == Fetch /\ cur' = pc /\ UNCHANGED <<sframe, mframe>>
SretH  == Sret /\ sframe' = NoFrame /\ UNCHANGED <<cur, mframe>>
MretH  == Mret /\ mframe' = NoFrame /\ UNCHANGED <<cur, sframe>>

ZicsrH(c, op, w) ==
  /\ Zicsr(c, op, w)
  /\ sframe' = IF c = "sstatus" THEN NoFrame ELSE sframe
  /\ mframe' = IF c = "mstatus" THEN NoFrame ELSE mframe
  /\ UNCHANGED cur

\* An atomic that hits sstatus or mstatus is such a write too.
AmoCsrH(c, w) ==
  /\ AmoCsr(c, w)
  /\ sframe' = IF c = "sstatus" THEN NoFrame ELSE sframe
  /\ mframe' = IF c = "mstatus" THEN NoFrame ELSE mframe
  /\ UNCHANGED cur

\* The interrupt enable of a trap mode, and the frame a trap into it records.
Enabled(m) == \/ m = "SUPERVISOR" /\ SIE \in csrs["sstatus"]
              \/ m = "MACHINE" /\ MIE \in csrs["mstatus"]
Interrupted(m) == [from |-> mode, ie |-> Enabled(m)]

RecordFrame ==
  /\ sframe' = IF mode' = "SUPERVISOR" THEN Interrupted(mode') ELSE sframe
  /\ mframe' = IF mode' = "MACHINE" THEN Interrupted(mode') ELSE mframe
  /\ UNCHANGED cur

CatchTrapH == CatchTrap /\ RecordFrame
InterruptH == Poll /\ TakeInterrupt /\ RecordFrame
NoInterruptH == Poll /\ NoInterrupt /\ UNCHANGED history

OtherH ==
  /\ \/ FetchFault \/ FetchDiverges \/ DecodeFault \/ Ecall \/ MemoryFault
     \/ Plain
     \/ \E c \in PtrCsr : \E a \in PtrOperand[c] : ZicsrPtr(c, a)
     \/ \E t \in Target : Jalr(t)
     \/ \E off \in Offset : Branch(off)
     \/ \E a \in Stray.pc : AmoPc(a)
     \/ \E m \in Stray.mode : AmoMode(m)
     \/ AmoMmu \/ AmoBeyond
  /\ UNCHANGED history

StepH ==
  \/ FetchH \/ SretH \/ MretH \/ CatchTrapH \/ InterruptH \/ NoInterruptH
  \/ OtherH
  \/ \E c \in FlagCsr, op \in {"CSRRW", "CSRRS", "CSRRC"} :
       \E w \in Operand[c] : ZicsrH(c, op, w)
  \/ \E c \in FlagCsr : \E w \in Stray.csrs[c] : AmoCsrH(c, w)

SpecH == InitH /\ [][StepH]_varsH

-----------------------------------------------------------------------------
\* The guest starts at an even address and writes even addresses to the epcs,
\* as the ISA, where bit 0 of an epc is always zero, makes it; and to pc, where its
\* atomics hit pc.
EvenGuest ==
  \A a \in {Entry} \cup PtrOperand["sepc"] \cup PtrOperand["mepc"] \cup Stray.pc :
    a % 2 = 0

\* Exceptions are precise: when the catch block is done, the epc of the mode it
\* entered is the address of the very instruction that threw, not of the one
\* Fetch had already moved pc to, and the cause is the one thrown.
PreciseException ==
  EvenGuest /\ phase = "poll" /\ raised # NoTrap =>
    /\ ptrs[EpcOf(mode)] = cur
    /\ csrs[CauseOf(mode)] = CauseWord(raised, FALSE)

\* sstatus keeps what the last trap to SUPERVISOR interrupted until SRET or a
\* guest write, whatever traps to MACHINE and returns from them come between.
SupervisorFrameKept ==
  sframe # NoFrame =>
    /\ (SPP \in csrs["sstatus"]) <=> (sframe.from = "SUPERVISOR")
    /\ (SPIE \in csrs["sstatus"]) <=> sframe.ie

\* SRET undoes the trap it returns from: the mode and SIE are again those the
\* trap interrupted.
SretUndoesTrap ==
  [][Sret /\ sframe # NoFrame =>
       /\ mode' = sframe.from
       /\ (SIE \in csrs'["sstatus"]) <=> sframe.ie]_varsH

\* MRET gives MIE back the value it had before the trap, through MPIE.
MretRestoresEnable ==
  [][Mret /\ mframe # NoFrame =>
       (MIE \in csrs'["mstatus"] <=> mframe.ie)]_varsH
=============================================================================
