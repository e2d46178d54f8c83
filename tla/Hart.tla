--------------------------------- MODULE Hart ---------------------------------
(***************************************************************************)
(* The control core of the emulated RISC-V hart: CPU::Step and what it     *)
(* calls (CPU::Fetch, CPU::HandleTrap, CPU::HandleInterrupts), the         *)
(* instructions that change privilege or CSRs (SRET, MRET, ECALL, Zicsr),  *)
(* CPU::UpdatePagingMode, which copies satp into the MMU, and the loop of  *)
(* main.cpp that catches what Step lets out.                               *)
(*                                                                         *)
(* A CSR or register word is the set of its bit positions that are 1, so   *)
(* "|", "&" and "& ~" of the code are union, intersection and difference,  *)
(* and "(w >> b) & 1" is b \in w.  The program counter and the CSRs that   *)
(* hold addresses are numbers counted modulo AddrSpace (2^64 in the code). *)
(* The guest program is arbitrary: every Step may execute any instruction. *)
(*                                                                         *)
(* Most of the atomics index CPU::regs with a register's value and without *)
(* a check.  The members of CPU follow each other in memory, so they write *)
(* pc, a CSR, priv_mode or a field of the MMU; in the phase "wild" such a  *)
(* write has hit anything else, and the model says nothing of what follows.*)
(***************************************************************************)
EXTENDS Integers, FiniteSetsExt

CONSTANTS
  AddrSpace,   \* number of addresses; pc arithmetic is modulo AddrSpace
  Fetchable,   \* addresses at which a 4-byte MMU::Load completes
  Entry,       \* entry point of the ELF image
  RootGarbage, \* values the uninitialised MMU::root_page_table may hold
  Target,      \* addresses a JALR of the guest computes
  Offset,      \* immediates of the guest's branches and JALs
  Operand,     \* [FlagCsr -> set of words the guest combines with that CSR]
  PtrOperand,  \* [PtrCsr -> set of addresses the guest writes to that CSR]
  Stray        \* what its atomics write outside CPU::regs

Addr == 0 .. AddrSpace - 1
Bit  == 0 .. 63
Word == SUBSET Bit

\* CSRs the code reads or writes outside the Zicsr instructions, and mideleg,
\* which cpu.h names; the ones holding an address are PtrCsr.
FlagCsr == {"sstatus", "scause", "stval", "satp", "mstatus", "medeleg",
            "mideleg", "mie", "mip", "mcause", "mtval"}
PtrCsr  == {"stvec", "sepc", "mtvec", "mepc"}

Mode == {"USER", "SUPERVISOR", "MACHINE"}

\* Bits of sstatus and mstatus, satp.MODE (tested by its top bit), satp.PPN.
SIE  == 1
SPIE == 5
SPP  == 8
MIE  == 3
MPIE == 7
MPP  == {11, 12}
SatpMode == 63
InterruptBit == 63
Low32 == 0 .. 31
PpnBits == 0 .. 43

\* enum MIP: an interrupt is pending at the bit equal to its cause code.
Interrupts == {1, 3, 5, 7, 9, 11}

\* Exceptions an execute function can throw: load and store access faults and
\* the environment calls from U, S and M mode.
LoadAccessFault == 5
StoreAMOAccessFault == 7
ExceptionCode == {LoadAccessFault, StoreAMOAccessFault, 8, 9, 11}
NoTrap == -1

\* The members of CPU an index outside regs can name, and the values written there;
\* "beyond" is whether the guest hits anything else.
StrayWrites ==
  [csrs : [FlagCsr -> SUBSET Word], pc : SUBSET Addr, mode : SUBSET Mode,
   paging : SUBSET {"Bare", "Sv39"}, root : SUBSET Word, beyond : BOOLEAN]

ASSUME AddrSpaceAssumption == AddrSpace \in Nat \ {0} /\ AddrSpace % 2 = 0
ASSUME GuestAssumption ==
  /\ Fetchable \subseteq Addr /\ Entry \in Addr /\ Target \subseteq Addr
  /\ Offset \subseteq {off \in Int : off % 2 = 0}
  /\ RootGarbage \subseteq Word
  /\ Operand \in [FlagCsr -> SUBSET Word]
  /\ PtrOperand \in [PtrCsr -> SUBSET Addr]
  /\ Stray \in StrayWrites

VARIABLES
  phase,  \* where Step is: "fetch", "execute", "trap", "poll"; "crashed" once
          \* the host process is gone, "wild" after a write outside CPU
  pc, mode, csrs, ptrs,
  raised, \* the exception Step's catch block handles, NoTrap if none
  except, \* main's flag: the last Step let an exception out
  paging, root  \* MMU::paging_mode and MMU::root_page_table

vars == <<phase, pc, mode, csrs, ptrs, raised, except, paging, root>>
mmu  == <<paging, root>>

TypeOK ==
  /\ phase \in {"fetch", "execute", "trap", "poll", "crashed", "wild"}
  /\ pc \in Addr
  /\ mode \in Mode
  /\ csrs \in [FlagCsr -> Word]
  /\ ptrs \in [PtrCsr -> Addr]
  /\ raised \in ExceptionCode \cup {NoTrap}
  /\ except \in BOOLEAN
  /\ paging \in {"Bare", "Sv39"}
  /\ root \in Word

Init ==
  /\ phase = "fetch"
  /\ pc = Entry
  /\ mode = "MACHINE"
  /\ csrs = [c \in FlagCsr |-> {}]
  /\ ptrs = [c \in PtrCsr |-> 0]
  /\ raised = NoTrap
  /\ except = FALSE
  /\ paging = "Bare"
  /\ root \in RootGarbage

-----------------------------------------------------------------------------
(***************************************************************************)
(* Helpers: addresses, status bits, causes, and the write of a CSR.        *)
(***************************************************************************)

ClearBit0(a) == a - (a % 2)

\* The conditional expressions that copy one status bit onto another.
CopyBit(w, from, to) == IF from \in w THEN w \cup {to} ELSE w \ {to}

CauseNumber(code, intr) == code + (IF intr THEN AddrSpace \div 2 ELSE 0)
CauseWord(code, intr) ==
  {b \in 0 .. 3 : (code \div 2^b) % 2 = 1} \cup
    (IF intr THEN {InterruptBit} ELSE {})

\* Mutant of TrapVector: exceptions are vectored as well.
TrapVectorAlways(tvec, code, intr) ==
  LET vec == IF tvec % 2 = 1 THEN 4 * CauseNumber(code, intr) ELSE 0
  IN  (ClearBit0(tvec) + vec) % AddrSpace

\* The pc a trap jumps to: vectored only for interrupts, when bit 0 is set.
TrapVector(tvec, code, intr) ==
  LET vec == IF intr /\ tvec % 2 = 1 THEN 4 * CauseNumber(code, intr) ELSE 0
  IN  (ClearBit0(tvec) + vec) % AddrSpace

UpdatePagingMode(satp) ==
  /\ paging' = IF SatpMode \in satp THEN "Sv39" ELSE "Bare"
  /\ root' = satp \cap PpnBits

\* Mutant of SetCsr: the MMU is told before the CSR is assigned.
SetCsrTellsFirst(c, val) ==
  /\ csrs' = [csrs EXCEPT ![c] = val]
  /\ IF c = "satp" THEN UpdatePagingMode(csrs[c]) ELSE UNCHANGED mmu

SetCsr(c, val) ==
  /\ csrs' = [csrs EXCEPT ![c] = val]
  /\ IF c = "satp" THEN UpdatePagingMode(val) ELSE UNCHANGED mmu

-----------------------------------------------------------------------------
(***************************************************************************)
(* CPU::HandleTrap(code) with the CSRs as its caller left them in cs.  It  *)
(* runs after Fetch has moved pc past the instruction, hence pc - 4.       *)
(***************************************************************************)

\* Mutants of TrapPc: unsigned wrap-around forgotten; pc not moved back.
TrapPcSigned == ClearBit0(pc - 4)
TrapPcNext   == ClearBit0(pc)

TrapPc == ClearBit0((pc - 4) % AddrSpace)

\* Mutant of Delegated: the test of the current mode is dropped.
DelegatedFromAnyMode(code, cs) == code \in cs["medeleg"]

\* medeleg decides for interrupts too.
Delegated(code, cs) == mode # "MACHINE" /\ code \in cs["medeleg"]

\* Mutant of TrapToSupervisor: SPP is set but never cleared.
TrapToSupervisorStaleSpp(code, intr, cs) ==
  LET status == CopyBit(cs["sstatus"], SIE, SPIE) \ {SIE}
  IN  /\ mode' = "SUPERVISOR"
      /\ pc' = TrapVector(ptrs["stvec"], code, intr)
      /\ ptrs' = [ptrs EXCEPT !["sepc"] = TrapPc]
      /\ csrs' = [cs EXCEPT
           !["scause"] = CauseWord(code, intr), !["stval"] = {},
           !["sstatus"] = IF mode = "USER" THEN status ELSE status \cup {SPP}]

TrapToSupervisor(code, intr, cs) ==
  LET status == CopyBit(cs["sstatus"], SIE, SPIE) \ {SIE, SPP}
  IN  /\ mode' = "SUPERVISOR"
      /\ pc' = TrapVector(ptrs["stvec"], code, intr)
      /\ ptrs' = [ptrs EXCEPT !["sepc"] = TrapPc]
      /\ csrs' = [cs EXCEPT
           !["scause"] = CauseWord(code, intr), !["stval"] = {},
           !["sstatus"] = IF mode = "USER" THEN status ELSE status \cup {SPP}]

\* Mutants of TrapToMachine: MIE stays set; MIE is cleared before it is saved.
TrapToMachineKeepsMie(code, intr, cs) ==
  /\ mode' = "MACHINE"
  /\ pc' = TrapVector(ptrs["mtvec"], code, intr)
  /\ ptrs' = [ptrs EXCEPT !["mepc"] = TrapPc]
  /\ csrs' = [cs EXCEPT
       !["mcause"] = CauseWord(code, intr), !["mtval"] = {},
       !["mstatus"] = CopyBit(@, MIE, MPIE) \ MPP]
TrapToMachineClearsFirst(code, intr, cs) ==
  /\ mode' = "MACHINE"
  /\ pc' = TrapVector(ptrs["mtvec"], code, intr)
  /\ ptrs' = [ptrs EXCEPT !["mepc"] = TrapPc]
  /\ csrs' = [cs EXCEPT
       !["mcause"] = CauseWord(code, intr), !["mtval"] = {},
       !["mstatus"] = CopyBit(@ \ {MIE}, MIE, MPIE) \ MPP]

TrapToMachine(code, intr, cs) ==
  /\ mode' = "MACHINE"
  /\ pc' = TrapVector(ptrs["mtvec"], code, intr)
  /\ ptrs' = [ptrs EXCEPT !["mepc"] = TrapPc]
  /\ csrs' = [cs EXCEPT
       !["mcause"] = CauseWord(code, intr), !["mtval"] = {},
       !["mstatus"] = CopyBit(@, MIE, MPIE) \ ({MIE} \cup MPP)]

HandleTrap(code, intr, cs) ==
  IF Delegated(code, cs)
  THEN TrapToSupervisor(code, intr, cs)
  ELSE TrapToMachine(code, intr, cs)

(***************************************************************************)
(* CPU::HandleInterrupts: returns at once when the current mode masks      *)
(* interrupts, else takes the first pending one in the key order of        *)
(* interrupt_handlers, a std::map, that is in ascending bit order.         *)
(***************************************************************************)

Masked ==
  \/ mode = "MACHINE" /\ MIE \notin csrs["mstatus"]
  \/ mode = "SUPERVISOR" /\ SIE \notin csrs["sstatus"]

Pending == csrs["mie"] \cap csrs["mip"] \cap Interrupts

\* Mutant of FirstHandler: the map is walked from its last key.
LastHandler == Max(Pending)

FirstHandler == Min(Pending)

\* Mutant of TakeInterrupt: the pending bit is not cleared.
TakeInterruptKeepsBit ==
  /\ ~Masked
  /\ Pending # {}
  /\ HandleTrap(FirstHandler, TRUE, csrs)

TakeInterrupt ==
  /\ ~Masked
  /\ Pending # {}
  /\ HandleTrap(FirstHandler, TRUE,
                [csrs EXCEPT !["mip"] = @ \ {FirstHandler}])

NoInterrupt ==
  /\ Masked \/ Pending = {}
  /\ UNCHANGED <<pc, mode, csrs, ptrs>>
-----------------------------------------------------------------------------
(***************************************************************************)
(* One Step: Fetch, Decode and execute, the catch block, HandleInterrupts. *)
(***************************************************************************)


\* main clears its flag and calls Step; Fetch loads the word at pc.
Fetch ==
  /\ phase = "fetch"
  /\ paging = "Bare"
  /\ pc \in Fetchable
  /\ pc' = (pc + 4) % AddrSpace
  /\ phase' = "execute"
  /\ except' = FALSE
  /\ UNCHANGED <<mode, csrs, ptrs, raised, mmu>>

\* The Load of Fetch throws before pc is advanced and outside Step's try
\* block: main catches, and neither HandleTrap nor HandleInterrupts runs.
FetchFault ==
  /\ phase = "fetch"
  /\ paging = "Bare"
  /\ pc \notin Fetchable
  /\ except' = TRUE
  /\ UNCHANGED <<phase, pc, mode, csrs, ptrs, raised, mmu>>

\* Under Sv39 MMU::Load and MMU::Translate call each other without end, so
\* the host runs out of stack in the first access, which is this fetch.
FetchDiverges ==
  /\ phase = "fetch"
  /\ paging = "Sv39"
  /\ phase' = "crashed"
  /\ UNCHANGED <<pc, mode, csrs, ptrs, raised, except, mmu>>

\* Decode throws outside the try block too, after Fetch has advanced pc.
DecodeFault ==
  /\ phase = "execute"
  /\ phase' = "fetch"
  /\ except' = TRUE
  /\ UNCHANGED <<pc, mode, csrs, ptrs, raised, mmu>>

\* An execute function that returns; the caller says what else it changes.
Execute ==
  /\ phase = "execute"
  /\ phase' = "poll"
  /\ UNCHANGED <<raised, except>>

\* An execute function that throws: the catch block is next.
Throw(code) ==
  /\ phase = "execute"
  /\ phase' = "trap"
  /\ raised' = code
  /\ UNCHANGED <<pc, mode, csrs, ptrs, except, mmu>>

\* Mutant of Sret: SIE is not restored from SPIE.
SretKeepsSie ==
  /\ Execute
  /\ pc' = ptrs["sepc"]
  /\ mode' = IF SPP \in csrs["sstatus"] THEN "SUPERVISOR" ELSE "USER"
  /\ csrs' = [csrs EXCEPT !["sstatus"] = (@ \cup {SPIE}) \ {SPP}]
  /\ UNCHANGED <<ptrs, mmu>>

Sret ==
  /\ Execute
  /\ pc' = ptrs["sepc"]
  /\ mode' = IF SPP \in csrs["sstatus"] THEN "SUPERVISOR" ELSE "USER"
  /\ csrs' = [csrs EXCEPT !["sstatus"] =
                (CopyBit(@, SPIE, SIE) \cup {SPIE}) \ {SPP}]
  /\ UNCHANGED <<ptrs, mmu>>

\* The MPP encodings the code tells apart: 2 is MACHINE, 1 is SUPERVISOR,
\* and 0 and 3 are USER.
ModeOfMpp(mstatus) ==
  CASE mstatus \cap MPP = {12} -> "MACHINE"
    [] mstatus \cap MPP = {11} -> "SUPERVISOR"
    [] OTHER -> "USER"

Mret ==
  /\ Execute
  /\ pc' = ptrs["mepc"]
  /\ mode' = ModeOfMpp(csrs["mstatus"])
  /\ csrs' = [csrs EXCEPT !["mstatus"] =
                (CopyBit(@, MPIE, MIE) \cup {MPIE}) \ MPP]
  /\ UNCHANGED <<ptrs, mmu>>

Ecall ==
  Throw(CASE mode = "MACHINE" -> 11 [] mode = "SUPERVISOR" -> 9
          [] mode = "USER" -> 8)

\* A load or store no device accepts.
MemoryFault == \E code \in {LoadAccessFault, StoreAMOAccessFault} : Throw(code)

\* The old value is read into a uint32_t before it is combined and written.
CsrResult(op, old, w) ==
  CASE op = "CSRRW" -> w
    [] op = "CSRRS" -> (old \cap Low32) \cup w
    [] op = "CSRRC" -> (old \cap Low32) \ w

\* CSRRW, CSRRS, CSRRC and their immediate forms on a CSR of FlagCsr.  A word
\* of Operand[c] is rs1's value or the 5-bit immediate; {} makes a pure read.
Zicsr(c, op, w) ==
  /\ Execute
  /\ SetCsr(c, CsrResult(op, csrs[c], w))
  /\ UNCHANGED <<pc, mode, ptrs>>

\* The same instructions on a CSR that holds an address: whichever of them
\* runs, it leaves some address there, as does an atomic that hits it.
ZicsrPtr(c, a) ==
  /\ Execute
  /\ ptrs' = [ptrs EXCEPT ![c] = a]
  /\ UNCHANGED <<pc, mode, csrs, mmu>>

\* JALR clears bit 0 of the target; branches and JAL are relative to the
\* instruction, that is to pc - 4.
Jalr(t) ==
  /\ Execute
  /\ pc' = ClearBit0(t)
  /\ UNCHANGED <<mode, csrs, ptrs, mmu>>

Branch(off) ==
  /\ Execute
  /\ pc' = (pc + off - 4) % AddrSpace
  /\ UNCHANGED <<mode, csrs, ptrs, mmu>>

\* Every other instruction: arithmetic, completed loads and stores, an atomic that
\* hits a register, RAM or a CSR the code never looks at, FENCE, FENCE.I, EBREAK, a
\* branch not taken, a read of an address CSR.
Plain == Execute /\ UNCHANGED <<pc, mode, csrs, ptrs, mmu>>

(***************************************************************************)
(* AMO*.W and AMOMIN.D to AMOMAXU.D call SetReg(GetReg(rs1), value): an    *)
(* rs1 of -1 is pc, 32 plus its number a CSR, the next indices the mode    *)
(* and the MMU.  A CSR written this way bypasses SetCsr.                   *)
(***************************************************************************)

AmoCsr(c, w) ==
  /\ Execute
  /\ csrs' = [csrs EXCEPT ![c] = w]
  /\ UNCHANGED <<pc, mode, ptrs, mmu>>

AmoPc(a) ==
  /\ Execute
  /\ pc' = a
  /\ UNCHANGED <<mode, csrs, ptrs, mmu>>

AmoMode(m) ==
  /\ Execute
  /\ mode' = m
  /\ UNCHANGED <<pc, csrs, ptrs, mmu>>

AmoMmu ==
  /\ Execute
  /\ \/ paging' \in Stray.paging /\ UNCHANGED root
     \/ root' \in Stray.root /\ UNCHANGED paging
  /\ UNCHANGED <<pc, mode, csrs, ptrs>>

\* Any other index, or a value for which mode and paging have no state here.
AmoBeyond ==
  /\ Stray.beyond
  /\ phase = "execute"
  /\ phase' = "wild"
  /\ UNCHANGED <<pc, mode, csrs, ptrs, raised, except, mmu>>

Atomic ==
  \/ \E c \in FlagCsr : \E w \in Stray.csrs[c] : AmoCsr(c, w)
  \/ \E a \in Stray.pc : AmoPc(a)
  \/ \E m \in Stray.mode : AmoMode(m)
  \/ AmoMmu \/ AmoBeyond

\* The catch block of Step.
CatchTrap ==
  /\ phase = "trap"
  /\ HandleTrap(raised, FALSE, csrs)
  /\ phase' = "poll"
  /\ UNCHANGED <<raised, except, mmu>>

\* HandleInterrupts, the last thing Step does.
Poll ==
  /\ phase = "poll"
  /\ TakeInterrupt \/ NoInterrupt
  /\ phase' = "fetch"
  /\ raised' = NoTrap
  /\ UNCHANGED <<except, mmu>>

Step ==
  \/ Fetch \/ FetchFault \/ FetchDiverges \/ DecodeFault
  \/ Sret \/ Mret \/ Ecall \/ MemoryFault \/ Plain
  \/ \E c \in FlagCsr, op \in {"CSRRW", "CSRRS", "CSRRC"} :
       \E w \in Operand[c] : Zicsr(c, op, w)
  \/ \E c \in PtrCsr : \E a \in PtrOperand[c] : ZicsrPtr(c, a)
  \/ \E t \in Target : Jalr(t)
  \/ \E off \in Offset : Branch(off)
  \/ Atomic
  \/ CatchTrap \/ Poll

Spec == Init /\ [][Step]_vars
FairSpec == Spec /\ WF_vars(Step)

-----------------------------------------------------------------------------
(***************************************************************************)
(* Properties.                                                             *)
(***************************************************************************)

\* The atomics of a guest that keep off satp and the MMU's fields.
SparesPaging == Stray.csrs["satp"] = {} /\ Stray.paging = {} /\ Stray.root = {}

\* For such a guest the MMU always holds what satp last said: of the code itself
\* nothing but SetCsr writes satp, HandleTrap, which assigns to csrs directly, never
\* hits it, and the uninitialised root_page_table is never in use.
PagingCoherent ==
  SparesPaging =>
    /\ (paging = "Sv39") <=> (SatpMode \in csrs["satp"])
    /\ paging = "Sv39" => root = csrs["satp"] \cap PpnBits


\* An exception and an interrupt are never taken in the same Step: the status
\* bits HandleTrap clears make the poll that follows it return at once, so the
\* epc and cause of the exception survive until its handler runs.
ExceptionMasksInterrupts == phase = "poll" /\ raised # NoTrap => Masked

\* Neither an exception nor an interrupt ever lowers the privilege mode,
\* whatever the delegation bits say.
Below(m) == CASE m = "USER" -> {}
              [] m = "SUPERVISOR" -> {"USER"}
              [] m = "MACHINE" -> {"USER", "SUPERVISOR"}
TrapNeverLowersPrivilege ==
  [][(phase \in {"trap", "poll"}) => mode' \notin Below(mode)]_vars

EpcOf(m)   == IF m = "SUPERVISOR" THEN "sepc" ELSE "mepc"
CauseOf(m) == IF m = "SUPERVISOR" THEN "scause" ELSE "mcause"

\* Interrupts are delivered exactly once.  If the mode lets interrupts through and
\* some are pending and enabled, the poll delivers the one with the lowest number: its
\* bit alone leaves mip, and its cause is recorded for the mode that handles it.  If
\* not, the poll changes nothing.  Nothing else but an instruction changes mip.
InterruptDelivery ==
  [][LET deliverable == csrs["mie"] \cap csrs["mip"] \cap Interrupts
     IN  /\ phase = "poll" /\ (Masked \/ deliverable = {}) =>
              UNCHANGED <<pc, mode, csrs, ptrs>>
         /\ phase = "poll" /\ ~Masked =>
              \A b \in deliverable :
                (\A d \in deliverable : b <= d) =>
                  /\ csrs'["mip"] = csrs["mip"] \ {b}
                  /\ csrs'[CauseOf(mode')] = CauseWord(b, TRUE)
         /\ phase \notin {"execute", "poll"} => csrs'["mip"] = csrs["mip"]]_vars

\* A handler starts where the guest has said, although the cause that is multiplied
\* by 4 has bit 63 set in an interrupt: exceptions at the base of the mode's vector,
\* interrupts, if it is a vector, 4 bytes per cause code behind it.
TvecOf(m) == IF m = "SUPERVISOR" THEN "stvec" ELSE "mtvec"
VectoredDispatch ==
  [][LET tvec == ptrs[TvecOf(mode')]
         delivered == csrs["mip"] \ csrs'["mip"]
     IN  /\ phase = "trap" => pc' = ClearBit0(tvec)
         /\ phase = "poll" =>
              \A b \in delivered :
                pc' = IF tvec % 2 = 1 THEN (ClearBit0(tvec) + 4 * b) % AddrSpace
                      ELSE ClearBit0(tvec)]_vars

\* The supervisor software interrupt, first in the handler map, cannot be
\* starved by the others, however often the guest raises them: it stays pending
\* and enabled for ever only if, from some time on, the hart masks interrupts or
\* has stopped executing (pc where nothing can be fetched, the host crashed, or an
\* atomic damaged what is not the hart's).
Stopped == phase \in {"crashed", "wild"} \/ pc \notin Fetchable
SoftwareInterruptServed ==
  <>[](1 \in Pending) => <>[](Masked \/ Stopped)

\* README.md:5: the privileged ISA is implemented; there an interrupt's epc is
\* the address of the instruction that was not executed yet.
InterruptResumesAtNext ==
  [][phase = "poll" /\ csrs'["mip"] # csrs["mip"] =>
       ptrs'[EpcOf(mode')] = pc]_vars
=============================================================================
