-------------------------------- MODULE Emulator --------------------------------
(***************************************************************************)
(* The program: main loads the file (Boot), creates the CPU and calls Step *)
(* for ever (Hart), on the RAM that the loader filled.  The two share ram  *)
(* and pc: what the hart fetches is what was loaded, or stored since, and  *)
(* a word of zero is no instruction.                                       *)
(***************************************************************************)
EXTENDS Boot

CONSTANTS
  Stubs,       \* addresses of the devices that are stubs
  Stored,      \* what the guest's stores leave in a byte of RAM
  StoreCells,  \* the bytes it stores to
  RootGarbage, Target, Offset, Operand, PtrOperand, Stray \* of Hart

VARIABLES step, mode, csrs, ptrs, raised, except, paging, root \* step is Hart's phase

hart == <<step, mode, csrs, ptrs, raised, except, paging, root>>
emuVars == <<vars, hart>>

\* A load whose first byte is in RAM or in a stub device does not throw.
RamAddr == KERNBASE .. KERNBASE + MEMORY_SIZE - 1
Fetchable == RamAddr \cup Stubs

H == INSTANCE Hart WITH
       AddrSpace <- Modulus, Entry <- 0, phase <- step

ASSUME EmulatorAssumption ==
  /\ Modulus % 2 = 0 /\ Stubs \subseteq Word
  /\ Stored \subseteq {Zero} \cup Nat /\ StoreCells \subseteq Cell
  /\ Target \subseteq Word /\ Offset \subseteq {off \in Int : off % 2 = 0}
  /\ RootGarbage \subseteq SUBSET (0 .. 63)
  /\ Operand \in [H!FlagCsr -> SUBSET H!Word]
  /\ PtrOperand \in [H!PtrCsr -> SUBSET Word]
  /\ Stray \in H!StrayWrites

-----------------------------------------------------------------------------
\* The members of CPU and MMU as their constructors leave them.
EmuInit ==
  /\ Init
  /\ step = "fetch" /\ mode = "MACHINE" /\ raised = H!NoTrap /\ except = FALSE
  /\ csrs = [c \in H!FlagCsr |-> {}] /\ ptrs = [c \in H!PtrCsr |-> 0]
  /\ paging = "Bare" /\ root \in RootGarbage

\* LoadELF64 and main up to the loop.
Load == Next /\ UNCHANGED hart

EnterLoop ==
  /\ phase = "created"
  /\ Go("running")
  /\ UNCHANGED <<load, cpu, hart>>

\* The four bytes at an address lie in RAM and are zero: a word that Decode throws
\* at.  A byte of the file may be anything, zero or not.
ZeroByte(a) == a \in RamAddr /\ ram[a - KERNBASE] = Zero
ZeroWord(a) == \A k \in 0 .. 3 : ZeroByte(a + k)

\* A store that completes, as an atomic that hits RAM, is one of Hart's plain
\* instructions.
Stores == \E c \in StoreCells, b \in Stored : ram' = [ram EXCEPT ![c] = b]

\* One Step on what is in RAM.
Execute == (H!Step /\ UNCHANGED ram) \/ (H!Plain /\ Stores)

\* Mutant of Run: Decode takes a word of zero for an instruction.
RunDecodesZero ==
  /\ phase = "running"
  /\ Execute
  /\ UNCHANGED <<option, file, phase, next, mem, entry>>

\* The loop of main.
Run ==
  /\ phase = "running"
  /\ IF step = "execute" /\ ZeroWord((pc - 4) % Modulus)
     THEN H!DecodeFault /\ UNCHANGED ram ELSE Execute
  /\ UNCHANGED <<option, file, phase, next, mem, entry>>

EmuNext == Load \/ EnterLoop \/ Run
EmuSpec == EmuInit /\ [][EmuNext]_emuVars

\* main is one thread that never waits but for the key it reads after each Step,
\* and at the end of its input not even for that.
FairEmuSpec == EmuSpec /\ WF_emuVars(EmuNext)

-----------------------------------------------------------------------------
\* A file that the checks of the loader are not meant for: for this machine, with
\* every segment in RAM, none at the very end of RAM or of the file.
Fits ==
  /\ option = "-elf" /\ file.readable /\ file.magic /\ file.riscv64
  /\ file.size >= EhdrSize /\ file.phoff < file.size
  /\ WellFormed
  /\ \A k \in Loads :
       LET s == file.segments[k]
       IN  /\ KERNBASE <= s.vaddr /\ s.vaddr + s.memsz <= KERNBASE + MEMORY_SIZE
           /\ s.vaddr \in RamAddr /\ s.offset < file.size

\* Every such program is run: no check of the loader stops it.
FittingProgramRuns == Fits ~> phase = "running"

\* A hart that runs into words of zero up to the end of RAM is lost: Decode throws
\* outside the try block, so that no trap and no pending interrupt takes it back, and
\* it ends at the first address behind RAM for ever.
Lost ==
  /\ phase = "running" /\ step = "fetch" /\ paging = "Bare" /\ pc \in RamAddr
  /\ (KERNBASE + MEMORY_SIZE - pc) % 4 = 0
  /\ \A a \in pc .. KERNBASE + MEMORY_SIZE - 1 : ZeroByte(a)
Stuck == phase = "running" /\ step = "fetch" /\ pc = KERNBASE + MEMORY_SIZE
LostIsStuck == Lost ~> []Stuck

\* On its way and there, no Step of a lost hart reaches its catch block or its poll: no
\* trap is entered and no interrupt taken, however many are enabled and pending.
LostNeverPolls == [](Lost => [](step \in {"fetch", "execute"}))

\* Memory ends inside the address space and no device begins at its end, as in config.h.
NothingBehindRam == KERNBASE + MEMORY_SIZE \in Word \ Stubs
=============================================================================
