---------------------------------- MODULE Boot ----------------------------------
(***************************************************************************)
(* From main to the first Step: the options, LoadELF64 with its checks and *)
(* exceptions, and the hart it is loaded into.  Emulator goes on from      *)
(* there, in the phase "running".                                          *)
(*                                                                         *)
(* The byte of the file at position p is represented by p, and a byte of   *)
(* memory by the position it was copied from, or Zero.  Addresses and      *)
(* sizes are uint64_t, here modulo Modulus.  A memcpy outside its arrays   *)
(* is undefined behaviour, and ends in the phase "undefined".              *)
(***************************************************************************)
EXTENDS Integers, Sequences

CONSTANTS
  Modulus,           \* 2^64
  KERNBASE, MEMORY_SIZE,
  EhdrSize, PhdrSize,
  Files,             \* what argv[2] may name
  Options            \* what argv may hold before it

Zero == -1
Word == 0 .. Modulus - 1
Segment == [load : BOOLEAN, vaddr : Word, offset : Word, filesz : Word, memsz : Word]

ASSUME BootAssumption ==
  /\ Modulus \in Nat /\ KERNBASE \in Nat \ {0} /\ MEMORY_SIZE \in Nat \ {0}
  /\ KERNBASE + MEMORY_SIZE <= Modulus
  /\ EhdrSize \in Nat \ {0} /\ PhdrSize \in Nat
  /\ \A f \in Files :
       /\ {f.readable, f.magic, f.riscv64} \subseteq BOOLEAN
       /\ f.size \in Word /\ f.entry \in Word /\ f.phoff \in Word
       /\ f.segments \in Seq(Segment)

VARIABLES
  option, file, \* argv
  phase,        \* how far main has come
  next,         \* the segment LoadSegments is at
  mem, entry,   \* its memory image, and entry_point
  ram, pc       \* of the CPU

vars == <<option, file, phase, next, mem, entry, ram, pc>>
load == <<next, mem, entry>>
cpu == <<ram, pc>>

Cell == 0 .. MEMORY_SIZE - 1
Image == [Cell -> {Zero} \cup Nat]
Empty == [i \in Cell |-> Zero]
Unset == -1 \* a variable not yet assigned

TypeOK ==
  /\ option \in Options /\ file \in Files
  /\ phase \in {"options", "open", "header", "table", "segments", "loaded", "failed",
                "created", "running", "exited", "undefined"}
  /\ next \in Nat \ {0}
  /\ mem \in Image /\ ram \in Image
  /\ entry \in Word \cup {Unset} /\ pc \in Word \cup {Unset}
  /\ phase \in {"table", "segments", "loaded"} => entry # Unset
  /\ phase \in {"created", "running"} => pc # Unset

-----------------------------------------------------------------------------
Init ==
  /\ option \in Options /\ file \in Files
  /\ phase = "options"
  /\ next = 1 /\ mem = Empty /\ entry = Unset
  /\ ram = Empty /\ pc = Unset

Go(p) == phase' = p /\ UNCHANGED <<option, file>>

\* ParseOptions, and main's branches on what it returns.
ParseOptions ==
  /\ phase = "options"
  /\ Go(IF option = "-elf" THEN "open" ELSE "exited")
  /\ UNCHANGED <<load, cpu>>

ReadIntoVector ==
  /\ phase = "open"
  /\ Go(IF file.readable THEN "header" ELSE "failed")
  /\ UNCHANGED <<load, cpu>>

\* GetHeader, and the assignment of entry_point behind it.
GetHeader ==
  /\ phase = "header"
  /\ IF file.size >= EhdrSize /\ file.magic /\ file.riscv64
     THEN Go("table") /\ entry' = file.entry
     ELSE Go("failed") /\ UNCHANGED entry
  /\ UNCHANGED <<next, mem, cpu>>

\* The program headers: .at() checks the first byte of the table only.
ReadTable ==
  /\ phase = "table"
  /\ Go(IF file.phoff >= file.size THEN "failed"
        ELSE IF file.phoff + Len(file.segments) * PhdrSize > file.size THEN "undefined"
        ELSE "segments")
  /\ UNCHANGED <<load, cpu>>

\* p_vaddr - KERNBASE, and the sum the size check is made on.
SegmentOffset(s) == (s.vaddr - KERNBASE) % Modulus
SegmentEnd(s) == (SegmentOffset(s) + s.memsz) % Modulus

\* Mutants of Refused: mem[] in place of mem.at(); a segment may not reach the end.
RefusedAtEnd(s) ==
  SegmentEnd(s) >= MEMORY_SIZE \/ SegmentOffset(s) >= MEMORY_SIZE \/ s.offset >= file.size
RefusedBySize(s) == SegmentEnd(s) > MEMORY_SIZE \/ s.offset >= file.size

\* "Segment too large", or one of the two .at().
Refused(s) ==
  \/ SegmentEnd(s) > MEMORY_SIZE
  \/ SegmentOffset(s) >= MEMORY_SIZE
  \/ s.offset >= file.size

\* The memcpy stays within mem and binary.
InBounds(s) ==
  SegmentOffset(s) + s.filesz <= MEMORY_SIZE /\ s.offset + s.filesz <= file.size

\* Mutant of Copied: as many bytes as the segment has in memory.
CopiedMemsz(s) ==
  [i \in Cell |-> LET k == i - SegmentOffset(s)
                  IN  IF 0 <= k /\ k < s.memsz THEN s.offset + k ELSE mem[i]]
Copied(s) ==
  [i \in Cell |-> LET k == i - SegmentOffset(s)
                  IN  IF 0 <= k /\ k < s.filesz THEN s.offset + k ELSE mem[i]]

\* One round of the loop over the program headers.
LoadSegment ==
  /\ phase = "segments" /\ next <= Len(file.segments)
  /\ LET s == file.segments[next]
     IN  IF ~s.load THEN UNCHANGED <<mem, phase>>
         ELSE IF Refused(s) THEN phase' = "failed" /\ UNCHANGED mem
         ELSE IF ~InBounds(s) THEN phase' = "undefined" /\ UNCHANGED mem
         ELSE mem' = Copied(s) /\ UNCHANGED phase
  /\ next' = next + 1
  /\ UNCHANGED <<option, file, entry, cpu>>

SegmentsDone ==
  /\ phase = "segments" /\ next > Len(file.segments)
  /\ Go("loaded") /\ UNCHANGED <<load, cpu>>

\* Mutant of Exit: main does not look at what LoadELF64 returned.
ExitNever ==
  /\ phase = "failed"
  /\ Go("loaded") /\ UNCHANGED <<load, cpu>>

\* LoadELF64 caught an exception and returned an empty vector: main returns -1.
Exit ==
  /\ phase = "failed"
  /\ Go("exited") /\ UNCHANGED <<load, cpu>>

\* The image, which is never larger than MEMORY_SIZE, is copied into RAM.
CreateCpu ==
  /\ phase = "loaded"
  /\ Go("created")
  /\ ram' = mem /\ pc' = entry
  /\ UNCHANGED load

Next ==
  \/ ParseOptions \/ ReadIntoVector \/ GetHeader \/ ReadTable \/ LoadSegment \/ SegmentsDone
  \/ Exit \/ CreateCpu

Spec == Init /\ [][Next]_vars

-----------------------------------------------------------------------------
(* What the ELF specification requires of a file.                          *)

Loads == {k \in DOMAIN file.segments : file.segments[k].load}

\* The bytes of a segment are in the file and its addresses do not wrap; the
\* segments do not overlap in memory.
SegmentOk(s) ==
  s.filesz <= s.memsz /\ s.offset + s.filesz <= file.size /\ s.vaddr + s.memsz <= Modulus
Disjoint(s, t) == s.vaddr + s.memsz <= t.vaddr \/ t.vaddr + t.memsz <= s.vaddr
WellFormed ==
  /\ file.phoff + Len(file.segments) * PhdrSize <= file.size
  /\ \A k \in Loads : SegmentOk(file.segments[k])
  /\ \A j, k \in Loads : j # k => Disjoint(file.segments[j], file.segments[k])

\* No memcpy leaves its arrays for a well-formed file, wherever it is linked to:
\* the size check is made on a sum that may wrap, and .at() has to catch the rest.
CopiesStayInBounds == WellFormed => phase # "undefined"

\* What the guest finds at KERNBASE + i: the byte a segment puts there, or zero.
Places(s, i) == s.vaddr <= KERNBASE + i /\ KERNBASE + i < s.vaddr + s.filesz
Expected(i) ==
  IF \E k \in Loads : Places(file.segments[k], i)
  THEN LET s == file.segments[CHOOSE k \in Loads : Places(file.segments[k], i)]
       IN  s.offset + KERNBASE + i - s.vaddr
  ELSE Zero

\* When the hart starts, RAM holds every byte of every segment at its address and
\* zero elsewhere, and pc is the program's entry point: a load that failed half-way
\* starts nothing.
StartsTheProgram ==
  phase = "created" /\ WellFormed => pc = file.entry /\ \A i \in Cell : ram[i] = Expected(i)
=============================================================================
