------------------------------- MODULE MCEmulator -------------------------------
(***************************************************************************)
(* Instance of Emulator for TLC: RAM is addresses 4 to 11 of 16, two words *)
(* of instructions, a stub lies at 2.  Files have six bytes, the header in *)
(* the first and the table behind it.                                      *)
(*                                                                         *)
(* Most files are for the loader: segments before, across the borders of,  *)
(* in and behind RAM, one with every choice of sizes or two from a smaller *)
(* choice, with an entry point where nothing can be fetched.  The programs *)
(* run: one or no word of code, an entry at it, behind it, across the end  *)
(* of RAM or in the stub.  The guest can jump to its start and on, raise   *)
(* its timer interrupt and enable it, set its trap vector, turn Sv39 on,   *)
(* by a write of satp or by an atomic that hits the MMU, and store to the  *)
(* last byte.                                                              *)
(***************************************************************************)
EXTENDS Emulator

MCSegments ==
  [load : BOOLEAN, vaddr : {0, 2, 3, 4, 6, 11, 12, 14}, offset : {0, 3, 5, 6},
   filesz : 0 .. 3, memsz : 0 .. 3]
MCPairs ==
  {s \in MCSegments :
     s.load /\ s.vaddr \in {3, 4, 6, 14} /\ s.offset = 3 /\ s.filesz \in {0, 2} /\ s.memsz # 0}

File(start, phoff, segments) ==
  [readable |-> TRUE, magic |-> TRUE, riscv64 |-> TRUE, size |-> 6, entry |-> start,
   phoff |-> phoff, segments |-> segments]
Good == {File(0, 1, <<s>>) : s \in MCSegments} \cup
        {File(0, 1, <<s, t>>) : s \in MCPairs, t \in MCPairs}
Bad == {[File(0, 1, <<>>) EXCEPT !.readable = FALSE], [File(0, 1, <<>>) EXCEPT !.magic = FALSE],
        [File(0, 1, <<>>) EXCEPT !.riscv64 = FALSE], [File(0, 0, <<>>) EXCEPT !.size = 0],
        File(0, 7, <<>>)} \cup {File(0, 5, <<s, s>>) : s \in MCPairs}
Text == [load |-> TRUE, vaddr |-> 4, offset |-> 2, filesz |-> 4, memsz |-> 8]
Programs == {File(e, 1, <<Text>>) : e \in {2, 4, 10}} \cup {File(4, 0, <<>>)}
MCFiles == Good \cup Bad \cup Programs

MCFlagCsr == {"sstatus", "scause", "stval", "satp", "mstatus", "medeleg", "mideleg", "mie",
              "mip", "mcause", "mtval"}
MCOperand ==
  [c \in MCFlagCsr |-> CASE c \in {"mie", "mip"} -> {{7}} [] c = "mstatus" -> {{3}}
                         [] c = "satp" -> {{63}} [] OTHER -> {}]
MCPtrOperand ==
  [c \in {"stvec", "sepc", "mtvec", "mepc"} |-> IF c = "mtvec" THEN {4} ELSE {}]
MCStray ==
  [csrs |-> [c \in MCFlagCsr |-> {}], pc |-> {}, mode |-> {}, paging |-> {"Sv39"},
   root |-> {{5}}, beyond |-> FALSE]
MCStored == {Zero, 9}
MCRootGarbage == {{}}

\* The hypothesis of the theorem LostForEver holds of this machine.
ASSUME MCLayout == NothingBehindRam
=============================================================================
