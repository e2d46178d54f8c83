----------------------------- MODULE EmulatorProofs -----------------------------
(***************************************************************************)
(* Boot, and the program that Boot and Hart make up.                       *)
(*                                                                         *)
(* First Boot on its own, for every size of memory, every KERNBASE below   *)
(* the end of the address space and every file: types, that no copy of a   *)
(* well-formed file's segment leaves its arrays, and what the image holds. *)
(* Then what these proofs and Hart's say of the composition: the loader's  *)
(* guarantees hold up to the loop of main, and the hart keeps its          *)
(* invariants on the RAM it was given.  Hart is instantiated in Emulator   *)
(* without its proofs; HP is the same instance with them.                  *)
(***************************************************************************)
EXTENDS Emulator, TLAPS

\* The remainder of a number in one of the two intervals it occurs in.
LEMMA ModRange ==
  \A n \in Int, m \in Nat \ {0} :
    /\ n % m \in 0 .. m - 1
    /\ n \in 0 .. m - 1 => n % m = n
    /\ n \in -m .. -1 => n % m = n + m
  OBVIOUS

\* What the assumptions say of a file and of its segments.
LEMMA FileType ==
  ASSUME file \in Files
  PROVE  /\ file.size \in Word /\ file.entry \in Word
         /\ file.segments \in Seq(Segment)
         /\ \A k \in 1 .. Len(file.segments) : file.segments[k] \in Segment
  BY BootAssumption DEF Word

\* The size check is made on a sum that may wrap, but only if the offset is behind
\* the end of memory, where mem.at() throws.  So what is copied is in bounds.
LEMMA RefusesWhatLeaves ==
  ASSUME file \in Files, NEW s \in Segment, SegmentOk(s), ~Refused(s)
  PROVE  InBounds(s)
  <1> DEFINE offset == SegmentOffset(s)
  <1>1. /\ s.vaddr \in 0 .. Modulus - 1 /\ s.memsz \in 0 .. Modulus - 1
        /\ s.filesz \in Nat /\ s.offset \in Nat
        /\ s.filesz <= s.memsz /\ s.offset + s.filesz <= file.size
        /\ s.vaddr + s.memsz <= Modulus
    BY BootAssumption DEF Segment, Word, SegmentOk
  <1>2. /\ Modulus \in Nat \ {0} /\ KERNBASE \in Nat \ {0} /\ MEMORY_SIZE \in Nat \ {0}
        /\ KERNBASE + MEMORY_SIZE <= Modulus
    BY BootAssumption
  <1> DEFINE distance == s.vaddr - KERNBASE
             sum == offset + s.memsz
  <1>3. distance \in Int /\ offset = distance % Modulus /\ SegmentEnd(s) = sum % Modulus
    BY <1>1, <1>2 DEF SegmentOffset, SegmentEnd
  <1> HIDE DEF distance
  <1>4. /\ offset \in 0 .. Modulus - 1
        /\ distance \in 0 .. Modulus - 1 => offset = distance
        /\ distance \in -Modulus .. -1 => offset = distance + Modulus
    <2>1. /\ distance % Modulus \in 0 .. Modulus - 1
          /\ distance \in 0 .. Modulus - 1 => distance % Modulus = distance
          /\ distance \in -Modulus .. -1 => distance % Modulus = distance + Modulus
      BY <1>2, <1>3, ModRange
    <2> QED
      BY <1>3, <2>1
  <1> HIDE DEF offset
  <1>5. sum \in Int
    BY <1>1, <1>4
  <1> HIDE DEF sum
  <1>6. SegmentEnd(s) \in Int /\ (sum \in 0 .. Modulus - 1 => SegmentEnd(s) = sum)
    <2>1. /\ sum % Modulus \in 0 .. Modulus - 1
          /\ sum \in 0 .. Modulus - 1 => sum % Modulus = sum
      BY <1>2, <1>5, ModRange
    <2> QED
      BY <1>3, <2>1
  <1>7. offset < MEMORY_SIZE /\ SegmentEnd(s) <= MEMORY_SIZE
    BY <1>2, <1>4, <1>6 DEF Refused, offset
  <1>8. CASE s.vaddr < KERNBASE
    <2>1. offset = s.vaddr - KERNBASE + Modulus
      BY <1>1, <1>2, <1>4, <1>8 DEF distance
    <2> QED
      BY <1>1, <1>2, <1>7, <2>1
  <1>9. CASE s.vaddr >= KERNBASE
    <2>1. offset = s.vaddr - KERNBASE
      BY <1>1, <1>2, <1>4, <1>9 DEF distance
    <2>2. sum \in 0 .. Modulus - 1 /\ sum = offset + s.memsz
      BY <1>1, <1>2, <1>9, <2>1 DEF sum
    <2>3. offset + s.filesz <= MEMORY_SIZE
      BY <1>1, <1>2, <1>4, <1>6, <1>7, <2>2
    <2> QED
      BY <1>1, <2>3 DEF InBounds, offset
  <1> QED
    BY <1>1, <1>2, <1>8, <1>9

-----------------------------------------------------------------------------
(* Types, and the phase "undefined".                                       *)

\* Copying a segment of the file into the image gives an image.
LEMMA CopiedType ==
  ASSUME mem \in Image, NEW s \in Segment
  PROVE  Copied(s) \in Image
  <1>1. SegmentOffset(s) \in Int /\ s.offset \in Nat /\ s.filesz \in Nat
    <2> DEFINE distance == s.vaddr - KERNBASE
    <2>1. Modulus \in Nat \ {0} /\ KERNBASE \in Nat
      BY BootAssumption
    <2>2. s.vaddr \in Int /\ s.offset \in Nat /\ s.filesz \in Nat
      BY <2>1 DEF Segment, Word
    <2>3. distance \in Int /\ SegmentOffset(s) = distance % Modulus
      BY <2>1, <2>2 DEF SegmentOffset
    <2> HIDE DEF distance
    <2>4. distance % Modulus \in 0 .. Modulus - 1
      BY <2>1, <2>3, ModRange
    <2> QED
      BY <2>1, <2>2, <2>3, <2>4
  <1> DEFINE k(i) == i - SegmentOffset(s)
  <1>2. ASSUME NEW i \in Cell
        PROVE  (IF 0 <= k(i) /\ k(i) < s.filesz THEN s.offset + k(i) ELSE mem[i])
                 \in {Zero} \cup Nat
    BY <1>1 DEF Cell, Image
  <1> QED
    BY <1>2 DEF Copied, Image

\* A file that is loading has an entry point, and a well-formed one that is past
\* its table has never left an array.
Inv == TypeOK /\ CopiesStayInBounds

LEMMA InvInit == Init => Inv
  BY DEF Init, Inv, TypeOK, CopiesStayInBounds, Image, Empty

LEMMA InvStep == Inv /\ [Next]_vars => Inv'
  <1> SUFFICES ASSUME Inv, [Next]_vars PROVE Inv'
    OBVIOUS
  <1> USE DEF Inv, TypeOK, CopiesStayInBounds
  <1>1. CASE ParseOptions
    BY <1>1 DEF ParseOptions, Go, load, cpu, WellFormed, Loads, SegmentOk, Disjoint
  <1>2. CASE ReadIntoVector
    BY <1>2 DEF ReadIntoVector, Go, load, cpu, WellFormed
  <1>3. CASE GetHeader
    BY <1>3, FileType DEF GetHeader, Go, cpu, Word, Unset
  <1>4. CASE ReadTable
    <2> DEFINE end == file.phoff + Len(file.segments) * PhdrSize
    <2>1. end \in Int /\ file.size \in Int
      <3>1. file.phoff \in Nat /\ file.size \in Nat /\ PhdrSize \in Nat
        BY BootAssumption DEF Word
      <3>2. Len(file.segments) \in Nat
        BY FileType
      <3> QED
        BY <3>1, <3>2
    <2>2. phase' = "undefined" => end > file.size
      BY <1>4 DEF ReadTable, Go
    <2>3. WellFormed => end <= file.size
      BY DEF WellFormed
    <2> HIDE DEF end
    <2>4. phase' = "undefined" => ~WellFormed
      BY <2>1, <2>2, <2>3
    <2>5. WellFormed' = WellFormed
      BY <1>4 DEF ReadTable, Go, WellFormed, Loads, SegmentOk, Disjoint
    <2>6. TypeOK'
      BY <1>4 DEF ReadTable, Go, load, cpu
    <2> QED
      BY <2>4, <2>5, <2>6
  <1>5. CASE LoadSegment
    <2> DEFINE s == file.segments[next]
    <2>1. s \in Segment /\ next \in DOMAIN file.segments
      <3>1. next \in 1 .. Len(file.segments)
        BY <1>5, FileType DEF LoadSegment
      <3> QED
        BY <3>1, FileType
    <2>2. mem' \in Image
      BY <1>5, <2>1, CopiedType DEF LoadSegment
    <2>3. phase' = "undefined" => ~WellFormed
      <3> SUFFICES ASSUME phase' = "undefined", WellFormed PROVE FALSE
        OBVIOUS
      <3>1. s.load /\ ~Refused(s) /\ ~InBounds(s)
        BY <1>5 DEF LoadSegment
      <3>2. SegmentOk(s)
        BY <2>1, <3>1 DEF WellFormed, Loads
      <3> QED
        BY <2>1, <3>1, <3>2, RefusesWhatLeaves
    <2>4. UNCHANGED <<option, file, entry, ram, pc>> /\ next' = next + 1
      BY <1>5 DEF LoadSegment, cpu
    <2>5. phase' \in {"segments", "failed", "undefined"} /\ phase = "segments"
      BY <1>5 DEF LoadSegment
    <2> QED
      BY <2>2, <2>3, <2>4, <2>5 DEF WellFormed, Loads, SegmentOk, Disjoint
  <1>6. CASE SegmentsDone
    BY <1>6 DEF SegmentsDone, Go, load, cpu
  <1>7. CASE Exit
    BY <1>7 DEF Exit, Go, load, cpu
  <1>8. CASE CreateCpu
    BY <1>8 DEF CreateCpu, Go, load
  <1>9. CASE UNCHANGED vars
    BY <1>9 DEF vars, WellFormed, Loads, SegmentOk, Disjoint
  <1> QED
    BY <1>1, <1>2, <1>3, <1>4, <1>5, <1>6, <1>7, <1>8, <1>9 DEF Next

LEMMA InvInvariant == Spec => []Inv
  BY InvInit, InvStep, PTL DEF Spec

\* Every variable of the loader and of main keeps its type, and an entry point is
\* there when it is used, whichever exception is thrown on the way.
THEOREM BootTypeCorrect == Spec => []TypeOK
  <1>1. Inv => TypeOK
    BY DEF Inv
  <1> QED
    BY <1>1, InvInvariant, PTL

\* No memcpy of the loader leaves its arrays on a well-formed file.
THEOREM LoaderStaysInBounds == Spec => []CopiesStayInBounds
  <1>1. Inv => CopiesStayInBounds
    BY DEF Inv
  <1> QED
    BY <1>1, InvInvariant, PTL

-----------------------------------------------------------------------------
(* What the image holds, segment by segment.                               *)

\* The numbers of a segment are numbers.
LEMMA SegmentType ==
  ASSUME NEW s \in Segment
  PROVE  /\ s.vaddr \in Nat /\ s.offset \in Nat /\ s.filesz \in Nat /\ s.memsz \in Nat
         /\ s.vaddr < Modulus
  <1>1. Modulus \in Nat
    BY BootAssumption
  <1>2. /\ s.vaddr \in 0 .. Modulus - 1 /\ s.offset \in 0 .. Modulus - 1
        /\ s.filesz \in 0 .. Modulus - 1 /\ s.memsz \in 0 .. Modulus - 1
    BY DEF Segment, Word
  <1> QED
    BY <1>1, <1>2

\* A segment that is not refused is linked to RAM: below KERNBASE the distance
\* wraps to an offset that is not below MEMORY_SIZE.
LEMMA AcceptedIsLinkedToRam ==
  ASSUME NEW s \in Segment, ~Refused(s)
  PROVE  SegmentOffset(s) = s.vaddr - KERNBASE
  <1> DEFINE distance == s.vaddr - KERNBASE
  <1>1. /\ Modulus \in Nat \ {0} /\ KERNBASE \in Nat \ {0} /\ MEMORY_SIZE \in Nat \ {0}
        /\ KERNBASE + MEMORY_SIZE <= Modulus
    BY BootAssumption
  <1>2. s.vaddr \in 0 .. Modulus - 1
    BY <1>1 DEF Segment, Word
  <1>3. /\ distance \in Int /\ SegmentOffset(s) = distance % Modulus
        /\ distance \in -Modulus .. -1 \/ distance \in 0 .. Modulus - 1
        /\ distance + Modulus >= MEMORY_SIZE
    BY <1>1, <1>2 DEF SegmentOffset
  <1>4. SegmentOffset(s) < MEMORY_SIZE
    <2>1. SegmentOffset(s) \in Int
      <3> HIDE DEF distance
      <3>1. distance % Modulus \in 0 .. Modulus - 1
        BY <1>1, <1>3, ModRange
      <3> QED
        BY <1>1, <1>3, <3>1
    <2> QED
      BY <1>1, <2>1 DEF Refused
  <1> HIDE DEF distance
  <1>5. /\ distance \in 0 .. Modulus - 1 => distance % Modulus = distance
        /\ distance \in -Modulus .. -1 => distance % Modulus = distance + Modulus
    BY <1>1, <1>3, ModRange
  <1>6. SegmentOffset(s) = distance
    BY <1>1, <1>3, <1>4, <1>5
  <1> QED
    BY <1>6 DEF distance

\* Image m is what the segments before the n-th place in memory.
Placed(m, n) ==
  \A i \in Cell :
    /\ \A k \in Loads : k < n /\ Places(file.segments[k], i) =>
         m[i] = file.segments[k].offset + KERNBASE + i - file.segments[k].vaddr
    /\ (\A k \in Loads : k < n => ~Places(file.segments[k], i)) => m[i] = Zero

\* The image grows by one segment in each round, nothing of an earlier one is lost,
\* and what main starts is the finished image.
ImageInv ==
  /\ TypeOK
  /\ phase \in {"options", "open", "header", "table"} => next = 1 /\ mem = Empty
  /\ phase \in {"table", "segments", "loaded"} => entry = file.entry
  /\ WellFormed /\ phase \in {"segments", "loaded"} => Placed(mem, next)
  /\ phase = "loaded" => next > Len(file.segments)
  /\ phase = "created" =>
       pc = file.entry /\ (WellFormed => Placed(ram, Len(file.segments) + 1))

LEMMA EmptyIsPlaced ==
  ASSUME file \in Files
  PROVE  Placed(Empty, 1)
  <1> SUFFICES ASSUME NEW i \in Cell
               PROVE  /\ \A k \in Loads : ~(k < 1)
                      /\ Empty[i] = Zero
    BY DEF Placed
  <1>1. \A k \in Loads : k \in 1 .. Len(file.segments)
    BY FileType DEF Loads
  <1> QED
    BY <1>1, FileType DEF Empty

\* One more segment: by Disjoint no earlier one loses a byte to it.
LEMMA PlacedNext ==
  ASSUME file \in Files, mem \in Image, next \in Loads, WellFormed, Placed(mem, next),
         ~Refused(file.segments[next])
  PROVE  Placed(Copied(file.segments[next]), next + 1)
  <1> DEFINE s == file.segments[next]
             n == next + 1
  <1>1. s \in Segment /\ next \in Nat /\ Loads \subseteq Nat
    <2>1. Loads \subseteq 1 .. Len(file.segments)
      BY FileType DEF Loads
    <2> QED
      BY <2>1, FileType
  <1>2. SegmentOffset(s) = s.vaddr - KERNBASE
    BY <1>1, AcceptedIsLinkedToRam
  <1>3. /\ s.vaddr \in Nat /\ s.offset \in Nat /\ s.filesz \in Nat /\ KERNBASE \in Nat
        /\ s.memsz \in Nat
    BY <1>1, SegmentType, BootAssumption
  <1> SUFFICES ASSUME NEW i \in Cell
               PROVE  /\ \A k \in Loads : k < n /\ Places(file.segments[k], i) =>
                           Copied(s)[i] = file.segments[k].offset + KERNBASE + i
                                            - file.segments[k].vaddr
                      /\ (\A k \in Loads : k < n => ~Places(file.segments[k], i)) =>
                           Copied(s)[i] = Zero
    BY DEF Placed
  <1>4. i \in Int
    BY DEF Cell
  <1>5. Copied(s)[i] = IF Places(s, i) THEN s.offset + KERNBASE + i - s.vaddr ELSE mem[i]
    <2> DEFINE d == i - (s.vaddr - KERNBASE)
    <2>1. Copied(s)[i] = IF 0 <= d /\ d < s.filesz THEN s.offset + d ELSE mem[i]
      BY <1>2 DEF Copied
    <2>2. /\ Places(s, i) <=> 0 <= d /\ d < s.filesz
          /\ s.offset + d = s.offset + KERNBASE + i - s.vaddr
      BY <1>3, <1>4 DEF Places
    <2> QED
      BY <2>1, <2>2
  <1>6. ASSUME NEW k \in Loads, k < n, k # next
        PROVE  k < next
    BY <1>1, <1>6
  <1>7. ASSUME NEW k \in Loads, k # next, Places(s, i), Places(file.segments[k], i)
        PROVE  FALSE
    <2> DEFINE t == file.segments[k]
    <2>1. Disjoint(s, t) /\ SegmentOk(s) /\ SegmentOk(t)
      BY <1>7 DEF WellFormed
    <2>2. t \in Segment
      <3>1. k \in 1 .. Len(file.segments)
        BY FileType DEF Loads
      <3> QED
        BY <3>1, FileType
    <2>3. t.vaddr \in Nat /\ t.filesz \in Nat /\ t.memsz \in Nat
      BY <2>2, SegmentType
    <2>4. /\ s.vaddr <= KERNBASE + i /\ KERNBASE + i < s.vaddr + s.memsz
      BY <1>3, <1>4, <1>7, <2>1 DEF Places, SegmentOk
    <2>5. /\ t.vaddr <= KERNBASE + i /\ KERNBASE + i < t.vaddr + t.memsz
      BY <1>3, <1>4, <1>7, <2>1, <2>3 DEF Places, SegmentOk
    <2> QED
      BY <1>3, <1>4, <2>1, <2>3, <2>4, <2>5 DEF Disjoint
  <1>8. CASE Places(s, i)
    <2>1. next < n
      BY <1>1
    <2> QED
      BY <1>5, <1>7, <1>8, <2>1
  <1>9. CASE ~Places(s, i)
    <2>1. Copied(s)[i] = mem[i]
      BY <1>5, <1>9
    <2>2. \A k \in Loads : k < n /\ Places(file.segments[k], i) => k < next
      BY <1>6, <1>9
    <2>3. \A k \in Loads : k < next => k < n
      BY <1>1
    <2> QED
      BY <2>1, <2>2, <2>3 DEF Placed
  <1> QED
    BY <1>8, <1>9

LEMMA ImageInvInit == Init => ImageInv
  BY InvInit DEF Init, Inv, ImageInv

LEMMA ImageInvStep == TypeOK' /\ ImageInv /\ [Next]_vars => ImageInv'
  <1> SUFFICES ASSUME TypeOK', ImageInv, [Next]_vars PROVE ImageInv'
    OBVIOUS
  <1> USE DEF ImageInv
  <1>1. CASE ParseOptions
    BY <1>1 DEF ParseOptions, Go, load, cpu
  <1>2. CASE ReadIntoVector
    BY <1>2 DEF ReadIntoVector, Go, load, cpu
  <1>3. CASE GetHeader
    BY <1>3 DEF GetHeader, Go, cpu
  <1>4. CASE ReadTable
    <2>1. Placed(Empty, 1)'
      <3>1. Placed(Empty, 1)' = Placed(Empty, 1)
        BY <1>4 DEF ReadTable, Go, Placed, Loads, Places, Empty
      <3> QED
        BY <3>1, EmptyIsPlaced DEF TypeOK
    <2>2. mem' = Empty' /\ next' = 1 /\ entry' = file'.entry
      BY <1>4 DEF ReadTable, Go, load, cpu, Empty
    <2>3. phase' \in {"failed", "undefined", "segments"}
      BY <1>4 DEF ReadTable, Go
    <2> QED
      BY <2>1, <2>2, <2>3
  <1>5. CASE LoadSegment
    <2> DEFINE s == file.segments[next]
    <2>0. UNCHANGED <<option, file, entry, ram, pc>> /\ next' = next + 1
      BY <1>5 DEF LoadSegment, cpu
    <2>1. phase' \in {"segments", "failed", "undefined"} /\ phase = "segments"
      BY <1>5 DEF LoadSegment
    <2>2. ASSUME WellFormed, phase' = "segments"
          PROVE  Placed(mem', next + 1)
      <3>1. file \in Files /\ mem \in Image /\ next \in Nat /\ Placed(mem, next)
        BY <2>1, <2>2 DEF TypeOK
      <3>2. next \in 1 .. Len(file.segments)
        BY <1>5, <3>1, FileType DEF LoadSegment, TypeOK
      <3>3. CASE s.load
        <4>1. ~Refused(s) /\ mem' = Copied(s)
          BY <1>5, <2>2, <3>3 DEF LoadSegment
        <4>2. next \in Loads
          BY <3>1, <3>2, <3>3, FileType DEF Loads
        <4> QED
          BY <2>2, <3>1, <4>1, <4>2, PlacedNext
      <3>4. CASE ~s.load
        <4>1. mem' = mem /\ next \notin Loads
          BY <1>5, <3>4 DEF LoadSegment, Loads
        <4>2. \A k \in Loads : k < next + 1 <=> k < next
          <5>1. \A k \in Loads : k \in Nat
            BY <3>1, FileType DEF Loads
          <5> QED
            BY <3>1, <4>1, <5>1
        <4> QED
          BY <3>1, <4>1, <4>2 DEF Placed
      <3> QED
        BY <3>3, <3>4
    <2>3. WellFormed' = WellFormed
      BY <2>0 DEF WellFormed, Loads, SegmentOk, Disjoint
    <2>4. Placed(mem, next)' = Placed(mem', next + 1)
      BY <2>0 DEF Placed, Loads, Places
    <2> QED
      BY <2>0, <2>1, <2>2, <2>3, <2>4
  <1>6. CASE SegmentsDone
    BY <1>6 DEF SegmentsDone, Go, load, cpu, WellFormed, Loads, SegmentOk, Disjoint, Placed,
       Places
  <1>7. CASE Exit
    BY <1>7 DEF Exit, Go, load, cpu
  <1>8. CASE CreateCpu
    <2> DEFINE n == Len(file.segments) + 1
    <2>1. phase' = "created" /\ pc' = file'.entry /\ ram' = mem /\ file' = file
      BY <1>8 DEF CreateCpu, Go, load
    <2>2. WellFormed' = WellFormed
      BY <2>1 DEF WellFormed, Loads, SegmentOk, Disjoint
    <2>3. WellFormed => Placed(mem, n)
      <3>1. /\ WellFormed => Placed(mem, next)
            /\ next > Len(file.segments) /\ next \in Nat /\ Len(file.segments) \in Nat
        BY <1>8, FileType DEF CreateCpu, TypeOK
      <3>2. \A k \in Loads : k < n /\ k < next
        <4>1. \A k \in Loads : k \in 1 .. Len(file.segments)
          BY FileType DEF Loads, TypeOK
        <4> QED
          BY <3>1, <4>1
      <3> QED
        BY <3>1, <3>2 DEF Placed
    <2>4. Placed(ram, n)' = Placed(mem, n)
      BY <2>1 DEF Placed, Loads, Places
    <2> QED
      BY <2>1, <2>2, <2>3, <2>4
  <1>9. CASE UNCHANGED vars
    BY <1>9 DEF vars, WellFormed, Loads, SegmentOk, Disjoint, Placed, Places
  <1> QED
    BY <1>1, <1>2, <1>3, <1>4, <1>5, <1>6, <1>7, <1>8, <1>9 DEF Next

\* The finished image is the program's.
LEMMA ImageIsExpected == ImageInv => StartsTheProgram
  <1> SUFFICES ASSUME ImageInv, phase = "created", WellFormed, NEW i \in Cell
               PROVE  ram[i] = Expected(i)
    BY DEF StartsTheProgram, ImageInv
  <1>1. Placed(ram, Len(file.segments) + 1)
    BY DEF ImageInv
  <1>2. \A k \in Loads : k < Len(file.segments) + 1
    <2>1. file \in Files
      BY DEF ImageInv, TypeOK
    <2> QED
      BY <2>1, FileType DEF Loads
  <1> DEFINE P(k) == Places(file.segments[k], i)
             c == CHOOSE k \in Loads : P(k)
  <1>3. CASE \E k \in Loads : P(k)
    <2>1. c \in Loads /\ P(c)
      BY <1>3
    <2> QED
      BY <1>1, <1>2, <1>3, <2>1 DEF Expected, Placed
  <1>4. CASE ~ \E k \in Loads : P(k)
    BY <1>1, <1>4 DEF Expected, Placed
  <1> QED
    BY <1>3, <1>4

\* A hart that starts finds every byte of every segment where it was linked to, zero
\* elsewhere, and pc at the entry point, for every well-formed file.
THEOREM ProgramsStartComplete == Spec => []StartsTheProgram
  BY ImageIsExpected, ImageInvInit, ImageInvStep, BootTypeCorrect, PTL DEF Spec

-----------------------------------------------------------------------------
(* The composition with Hart.                                              *)


HP == INSTANCE HartProofs WITH
        AddrSpace <- Modulus, Entry <- 0, phase <- step

\* The parameters of the instance are as Hart assumes.
LEMMA HartAssumptions ==
  /\ Modulus \in Nat \ {0} /\ Modulus % 2 = 0
  /\ Fetchable \subseteq HP!Addr /\ 0 \in HP!Addr /\ Target \subseteq HP!Addr
  /\ Offset \subseteq {off \in Int : off % 2 = 0}
  /\ RootGarbage \subseteq HP!Word
  /\ Operand \in [HP!FlagCsr -> SUBSET HP!Word]
  /\ PtrOperand \in [HP!PtrCsr -> SUBSET HP!Addr]
  /\ Stray \in HP!StrayWrites
  /\ HP!Addr = Word
  <1>1. Modulus \in Nat \ {0} /\ Modulus % 2 = 0 /\ KERNBASE \in Nat /\ MEMORY_SIZE \in Nat
        /\ KERNBASE + MEMORY_SIZE <= Modulus
    BY BootAssumption, EmulatorAssumption
  <1>2. Fetchable \subseteq Word /\ HP!Addr = Word
    BY <1>1, EmulatorAssumption DEF Fetchable, RamAddr, Word, HP!Addr
  <1>3. 0 \in Word
    BY <1>1 DEF Word
  <1>4. HP!StrayWrites = H!StrayWrites
    BY DEF H!StrayWrites, HP!StrayWrites, H!FlagCsr, HP!FlagCsr, H!Word, HP!Word, H!Bit,
           HP!Bit, H!Addr, HP!Addr, H!Mode, HP!Mode
  <1> QED
    BY <1>1, <1>2, <1>3, <1>4, EmulatorAssumption
    DEF H!FlagCsr, HP!FlagCsr, H!PtrCsr, HP!PtrCsr, H!Word, HP!Word, H!Bit, HP!Bit

LEMMA SameHandleTrap ==
  ASSUME NEW code, NEW intr, NEW cs, H!HandleTrap(code, intr, cs)
  PROVE  HP!HandleTrap(code, intr, cs)
  BY DEF H!HandleTrap, HP!HandleTrap, H!TrapToSupervisor, HP!TrapToSupervisor,
         H!TrapToMachine, HP!TrapToMachine, H!Delegated, HP!Delegated, H!TrapPc,
         HP!TrapPc, H!TrapVector, HP!TrapVector, H!CauseNumber, HP!CauseNumber,
         H!CauseWord, HP!CauseWord, H!CopyBit, HP!CopyBit, H!ClearBit0, HP!ClearBit0,
         H!SIE, HP!SIE, H!SPIE, HP!SPIE, H!SPP, HP!SPP, H!MIE, HP!MIE, H!MPIE, HP!MPIE,
         H!MPP, HP!MPP, H!InterruptBit, HP!InterruptBit

\* The two instances take the same steps.
LEMMA SameStep == H!Step => HP!Step
  <1> USE DEF H!mmu, HP!mmu, H!Execute, HP!Execute, H!Throw, HP!Throw
  <1>1. H!Fetch => HP!Fetch
    BY DEF H!Fetch, HP!Fetch
  <1>2. H!FetchFault => HP!FetchFault
    BY DEF H!FetchFault, HP!FetchFault
  <1>3. H!FetchDiverges => HP!FetchDiverges
    BY DEF H!FetchDiverges, HP!FetchDiverges
  <1>4. H!DecodeFault => HP!DecodeFault
    BY DEF H!DecodeFault, HP!DecodeFault
  <1>5. H!Sret => HP!Sret
    BY DEF H!Sret, HP!Sret, H!CopyBit, HP!CopyBit, H!SIE, HP!SIE, H!SPIE, HP!SPIE,
           H!SPP, HP!SPP
  <1>6. H!Mret => HP!Mret
    BY DEF H!Mret, HP!Mret, H!CopyBit, HP!CopyBit, H!MIE, HP!MIE, H!MPIE, HP!MPIE,
           H!MPP, HP!MPP, H!ModeOfMpp, HP!ModeOfMpp
  <1>7. H!Ecall => HP!Ecall
    BY DEF H!Ecall, HP!Ecall
  <1>8. H!MemoryFault => HP!MemoryFault
    BY DEF H!MemoryFault, HP!MemoryFault, H!LoadAccessFault, HP!LoadAccessFault,
           H!StoreAMOAccessFault, HP!StoreAMOAccessFault
  <1>9. H!Plain => HP!Plain
    BY DEF H!Plain, HP!Plain
  <1>10. ASSUME NEW c, NEW op, NEW w, H!Zicsr(c, op, w) PROVE HP!Zicsr(c, op, w)
    BY <1>10 DEF H!Zicsr, HP!Zicsr, H!SetCsr, HP!SetCsr, H!CsrResult, HP!CsrResult,
           H!UpdatePagingMode, HP!UpdatePagingMode, H!SatpMode, HP!SatpMode, H!PpnBits,
           HP!PpnBits, H!Low32, HP!Low32
  <1>11. ASSUME NEW c, NEW a, H!ZicsrPtr(c, a) PROVE HP!ZicsrPtr(c, a)
    BY <1>11 DEF H!ZicsrPtr, HP!ZicsrPtr
  <1>12. ASSUME NEW t, H!Jalr(t) PROVE HP!Jalr(t)
    BY <1>12 DEF H!Jalr, HP!Jalr, H!ClearBit0, HP!ClearBit0
  <1>13. ASSUME NEW off, H!Branch(off) PROVE HP!Branch(off)
    BY <1>13 DEF H!Branch, HP!Branch
  <1>14. H!CatchTrap => HP!CatchTrap
    BY SameHandleTrap DEF H!CatchTrap, HP!CatchTrap
  <1>15. H!Poll => HP!Poll
    BY SameHandleTrap DEF H!Poll, HP!Poll, H!TakeInterrupt, HP!TakeInterrupt,
           H!NoInterrupt, HP!NoInterrupt, H!Masked, HP!Masked, H!Pending, HP!Pending,
           H!Interrupts, HP!Interrupts, H!MIE, HP!MIE, H!SIE, HP!SIE, H!NoTrap,
           HP!NoTrap, H!FirstHandler, HP!FirstHandler, H!Min, HP!Min
  <1>16. H!Atomic => HP!Atomic
    BY DEF H!Atomic, HP!Atomic, H!AmoCsr, HP!AmoCsr, H!AmoPc, HP!AmoPc, H!AmoMode,
           HP!AmoMode, H!AmoMmu, HP!AmoMmu, H!AmoBeyond, HP!AmoBeyond, H!FlagCsr, HP!FlagCsr
  <1> QED
    BY <1>1, <1>2, <1>3, <1>4, <1>5, <1>6, <1>7, <1>8, <1>9, <1>10, <1>11, <1>12, <1>13,
       <1>14, <1>15, <1>16
    DEF H!Step, HP!Step, H!FlagCsr, HP!FlagCsr, H!PtrCsr, HP!PtrCsr

-----------------------------------------------------------------------------
(* The invariant: until the loop the hart is as it was made, from then on  *)
(* it keeps the invariants of Hart.                                        *)

HartReady ==
  /\ step = "fetch" /\ mode = "MACHINE" /\ raised = H!NoTrap /\ except = FALSE
  /\ csrs = [c \in H!FlagCsr |-> {}] /\ ptrs = [c \in H!PtrCsr |-> 0]
  /\ paging = "Bare" /\ root \in RootGarbage

EmuInv ==
  /\ TypeOK
  /\ phase # "running" => Inv /\ ImageInv /\ HartReady
  /\ phase = "running" => HP!PagingInv /\ HP!ExceptionInv

LEMMA EmuInvInit == EmuInit => EmuInv
  BY InvInit, ImageInvInit DEF EmuInit, EmuInv, Init, HartReady, Inv

\* The loader neither starts in the loop nor enters it.
LEMMA LoadPhases == Next => phase # "running" /\ phase' # "running"
  BY DEF Next, ParseOptions, ReadIntoVector, GetHeader, ReadTable, LoadSegment, SegmentsDone,
         Exit, CreateCpu, Go

LEMMA ReadyHart ==
  ASSUME HartReady, pc \in Word
  PROVE  HP!PagingInv /\ HP!ExceptionInv
  <1> USE HartAssumptions DEF HartReady
  <1>1. HP!TypeOK
    BY DEF HP!TypeOK, HP!Mode, H!NoTrap, HP!NoTrap, H!FlagCsr, HP!FlagCsr, H!PtrCsr, HP!PtrCsr,
           HP!Word
  <1>2. HP!PagingCoherent
    BY DEF HP!PagingCoherent, HP!SatpMode, H!FlagCsr
  <1> QED
    BY <1>1, <1>2
    DEF HP!PagingInv, HP!ExceptionInv, HP!ExceptionMasksInterrupts, H!NoTrap, HP!NoTrap

LEMMA RunStep ==
  ASSUME EmuInv, Run
  PROVE  EmuInv'
  <1>1. phase = "running" /\ phase' = "running" /\ HP!PagingInv /\ HP!ExceptionInv
    BY DEF Run, EmuInv
  <1>2. HP!Step
    <2>1. H!DecodeFault => H!Step
      BY DEF H!Step
    <2>2. H!Plain => H!Step
      BY DEF H!Step
    <2> QED
      BY <2>1, <2>2, SameStep DEF Run, Execute
  <1>3. HP!PagingInv' /\ HP!ExceptionInv'
    BY <1>1, <1>2, HartAssumptions, HP!PagingStep, HP!ExceptionStep
  <1>4. pc' \in Word
    BY <1>3, HartAssumptions DEF HP!PagingInv, HP!TypeOK
  <1>5. ram' \in Image
    <2>1. ram \in Image
      BY DEF EmuInv, TypeOK
    <2>2. ASSUME NEW c \in StoreCells, NEW b \in Stored, ram' = [ram EXCEPT ![c] = b]
          PROVE  ram' \in Image
      BY <2>1, <2>2, EmulatorAssumption DEF Image
    <2> QED
      BY <2>1, <2>2 DEF Run, Execute, Stores
  <1>6. TypeOK'
    <2>1. UNCHANGED <<option, file, phase, next, mem, entry>>
      BY DEF Run
    <2>2. pc' # Unset
      BY <1>4, HartAssumptions DEF Word, Unset
    <2> QED
      BY <1>1, <1>4, <1>5, <2>1, <2>2 DEF EmuInv, TypeOK
  <1> QED
    BY <1>1, <1>3, <1>6 DEF EmuInv

LEMMA EmuInvStep == EmuInv /\ [EmuNext]_emuVars => EmuInv'
  <1> SUFFICES ASSUME EmuInv, [EmuNext]_emuVars PROVE EmuInv'
    OBVIOUS
  <1>1. CASE Load
    <2>1. phase # "running" /\ phase' # "running" /\ Next /\ UNCHANGED hart
      BY <1>1, LoadPhases DEF Load
    <2>2. Inv' /\ TypeOK'
      BY <2>1, InvStep DEF EmuInv, Inv
    <2>3. ImageInv'
      BY <2>1, <2>2, ImageInvStep DEF EmuInv
    <2>4. HartReady'
      BY <2>1 DEF EmuInv, HartReady, hart
    <2> QED
      BY <2>1, <2>2, <2>3, <2>4 DEF EmuInv
  <1>2. CASE EnterLoop
    <2>1. phase = "created" /\ phase' = "running" /\ UNCHANGED <<option, file, load, cpu, hart>>
      BY <1>2 DEF EnterLoop, Go
    <2>2. TypeOK'
      BY <2>1 DEF EmuInv, TypeOK, load, cpu
    <2>3. pc \in Word
      BY <2>1 DEF EmuInv, TypeOK
    <2>4. HP!PagingInv /\ HP!ExceptionInv
      BY <2>1, <2>3, ReadyHart DEF EmuInv
    <2>5. UNCHANGED HP!vars
      BY <2>1 DEF cpu, hart, HP!vars
    <2>6. HP!PagingInv' /\ HP!ExceptionInv'
      BY <2>4, <2>5, HartAssumptions, HP!PagingStep, HP!ExceptionStep
    <2> QED
      BY <2>1, <2>2, <2>6 DEF EmuInv
  <1>3. CASE Run
    BY <1>3, RunStep
  <1>4. CASE UNCHANGED emuVars
    <2>1. UNCHANGED vars /\ UNCHANGED hart
      BY <1>4 DEF emuVars
    <2>2. UNCHANGED phase /\ UNCHANGED HP!vars
      BY <2>1 DEF vars, hart, HP!vars
    <2>3. CASE phase # "running"
      <3>1. Inv' /\ TypeOK'
        BY <2>1, <2>3, InvStep DEF EmuInv, Inv
      <3>2. ImageInv'
        BY <2>1, <2>3, <3>1, ImageInvStep DEF EmuInv
      <3>3. HartReady'
        BY <2>1, <2>3 DEF EmuInv, HartReady, hart
      <3> QED
        BY <2>2, <2>3, <3>1, <3>2, <3>3 DEF EmuInv
    <2>4. CASE phase = "running"
      <3>1. TypeOK'
        BY <2>1 DEF EmuInv, TypeOK, vars
      <3>2. HP!PagingInv' /\ HP!ExceptionInv'
        BY <2>2, <2>4, HartAssumptions, HP!PagingStep, HP!ExceptionStep DEF EmuInv
      <3> QED
        BY <2>2, <2>4, <3>1, <3>2 DEF EmuInv
    <2> QED
      BY <2>3, <2>4
  <1> QED
    BY <1>1, <1>2, <1>3, <1>4 DEF EmuNext

LEMMA EmuInvariant == EmuSpec => []EmuInv
  BY EmuInvInit, EmuInvStep, PTL DEF EmuSpec

\* Whatever file the program is started with and whatever the guest then does, main,
\* the loader and the hart keep their variables' types.
THEOREM EmulatorTypeCorrect == EmuSpec => []TypeOK
  BY EmuInvariant, PTL DEF EmuInv

\* The loader's guarantees are those of the whole program: no memcpy outside its
\* arrays, and when main reaches its loop the image is complete.
THEOREM EmulatorLoadsPrograms == EmuSpec => [](CopiesStayInBounds /\ StartsTheProgram)
  <1>1. EmuInv => CopiesStayInBounds /\ StartsTheProgram
    <2>1. EmuInv /\ phase = "running" => CopiesStayInBounds /\ StartsTheProgram
      BY DEF CopiesStayInBounds, StartsTheProgram
    <2>2. EmuInv /\ phase # "running" => CopiesStayInBounds /\ StartsTheProgram
      BY ImageIsExpected DEF EmuInv, Inv
    <2> QED
      BY <2>1, <2>2
  <1> QED
    BY <1>1, EmuInvariant, PTL

\* On any loaded program the hart's registers keep their types, the MMU is in step
\* with satp if the guest's atomics spare both, and no Step takes an interrupt on top
\* of an exception.
HartSound == phase = "running" =>
  HP!TypeOK /\ HP!PagingCoherent /\ HP!ExceptionMasksInterrupts
THEOREM EmulatorHartIsSound == EmuSpec => []HartSound
  <1>1. EmuInv => HartSound
    BY DEF EmuInv, HartSound, HP!PagingInv, HP!ExceptionInv
  <1> QED
    BY <1>1, EmuInvariant, PTL

\* A step of the whole program is one of the hart, which is well typed then, or one of
\* main before its loop, when no exception is in flight and no CSR changes.
LEMMA HartSteps ==
  ASSUME EmuInv, [EmuNext]_emuVars, HP!vars' # HP!vars
  PROVE  (HP!TypeOK /\ HP!Step) \/ (step = "fetch" /\ csrs' = csrs)
  <1>1. CASE Run
    <2>1. H!DecodeFault \/ H!Plain => H!Step
      BY DEF H!Step
    <2>2. HP!Step
      BY <1>1, <2>1, SameStep DEF Run, Execute
    <2> QED
      BY <1>1, <2>2 DEF Run, EmuInv, HP!PagingInv
  <1>2. CASE Load
    BY <1>2, LoadPhases DEF Load, EmuInv, HartReady, hart
  <1>3. CASE EnterLoop
    BY <1>3 DEF EnterLoop, hart, cpu, HP!vars
  <1>4. CASE UNCHANGED emuVars
    BY <1>4 DEF emuVars, vars, cpu, hart, HP!vars
  <1> QED
    BY <1>1, <1>2, <1>3, <1>4 DEF EmuNext

\* On any loaded program, too, no trap lowers the mode, interrupts are delivered exactly
\* once, lowest first and only when enabled, and every handler starts where its vector
\* says.
THEOREM EmulatorTrapsAreSound ==
  EmuSpec => HP!TrapNeverLowersPrivilege /\ HP!InterruptDelivery /\ HP!VectoredDispatch
  <1>1. ASSUME EmuInv, [EmuNext]_emuVars, HP!vars' # HP!vars
        PROVE  /\ (step \in {"trap", "poll"}) => mode' \notin HP!Below(mode)
               /\ HP!Delivery
               /\ HP!HandlerStarts
    <2>1. CASE HP!TypeOK /\ HP!Step
      BY <1>1, <2>1, HartAssumptions, HP!PrivilegeStep, HP!DeliveryStep, HP!VectorStep
    <2>2. CASE step = "fetch" /\ csrs' = csrs
      BY <2>2 DEF HP!HandlerStarts, HP!Delivery
    <2> QED
      BY <1>1, <2>1, <2>2, HartSteps
  <1>2. EmuInv /\ [EmuNext]_emuVars =>
          /\ [(step \in {"trap", "poll"}) => mode' \notin HP!Below(mode)]_(HP!vars)
          /\ [HP!Delivery]_(HP!vars)
          /\ [HP!HandlerStarts]_(HP!vars)
    BY <1>1
  <1> QED
    BY <1>2, EmuInvariant, PTL
    DEF EmuSpec, HP!TrapNeverLowersPrivilege, HP!InterruptDelivery, HP!VectoredDispatch,
        HP!HandlerStarts, HP!Delivery

-----------------------------------------------------------------------------
(* The safety half of FittingProgramRuns: nothing stops a program that     *)
(* fits.  What is left to fairness is that main goes on.                   *)

FittingNotRefused == Fits => phase \notin {"failed", "exited", "undefined"}

\* A segment in RAM, not at the end of the file, passes the three checks: its offset
\* does not wrap, nor does the sum, and the copy is within both arrays.
LEMMA SegmentInRamPasses ==
  ASSUME file \in Files, NEW s \in Segment, SegmentOk(s),
         s.vaddr \in RamAddr, s.vaddr + s.memsz <= KERNBASE + MEMORY_SIZE,
         s.offset < file.size
  PROVE  ~Refused(s) /\ InBounds(s)
  <1>1. /\ s.vaddr \in Int /\ s.memsz \in Nat /\ s.filesz \in Nat /\ s.offset \in Nat
        /\ s.filesz <= s.memsz /\ s.offset + s.filesz <= file.size
        /\ file.size \in Nat
    BY BootAssumption DEF Segment, Word, SegmentOk
  <1>2. /\ Modulus \in Nat \ {0} /\ KERNBASE \in Nat \ {0} /\ MEMORY_SIZE \in Nat \ {0}
        /\ KERNBASE + MEMORY_SIZE <= Modulus
    BY BootAssumption
  <1> DEFINE distance == s.vaddr - KERNBASE
             sum == distance + s.memsz
  <1>3. /\ distance \in 0 .. Modulus - 1 /\ distance < MEMORY_SIZE
        /\ sum \in 0 .. Modulus - 1 /\ sum <= MEMORY_SIZE
        /\ distance + s.filesz <= MEMORY_SIZE
    BY <1>1, <1>2 DEF RamAddr
  <1>4. SegmentOffset(s) = distance % Modulus
    BY DEF SegmentOffset
  <1> HIDE DEF distance
  <1> HIDE DEF sum
  <1>5. distance % Modulus = distance /\ sum % Modulus = sum
    <2>1. Modulus \in Nat \ {0} /\ distance \in Int /\ sum \in Int
      BY <1>2, <1>3
    <2>2. /\ distance \in 0 .. Modulus - 1 => distance % Modulus = distance
          /\ sum \in 0 .. Modulus - 1 => sum % Modulus = sum
      BY <2>1, ModRange
    <2> QED
      BY <1>3, <2>2
  <1>6. SegmentOffset(s) = distance
    BY <1>4, <1>5
  <1>7. SegmentEnd(s) = sum
    BY <1>5, <1>6 DEF SegmentEnd, sum
  <1>8. ~Refused(s)
    BY <1>1, <1>2, <1>3, <1>6, <1>7 DEF Refused
  <1>9. InBounds(s)
    BY <1>1, <1>3, <1>6 DEF InBounds
  <1> QED
    BY <1>8, <1>9

\* No step of main or of the loader leads from a fitting program to an exit.
LEMMA FittingStep ==
  ASSUME TypeOK, Fits, Next, phase \notin {"failed", "exited", "undefined"}
  PROVE  phase' \notin {"failed", "exited", "undefined"}
  <1>1. file \in Files
    BY DEF TypeOK
  <1>2. CASE ParseOptions
    BY <1>2 DEF ParseOptions, Go, Fits
  <1>3. CASE ReadIntoVector
    BY <1>3 DEF ReadIntoVector, Go, Fits
  <1>4. CASE GetHeader
    BY <1>4 DEF GetHeader, Go, Fits
  <1>5. CASE ReadTable
    <2> DEFINE tableEnd == file.phoff + Len(file.segments) * PhdrSize
    <2>1. /\ file.phoff \in Nat /\ file.size \in Nat /\ file.phoff < file.size
          /\ Len(file.segments) \in Nat /\ PhdrSize \in Nat
      BY <1>1, BootAssumption, FileType DEF Fits, Word
    <2>2. tableEnd \in Nat
      BY <2>1
    <2>3. tableEnd <= file.size
      BY DEF Fits, WellFormed
    <2> HIDE DEF tableEnd
    <2>4. ~(file.phoff >= file.size) /\ ~(tableEnd > file.size)
      BY <2>1, <2>2, <2>3
    <2> QED
      BY <1>5, <2>4 DEF ReadTable, Go, tableEnd
  <1>6. CASE LoadSegment
    <2> DEFINE s == file.segments[next]
    <2>1. /\ phase = "segments" /\ next \in 1 .. Len(file.segments)
          /\ DOMAIN file.segments = 1 .. Len(file.segments) /\ s \in Segment
      BY <1>1, <1>6, FileType DEF LoadSegment, TypeOK
    <2>2. CASE ~s.load
      BY <1>6, <2>1, <2>2 DEF LoadSegment
    <2>3. CASE s.load
      <3>1. next \in Loads
        BY <2>1, <2>3 DEF Loads
      <3>2. /\ SegmentOk(s) /\ s.vaddr \in RamAddr /\ s.offset < file.size
            /\ s.vaddr + s.memsz <= KERNBASE + MEMORY_SIZE
        BY <3>1 DEF Fits, WellFormed
      <3>3. ~Refused(s) /\ InBounds(s)
        BY <1>1, <2>1, <3>2, SegmentInRamPasses
      <3> QED
        BY <1>6, <2>1, <2>3, <3>3 DEF LoadSegment
    <2> QED
      BY <2>2, <2>3
  <1>7. CASE SegmentsDone \/ Exit \/ CreateCpu
    BY <1>7 DEF SegmentsDone, Exit, CreateCpu, Go
  <1> QED
    BY <1>2, <1>3, <1>4, <1>5, <1>6, <1>7 DEF Next

\* The file and the option, and with them Fits, are the program's arguments.
LEMMA SameArguments == [EmuNext]_emuVars => UNCHANGED <<option, file>>
  BY DEF EmuNext, Load, EnterLoop, Run, emuVars, vars, Next, ParseOptions, ReadIntoVector,
         GetHeader, ReadTable, LoadSegment, SegmentsDone, Exit, CreateCpu, Go

\* No check of the loader refuses a program that fits, whatever its segments, the size
\* of RAM and of the address space.
THEOREM FittingProgramsAreAccepted == EmuSpec => []FittingNotRefused
  <1>1. EmuInit => FittingNotRefused
    BY DEF EmuInit, Init, FittingNotRefused
  <1>2. ASSUME EmuInv, FittingNotRefused, [EmuNext]_emuVars PROVE FittingNotRefused'
    <2>1. UNCHANGED <<option, file>>
      BY <1>2, SameArguments
    <2>2. Fits' <=> Fits
      BY <2>1 DEF Fits, WellFormed, Loads, SegmentOk
    <2>3. CASE Load
      BY <1>2, <2>2, <2>3, FittingStep DEF Load, FittingNotRefused, EmuInv
    <2>4. CASE EnterLoop
      BY <2>4 DEF EnterLoop, Go, FittingNotRefused
    <2>5. CASE Run \/ UNCHANGED emuVars
      BY <1>2, <2>2, <2>5 DEF Run, emuVars, vars, FittingNotRefused
    <2> QED
      BY <1>2, <2>3, <2>4, <2>5 DEF EmuNext
  <1> QED
    BY <1>1, <1>2, EmuInvariant, PTL DEF EmuSpec

-----------------------------------------------------------------------------
(* The safety half of LostIsStuck: a hart among zeroes goes on to the end  *)
(* of RAM and no other way.  What is left to fairness is that it gets      *)
(* there.                                                                  *)

EndOfRam == KERNBASE + MEMORY_SIZE

\* From address a to the end of RAM there are whole words of zero, or none.
ZeroesFrom(a) ==
  /\ a \in RamAddr \cup {EndOfRam} /\ (EndOfRam - a) % 4 = 0
  /\ \A b \in a .. EndOfRam - 1 : ZeroByte(b)

\* Lost, at any point of Step: the word to fetch or the one just fetched is zero, or pc
\* is behind RAM.
Drifting ==
  /\ phase = "running" /\ paging = "Bare"
  /\ \/ step = "fetch" /\ ZeroesFrom(pc)
     \/ step = "execute" /\ pc - 4 \in RamAddr /\ ZeroesFrom(pc - 4)

\* The last word of zeroes is a whole one, and behind each word there are zeroes again.
LEMMA NextWordIsZero ==
  ASSUME NothingBehindRam, NEW a \in RamAddr, ZeroesFrom(a)
  PROVE  /\ (a + 4) % Modulus = a + 4 /\ a % Modulus = a
         /\ ZeroWord(a) /\ ZeroesFrom(a + 4)
  <1>1. /\ Modulus \in Nat \ {0} /\ KERNBASE \in Nat \ {0} /\ MEMORY_SIZE \in Nat \ {0}
        /\ EndOfRam \in 0 .. Modulus - 1
    BY BootAssumption DEF NothingBehindRam, EndOfRam, Word
  <1>2. a \in KERNBASE .. EndOfRam - 1 /\ (EndOfRam - a) % 4 = 0
    BY <1>1 DEF ZeroesFrom, RamAddr, EndOfRam
  <1> HIDE DEF EndOfRam
  <1>3. a + 4 <= EndOfRam
    BY <1>1, <1>2
  <1>4. (EndOfRam - (a + 4)) % 4 = 0
    BY <1>1, <1>2, <1>3
  <1>5. a \in 0 .. Modulus - 1 /\ a + 4 \in 0 .. Modulus - 1 /\ a \in Int /\ a + 4 \in Int
    BY <1>1, <1>2, <1>3
  <1>6. (a + 4) % Modulus = a + 4 /\ a % Modulus = a
    BY <1>1, <1>5, ModRange
  <1>7. \A b \in a .. EndOfRam - 1 : ZeroByte(b)
    BY DEF ZeroesFrom
  <1>8. ZeroWord(a)
    BY <1>1, <1>2, <1>3, <1>7 DEF ZeroWord
  <1>9. a + 4 \in RamAddr \cup {EndOfRam}
    BY <1>1, <1>2, <1>3 DEF RamAddr, EndOfRam
  <1>10. \A b \in a + 4 .. EndOfRam - 1 : ZeroByte(b)
    BY <1>1, <1>2, <1>7
  <1> QED
    BY <1>4, <1>6, <1>8, <1>9, <1>10 DEF ZeroesFrom

\* Before the execute function Step can only fetch.
LEMMA FetchSteps ==
  ASSUME step = "fetch", H!Step
  PROVE  H!Fetch \/ H!FetchFault \/ H!FetchDiverges
  BY DEF H!Step, H!DecodeFault, H!Sret, H!Mret, H!Ecall, H!MemoryFault, H!Plain, H!Zicsr,
         H!ZicsrPtr, H!Jalr, H!Branch, H!Atomic, H!AmoCsr, H!AmoPc, H!AmoMode, H!AmoMmu,
         H!AmoBeyond, H!CatchTrap, H!Poll, H!Execute, H!Throw

LEMMA DriftingStep ==
  ASSUME NothingBehindRam, EmuInv, Drifting, [EmuNext]_emuVars
  PROVE  Drifting'
  <1>1. phase = "running" /\ paging = "Bare"
    BY DEF Drifting
  <1>2. CASE UNCHANGED emuVars
    BY <1>2 DEF emuVars, vars, load, cpu, hart, Drifting, ZeroesFrom, ZeroByte
  <1>3. CASE Run /\ step = "fetch"
    <2>1. H!Step /\ UNCHANGED ram /\ phase' = phase
      BY <1>3 DEF Run, Execute, H!Plain, H!Execute
    <2>3. ZeroesFrom(pc)
      BY <1>3 DEF Drifting
    <2>4. CASE pc \in RamAddr
      <3>1. H!Fetch
        BY <1>1, <1>3, <2>1, <2>4, FetchSteps DEF H!FetchFault, H!FetchDiverges, Fetchable
      <3>2. pc' = (pc + 4) % Modulus /\ step' = "execute" /\ paging' = paging
        BY <3>1 DEF H!Fetch, H!mmu
      <3>3. pc' = pc + 4 /\ pc \in Int
        BY <2>3, <2>4, <3>2, NextWordIsZero, BootAssumption DEF RamAddr
      <3>4. pc' - 4 = pc
        BY <3>3
      <3>5. pc' - 4 \in RamAddr /\ ZeroesFrom(pc' - 4)
        BY <2>3, <2>4, <3>4
      <3> QED
        BY <1>1, <2>1, <3>2, <3>5 DEF Drifting, ZeroesFrom, ZeroByte
    <2>5. CASE pc = EndOfRam
      <3>1. pc \notin Fetchable
        BY <2>5, BootAssumption DEF NothingBehindRam, EndOfRam, Fetchable, RamAddr
      <3>2. H!FetchFault
        BY <1>1, <1>3, <2>1, <3>1, FetchSteps DEF H!Fetch, H!FetchDiverges
      <3>3. pc' = pc /\ step' = step /\ paging' = paging
        BY <3>2 DEF H!FetchFault, H!mmu
      <3> QED
        BY <1>1, <1>3, <2>1, <2>3, <3>3 DEF Drifting, ZeroesFrom, ZeroByte
    <2> QED
      BY <2>3, <2>4, <2>5 DEF ZeroesFrom
  <1>4. CASE Run /\ step # "fetch"
    <2>1. step = "execute" /\ pc - 4 \in RamAddr /\ ZeroesFrom(pc - 4)
      BY <1>4 DEF Drifting
    <2>2. /\ (pc - 4) % Modulus = pc - 4 /\ ZeroWord(pc - 4)
          /\ ZeroesFrom((pc - 4) + 4)
      BY <2>1, NextWordIsZero
    <2>3. H!DecodeFault /\ UNCHANGED ram /\ phase' = phase
      BY <1>4, <2>1, <2>2 DEF Run
    <2>4. pc' = pc /\ step' = "fetch" /\ paging' = paging
      BY <2>3 DEF H!DecodeFault, H!mmu
    <2>5. (pc - 4) + 4 = pc
      <3>1. pc \in Int
        BY <1>1, BootAssumption DEF EmuInv, HP!PagingInv, HP!TypeOK, HP!Addr
      <3> QED
        BY <3>1
    <2> QED
      BY <1>1, <2>2, <2>3, <2>4, <2>5 DEF Drifting, ZeroesFrom, ZeroByte
  <1>5. ~Load /\ ~EnterLoop
    BY <1>1, LoadPhases DEF Load, EnterLoop
  <1> QED
    BY <1>2, <1>3, <1>4, <1>5 DEF EmuNext

LEMMA LostDrifts == Lost => Drifting
  <1> SUFFICES ASSUME Lost PROVE Drifting
    OBVIOUS
  <1>1. phase = "running" /\ step = "fetch" /\ paging = "Bare" /\ pc \in RamAddr
    BY DEF Lost
  <1>2. /\ KERNBASE + (MEMORY_SIZE - pc) = EndOfRam - pc
        /\ KERNBASE + (MEMORY_SIZE - 1) = EndOfRam - 1
    BY <1>1, BootAssumption DEF EndOfRam, RamAddr
  <1>3. /\ (EndOfRam - pc) % 4 = 0
        /\ \A b \in pc .. EndOfRam - 1 : ZeroByte(b)
    BY <1>2, Zenon DEF Lost
  <1> QED
    BY <1>1, <1>3 DEF Drifting, ZeroesFrom

\* Where nothing lies behind RAM, a hart that runs into zeroes never enters a trap or
\* takes an interrupt again, in any size of memory and for any program.
THEOREM LostForEver == NothingBehindRam => (EmuSpec => LostNeverPolls)
  <1> SUFFICES ASSUME NothingBehindRam PROVE EmuSpec => LostNeverPolls
    OBVIOUS
  <1>1. EmuInv /\ Drifting /\ [EmuNext]_emuVars => Drifting'
    BY DriftingStep
  <1>2. Drifting => step \in {"fetch", "execute"}
    BY DEF Drifting
  <1> QED
    BY <1>1, <1>2, LostDrifts, EmuInvariant, PTL DEF EmuSpec, LostNeverPolls
=============================================================================
