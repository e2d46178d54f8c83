---------------------------- MODULE LoadStoreProofs ----------------------------
(***************************************************************************)
(* The load and store instructions with an offset that is not negative     *)
(* implement IsaMemory on every layout, register file and instruction set  *)
(* that LoadStore admits.  What the bus does is taken from MmuProofs: an   *)
(* access is one of Memory.                                                *)
(***************************************************************************)
EXTENDS LoadStore, MmuProofs

USE DEF Reserving

\* x0 may hold anything between two Steps, but no instruction sees it.
CpuInv == RegsTypeOK /\ (ir # none => regs[0] = Zero)

\* What the assumption says of the instruction in execute.
LEMMA Executing ==
  ASSUME CpuInv, ir.op \in Accesses \cup {"plain"}
  PROVE  /\ ir \in Instruction /\ ir # none /\ ir.rd \in Reg /\ regs[0] = Zero
         /\ ir.op \in Accesses =>
              ir.rs1 \in Reg /\ ir.rs2 \in Reg /\ ir.imm \in Nat
              /\ ir.size \in Size /\ ir.size \in 1 .. Width
         /\ ir.op = "plain" => ir.value \in Register
  <1>1. ir # none /\ ir \in Instruction
    BY DEF none, Accesses, CpuInv, RegsTypeOK
  <1> QED
    BY <1>1, LoadStoreAssumption DEF CpuInv

LEMMA AddrInSpace ==
  ASSUME CpuInv, ir.op \in Accesses
  PROVE  Addr \in Space
  <1>1. CASE ir.op \in {"LR", "SC"}
    BY <1>1, Executing, LoadStoreAssumption DEF Addr, HoleAddr, Accesses
  <1>2. CASE ir.op \notin {"LR", "SC"}
    <2> DEFINE sum == AsAddress[regs[ir.rs1]] + ir.imm
    <2>1. regs[ir.rs1] \in Register
      BY Executing DEF CpuInv, RegsTypeOK
    <2>2. sum \in Nat
      BY <2>1, Executing, LoadStoreAssumption
    <2>3. Addr = sum % AddrSpace
      BY <1>2 DEF Addr
    <2> HIDE DEF sum
    <2> QED
      BY <2>2, <2>3, LoadStoreAssumption
  <1> QED
    BY <1>1, <1>2

\* The registers and the address that IsaMemory sees are the ones of the code.
LEMMA Seen ==
  ASSUME CpuInv, ir.op \in Accesses \cup {"plain"}
  PROVE  Visible = regs /\ (ir.op \in {"L", "LU", "S"} /\ Agrees(ir) => ISA!Addr = Addr)
  <1>1. Visible = regs
    <2>1. Visible \in [Reg -> Register] /\ \A r \in Reg : Visible[r] = regs[r]
      BY Executing DEF CpuInv, RegsTypeOK, Visible
    <2> QED
      BY <2>1 DEF CpuInv, RegsTypeOK
  <1>2. ASSUME ir.op \in {"L", "LU", "S"}, Agrees(ir) PROVE ISA!Addr = Addr
    <2> DEFINE half == ImmSpan \div 2
    <2>1. half \in Int /\ ir.imm \in Nat /\ ir.imm < half
      BY <1>2, Executing, LoadStoreAssumption DEF Agrees, Accesses
    <2> HIDE DEF half
    <2>2. ISA!Offset = ir.imm
      <3>1. ISA!Offset = IF ir.imm >= half THEN ir.imm - ImmSpan ELSE ir.imm
        BY <1>2 DEF ISA!Offset, ISA!Reserving, half
      <3> QED
        BY <2>1, <3>1
    <2> QED
      BY <1>1, <1>2, <2>2 DEF ISA!Addr, Addr
  <1> QED
    BY <1>1, <1>2

-----------------------------------------------------------------------------
(* What a load and a store do, from the outside.                           *)

LEMMA LoadOutcome ==
  ASSUME CpuInv, ir.op \in {"L", "LU", "LR"}, ExecuteLoad
  PROVE  /\ host' \in [Host -> Byte] /\ wild' = wild /\ UNCHANGED CellBytes
         /\ \/ /\ reply' = [op |-> "LoadAccessFault", addr |-> Addr, size |-> ir.size]
               /\ RAM!Refused(Addr, ir.size) /\ UNCHANGED regs
            \/ /\ ~RAM!Refused(Addr, ir.size)
               /\ \E d \in [0 .. ir.size - 1 -> Byte], v \in Register :
                    /\ reply' = [op |-> "load", addr |-> Addr, size |-> ir.size, data |-> d]
                    /\ \A k \in 0 .. ir.size - 1 : Addr + k \in CellAddr => d[k] = CellBytes[Addr + k]
                    /\ v \in Data(d) /\ regs' = [regs EXCEPT ![ir.rd] = Widened(v)]
  <1> DEFINE a == Addr
             n == ir.size
  <1>1. a \in Space /\ n \in Size
    BY AddrInSpace, Executing DEF Accesses
  <1>2. TypeOK /\ Load(a, n)
    BY DEF CpuInv, RegsTypeOK, ExecuteLoad
  <1>3. /\ host' \in [Host -> Byte] /\ wild' = wild
        /\ \/ reply' = [op |-> "LoadAccessFault", addr |-> a, size |-> n]
           \/ \E d \in [0 .. n - 1 -> Byte] : reply' = [op |-> "load", addr |-> a, size |-> n, data |-> d]
    <2> HIDE DEF a, n
    <2> QED
      BY <1>1, <1>2, LoadType, LoadStays
  <1>4. RAM!Load \/ RAM!Fault
    <2> HIDE DEF a, n
    <2> QED
      BY <1>1, <1>2, LoadIsLoad
  <1>5. UNCHANGED CellBytes
    BY <1>4 DEF RAM!Load, RAM!Fault
  <1>6. CASE reply' = [op |-> "LoadAccessFault", addr |-> a, size |-> n]
    <2>1. RAM!Refused(a, n)
      <3> HIDE DEF a, n
      <3> QED
        BY <1>4, <1>6 DEF RAM!Load, RAM!Completed, RAM!Fault
    <2> QED
      BY <1>3, <1>5, <1>6, <2>1 DEF ExecuteLoad
  <1>7. ASSUME NEW d \in [0 .. n - 1 -> Byte], reply' = [op |-> "load", addr |-> a, size |-> n, data |-> d]
        PROVE  /\ ~RAM!Refused(a, n)
               /\ \A k \in 0 .. n - 1 : a + k \in CellAddr => d[k] = CellBytes[a + k]
               /\ \E v \in Register :
                     v \in Data(d) /\ regs' = [regs EXCEPT ![ir.rd] = Widened(v)]
    <2>1. /\ RAM!Load /\ reply'.addr = a /\ reply'.size = n /\ reply'.data = d
          /\ DOMAIN d = 0 .. n - 1
      BY <1>4, <1>7 DEF RAM!Fault
    <2>2. ~RAM!Refused(a, n)
      BY <2>1 DEF RAM!Load, RAM!Completed
    <2>3. \A k \in 0 .. n - 1 : a + k \in CellAddr => d[k] = CellBytes[a + k]
      <3> HIDE DEF a, n
      <3> QED
        BY <2>1 DEF RAM!Load
    <2>4. \E v \in Data(d) : regs' = [regs EXCEPT ![ir.rd] = Widened(v)]
      BY <1>7 DEF ExecuteLoad
    <2>5. Data(d) \subseteq Register
      BY DEF Data
    <2> QED
      BY <2>2, <2>3, <2>4, <2>5
  <1> QED
    BY <1>3, <1>5, <1>6, <1>7

\* The data variable and its cast are registers.
LEMMA WidenedType ==
  ASSUME CpuInv, ir.op \in {"L", "LU", "LR"}, NEW v \in Register
  PROVE  Widened(v) \in Register
  <1>1. ir.size - 1 \in 0 .. Width - 1 /\ Bits \in Byte /\ {} \in Byte
    BY Executing, LoadStoreAssumption DEF Accesses, Byte
  <1> QED
    BY <1>1 DEF Widened, Register

\* A store writes cells or faults.
LEMMA StoreOutcome ==
  ASSUME CpuInv, ir.op \in {"S", "SC"}, ExecuteStore
  PROVE  /\ host' \in [Host -> Byte] /\ wild' = wild
         /\ \/ /\ reply' = [op |-> "StoreAMOAccessFault", addr |-> Addr, size |-> ir.size]
               /\ RAM!Refused(Addr, ir.size) /\ UNCHANGED <<CellBytes, regs>>
            \/ /\ ~RAM!Refused(Addr, ir.size)
               /\ \E d \in [0 .. ir.size - 1 -> Byte] :
                    reply' = [op |-> "store", addr |-> Addr, size |-> ir.size, data |-> d]
               /\ CellBytes' = [c \in CellAddr |->
                     IF c - Addr \in 0 .. ir.size - 1 THEN regs[ir.rs2][c - Addr] ELSE CellBytes[c]]
  <1> DEFINE a == Addr
             n == ir.size
             d == [k \in 0 .. n - 1 |-> regs[ir.rs2][k]]
  <1>1. a \in Space /\ n \in Size
    BY AddrInSpace, Executing DEF Accesses
  <1>2. TypeOK /\ Store(a, n, d)
    BY DEF CpuInv, RegsTypeOK, ExecuteStore
  <1>3. d \in [0 .. n - 1 -> Byte] /\ DOMAIN d = 0 .. n - 1
    <2>1. regs[ir.rs2] \in Register /\ n \in 1 .. Width /\ Width \in Nat
      BY Executing, LoadStoreAssumption DEF Accesses, CpuInv, RegsTypeOK
    <2>2. \A k \in 0 .. n - 1 : regs[ir.rs2][k] \in Byte
      BY <2>1 DEF Register
    <2> QED
      BY <2>2
  <1>4. /\ host' \in [Host -> Byte] /\ wild' = wild
        /\ \/ reply' = [op |-> "StoreAMOAccessFault", addr |-> a, size |-> n]
           \/ reply' = [op |-> "store", addr |-> a, size |-> n, data |-> d]
    <2> HIDE DEF a, n, d
    <2> QED
      BY <1>1, <1>2, <1>3, StoreType, StoreStays
  <1>5. RAM!Store \/ RAM!Fault
    <2> HIDE DEF a, n, d
    <2> QED
      BY <1>1, <1>2, <1>3, StoreIsStore
  <1>6. CASE reply' = [op |-> "StoreAMOAccessFault", addr |-> a, size |-> n]
    <2>1. RAM!Refused(a, n) /\ UNCHANGED CellBytes
      <3> HIDE DEF a, n, d
      <3> QED
        BY <1>5, <1>6 DEF RAM!Store, RAM!Completed, RAM!Fault
    <2>2. UNCHANGED regs
      BY <1>6 DEF ExecuteStore
    <2> QED
      BY <1>4, <1>6, <2>1, <2>2
  <1>7. CASE reply' = [op |-> "store", addr |-> a, size |-> n, data |-> d]
    <2>1. RAM!Store /\ reply'.addr = a /\ reply'.size = n /\ reply'.data = d
      <3> HIDE DEF d
      <3> QED
        BY <1>5, <1>7 DEF RAM!Fault
    <2>2. ~RAM!Refused(a, n)
      BY <2>1 DEF RAM!Store, RAM!Completed
    <2>3. CellBytes' = [c \in CellAddr |->
             IF c - a \in 0 .. n - 1 THEN d[c - a] ELSE CellBytes[c]]
      <3> HIDE DEF d, a, n
      <3> QED
        BY <1>3, <2>1 DEF RAM!Store
    <2>4. \A k \in 0 .. n - 1 : d[k] = regs[ir.rs2][k]
      OBVIOUS
    <2>5. CellBytes' = [c \in CellAddr |->
             IF c - a \in 0 .. n - 1 THEN regs[ir.rs2][c - a] ELSE CellBytes[c]]
      <3> HIDE DEF d, a, n
      <3> QED
        BY <2>3, <2>4
    <2> QED
      BY <1>3, <1>4, <1>7, <2>2, <2>5
  <1> QED
    BY <1>4, <1>6, <1>7

-----------------------------------------------------------------------------
(* The invariant.                                                          *)

LEMMA ZeroType == Zero \in Register
  BY DEF Zero, Register, Byte

LEMMA CpuInvInit == CpuInit => CpuInv
  BY InvInit, ZeroType DEF CpuInit, CpuInv, RegsTypeOK, Inv

\* What TypeOK says of the variables that an instruction does not touch.
LEMMA BusType ==
  ASSUME TypeOK, host' \in [Host -> Byte], UNCHANGED <<paging, depth, wild>>,
         NEW n \in Size,
         \/ reply'.op \in {"none", "LoadAccessFault", "StoreAMOAccessFault"}
         \/ reply'.op \in {"load", "store"} /\ reply'.data \in [0 .. n - 1 -> Byte]
  PROVE  TypeOK'
  BY DEF TypeOK

LEMMA CpuInvStep == CpuInv /\ [CpuNext]_cpuVars => CpuInv'
  <1> SUFFICES ASSUME CpuInv, [CpuNext]_cpuVars PROVE CpuInv'
    OBVIOUS
  <1> USE DEF CpuInv, RegsTypeOK
  <1>1. CASE UNCHANGED cpuVars
    BY <1>1 DEF cpuVars, vars, TypeOK
  <1>2. CASE Fetch
    <2>1. TypeOK'
      BY <1>2 DEF Fetch, TypeOK
    <2>2. regs' \in [Reg -> Register] /\ regs'[0] = Zero
      BY <1>2, ZeroType, LoadStoreAssumption DEF Fetch
    <2> QED
      BY <1>2, <2>1, <2>2 DEF Fetch
  <1>3. CASE Execute /\ ExecuteLoad
    <2>0. ir.op \in {"L", "LU", "LR"}
      BY <1>3 DEF ExecuteLoad
    <2>1. ir.size \in Size /\ ir.rd \in Reg
      BY <2>0, Executing DEF Accesses
    <2>2. regs' \in [Reg -> Register]
      <3>1. CASE UNCHANGED regs
        BY <3>1
      <3>2. ASSUME NEW v \in Register, regs' = [regs EXCEPT ![ir.rd] = Widened(v)]
            PROVE  regs' \in [Reg -> Register]
        BY <2>0, <3>2, WidenedType
      <3> QED
        BY <1>3, <2>0, <3>1, <3>2, LoadOutcome
    <2>3. TypeOK'
      BY <1>3, <2>0, <2>1, LoadOutcome, BusType DEF Execute
    <2> QED
      BY <1>3, <2>2, <2>3 DEF Execute
  <1>4. CASE Execute /\ ExecuteStore
    <2>0. ir.op \in {"S", "SC"}
      BY <1>4 DEF ExecuteStore
    <2>1. ir.size \in Size /\ ir.rd \in Reg
      BY <2>0, Executing DEF Accesses
    <2>2. regs' \in [Reg -> Register]
      BY <1>4, <2>1, ZeroType DEF ExecuteStore
    <2>3. TypeOK'
      BY <1>4, <2>0, <2>1, StoreOutcome, BusType DEF Execute
    <2> QED
      BY <1>4, <2>2, <2>3 DEF Execute
  <1>5. CASE Execute /\ ExecutePlain
    <2>1. ir.op = "plain"
      BY <1>5 DEF ExecutePlain
    <2>2. regs' \in [Reg -> Register]
      BY <1>5, <2>1, Executing DEF ExecutePlain
    <2>3. TypeOK'
      BY <1>5 DEF Execute, ExecutePlain, TypeOK
    <2> QED
      BY <1>5, <2>2, <2>3 DEF Execute
  <1> QED
    BY <1>1, <1>2, <1>3, <1>4, <1>5 DEF CpuNext, Execute

LEMMA CpuInvariant == CpuSpec => []CpuInv
  BY CpuInvInit, CpuInvStep, PTL DEF CpuSpec

-----------------------------------------------------------------------------
(* The refinement.                                                         *)

LEMMA InitImplements == CpuInit => ISA!Init
  <1> SUFFICES ASSUME CpuInit PROVE ISA!Init
    OBVIOUS
  <1>1. CellBytes \in [CellAddr -> Byte]
    BY InvInit, CellIndex DEF CpuInit, CellBytes, TypeOK, Inv
  <1>2. Visible \in [Reg -> Register] /\ Visible[0] = Zero
    BY ZeroType, LoadStoreAssumption DEF CpuInit, Visible
  <1> QED
    BY <1>1, <1>2
    DEF CpuInit, ISA!Init, ISA!Byte, ISA!Register, ISA!Zero, ISA!none,
        Byte, Register, Zero, none

\* SetReg in the register array is SetReg in what the guest sees of it.
LEMMA SetRegSeen ==
  ASSUME CpuInv, ir.op \in Accesses \cup {"plain"}, NEW v,
         regs' = [regs EXCEPT ![ir.rd] = v]
  PROVE  ISA!SetReg(v)
  <1>1. Visible = regs /\ ir.rd \in Reg /\ regs \in [Reg -> Register]
    BY Seen, Executing DEF CpuInv, RegsTypeOK
  <1>2. Visible' = [r \in Reg |-> IF r = 0 THEN Zero ELSE regs'[r]]
    BY DEF Visible
  <1>3. regs[0] = Zero
    BY Executing
  <1>4. \A r \in Reg : (IF r = 0 THEN Zero ELSE regs'[r]) = (IF r = ir.rd /\ r # 0 THEN v ELSE regs[r])
    BY <1>1, <1>3
  <1> QED
    BY <1>1, <1>2, <1>4 DEF ISA!SetReg

\* What the bus refuses, IsaMemory refuses, and nothing else.
LEMMA RefusedSeen ==
  ASSUME CpuInv, ir.op \in {"L", "LU", "S"}, Agrees(ir)
  PROVE  ISA!Refused <=> RAM!Refused(Addr, ir.size)
  BY Seen DEF ISA!Refused, RAM!Refused, Accesses

\* A device's load may give rd anything.
LEMMA LoadImplements ==
  ASSUME CpuInv, Execute, ExecuteLoad, Agrees(ir)
  PROVE  ISA!Execute
  <1> USE DEF Accesses
  <1>0. ir.op \in {"L", "LU"} /\ ir # none /\ ir' = none
    BY Executing DEF ExecuteLoad, Execute, Agrees
  <1>1. UNCHANGED CellBytes
    BY <1>0, LoadOutcome
  <1>2. CASE RAM!Refused(Addr, ir.size) /\ UNCHANGED regs
    <2>1. UNCHANGED Visible
      BY <1>2 DEF Visible
    <2>2. ISA!Fault
      BY <1>0, <1>1, <1>2, <2>1, RefusedSeen DEF ISA!Fault
    <2> QED
      BY <1>0, <2>2 DEF ISA!Execute, ISA!none, none
  <1>3. ASSUME ~RAM!Refused(Addr, ir.size),
               NEW d \in [0 .. ir.size - 1 -> Byte], NEW v \in Register,
               \A k \in 0 .. ir.size - 1 : Addr + k \in CellAddr => d[k] = CellBytes[Addr + k],
               v \in Data(d), regs' = [regs EXCEPT ![ir.rd] = Widened(v)]
        PROVE  ISA!Execute
    <2>1. ISA!Addr = Addr /\ ISA!Register = Register /\ ~ISA!Refused
      BY <1>0, <1>3, Seen, RefusedSeen DEF ISA!Register, ISA!Byte, Register, Byte
    <2>2. Widened(v) \in Register
      BY <1>0, WidenedType
    <2>3. ISA!SetReg(Widened(v))
      BY <1>0, <1>3, <2>2, SetRegSeen
    <2>4. ASSUME Addr \in CellAddr
          PROVE  /\ \A k \in 0 .. ir.size - 1 :
                       Addr + k \in CellAddr => Widened(v)[k] = CellBytes[Addr + k]
                 /\ ISA!Extended(Widened(v))
      <3>1. ir.size \in 1 .. Width /\ Width \in Nat
        BY <1>0, Executing, LoadStoreAssumption
      <3>2. Target(Addr) = "ram"
        BY <1>0, <2>4, AddrInSpace, Executing, NotACell
      <3>3. \A k \in 0 .. Width - 1 : v[k] = IF k < ir.size THEN d[k] ELSE {}
        BY <1>3, <3>2 DEF Data, Stub
      <3>4. \A k \in 0 .. ir.size - 1 : Widened(v)[k] = d[k]
        BY <3>1, <3>3 DEF Widened
      <3>5. ISA!Extended(Widened(v))
        BY <1>0, <3>1, <3>3 DEF ISA!Extended, Widened
      <3> QED
        BY <1>3, <3>4, <3>5
    <2>5. ISA!Load
      BY <1>0, <1>1, <2>1, <2>2, <2>3, <2>4 DEF ISA!Load
    <2> QED
      BY <1>0, <2>5 DEF ISA!Execute, ISA!none, none
  <1> QED
    BY <1>0, <1>2, <1>3, LoadOutcome

LEMMA StoreImplements ==
  ASSUME CpuInv, Execute, ExecuteStore, Agrees(ir)
  PROVE  ISA!Execute
  <1> USE DEF Accesses
  <1>0. ir.op = "S" /\ ir # none /\ ir' = none
    BY Executing DEF ExecuteStore, Execute, Agrees
  <1>1. CASE RAM!Refused(Addr, ir.size) /\ UNCHANGED <<CellBytes, regs>>
    <2>1. UNCHANGED Visible
      BY <1>1 DEF Visible
    <2>2. ISA!Fault
      BY <1>0, <1>1, <2>1, RefusedSeen DEF ISA!Fault
    <2> QED
      BY <1>0, <2>2 DEF ISA!Execute, ISA!none, none
  <1>2. CASE /\ ~RAM!Refused(Addr, ir.size)
             /\ CellBytes' = [c \in CellAddr |->
                   IF c - Addr \in 0 .. ir.size - 1 THEN regs[ir.rs2][c - Addr] ELSE CellBytes[c]]
    <2>1. Visible = regs /\ ISA!Addr = Addr /\ ~ISA!Refused
      BY <1>0, <1>2, Seen, RefusedSeen
    <2>2. UNCHANGED Visible
      BY <1>0 DEF ExecuteStore, Visible
    <2>3. ISA!Store
      BY <1>0, <1>2, <2>1, <2>2 DEF ISA!Store, ISA!Written
    <2> QED
      BY <1>0, <2>3 DEF ISA!Execute, ISA!none, none
  <1> QED
    BY <1>0, <1>1, <1>2, StoreOutcome

LEMMA NextImplements ==
  CpuInv /\ [CpuNext]_cpuVars => [ir = none \/ Agrees(ir) => ISA!Next]_(ISA!vars)
  <1> SUFFICES ASSUME CpuInv, [CpuNext]_cpuVars, ir = none \/ Agrees(ir)
               PROVE  [ISA!Next]_(ISA!vars)
    OBVIOUS
  <1>1. CASE UNCHANGED cpuVars
    BY <1>1 DEF cpuVars, vars, ISA!vars, CellBytes, Visible
  <1>2. CASE Fetch
    <2>1. UNCHANGED CellBytes
      BY <1>2 DEF Fetch, CellBytes
    <2>2. \A r \in Reg \ {0} : regs'[r] = regs[r]
      BY <1>2 DEF Fetch, CpuInv, RegsTypeOK
    <2>3. UNCHANGED Visible
      BY <2>2 DEF Visible
    <2> QED
      BY <1>2, <2>1, <2>3 DEF Fetch, ISA!Next, ISA!Fetch, ISA!none, none
  <1>3. CASE Execute /\ ExecutePlain
    <2>1. ir.op = "plain" /\ ir' = none /\ UNCHANGED host
      BY <1>3 DEF Execute, ExecutePlain
    <2>2. ir # none /\ ir.value \in Register
      BY <2>1, Executing
    <2>3. ISA!SetReg(ir.value)
      BY <1>3, <2>1, <2>2, SetRegSeen DEF ExecutePlain
    <2>4. UNCHANGED CellBytes
      BY <2>1 DEF CellBytes
    <2>5. ISA!Plain
      BY <2>1, <2>2, <2>3, <2>4 DEF ISA!Plain, ISA!Register, ISA!Byte, Register, Byte
    <2> QED
      BY <2>1, <2>2, <2>5 DEF ISA!Next, ISA!Execute, ISA!none, none
  <1>4. CASE Execute /\ (ExecuteLoad \/ ExecuteStore)
    <2>1. ir # none
      BY <1>4, Executing DEF ExecuteLoad, ExecuteStore, Accesses
    <2> QED
      BY <1>4, <2>1, LoadImplements, StoreImplements DEF ISA!Next
  <1> QED
    BY <1>1, <1>2, <1>3, <1>4 DEF CpuNext, Execute

\* Every load and store but those with a negative offset does to registers and memory
\* what the ISA says, at every address of every layout: what was stored last comes
\* back, extended as the opcode says; it faults exactly where nothing answers or the
\* device is too narrow, and then changes nothing; x0 stays zero.
THEOREM LoadStoreImplementsIsa == CpuSpec => ImplementsIsaMemory
  BY CpuInvariant, InitImplements, NextImplements, PTL
  DEF CpuSpec, ImplementsIsaMemory
=============================================================================
