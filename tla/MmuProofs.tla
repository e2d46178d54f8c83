------------------------------- MODULE MmuProofs -------------------------------
(***************************************************************************)
(* The bus implements Memory for every layout of the devices that has RAM  *)
(* above the others and a UART region that ends within its reach of RAM,   *)
(* for every size of the arrays and of the accesses.                       *)
(***************************************************************************)
EXTENDS Mmu, TLAPS

\* What the assumption says of the numbers of the layout.
LEMMA Layout ==
  /\ \A d \in Device : Base[d] \in Nat \ {0} /\ Extent[d] \in Nat \ {0}
  /\ RamSize \in Nat \ {0} /\ Vptr \in Nat /\ Buffer \in Nat \ {0} /\ Lsr \in 0 .. Buffer - 1
  /\ BufferStart = RamSize + Vptr
  /\ Vptr < Extent["uart"] /\ Extent["uart"] <= BufferStart
  /\ Size \subseteq Nat \ {0} /\ \A n \in Size : n <= Vptr + Buffer
  /\ Space \subseteq Nat /\ HostStack \in Nat \ {0}
  <1>1. /\ \A d \in Device : Base[d] \in Nat \ {0} /\ Extent[d] \in Nat \ {0}
        /\ "ram" \in Device
    BY MmuAssumption DEF Device
  <1>2. RamSize \in Nat \ {0} /\ BufferStart = RamSize + Vptr
    BY <1>1 DEF RamSize, BufferStart
  <1>3. Buffer \in Nat \ {0}
    BY MmuAssumption
  <1>4. Vptr < Extent["uart"] /\ Extent["uart"] <= BufferStart
    BY <1>2, MmuAssumption
  <1> QED
    BY <1>1, <1>2, <1>3, <1>4, MmuAssumption

\* The indices of the object that the devices use.
LEMMA HostIndex ==
  /\ Host = 0 .. BufferStart + Buffer - 1
  /\ BufferStart + Lsr \in Host
  /\ Untouched \subseteq 0 .. RamSize - 1
  <1>1. Host = 0 .. BufferStart + Buffer - 1
    BY Layout DEF Host, BufferStart
  <1>2. BufferStart + Lsr \in Host
    <2>1. BufferStart \in Nat /\ Buffer \in Nat /\ Lsr \in 0 .. Buffer - 1
      BY Layout
    <2> QED
      BY <1>1, <2>1
  <1>3. Untouched \subseteq 0 .. RamSize - 1
    <2> DEFINE u == Extent["uart"]
    <2>1. u \in Nat
      BY Layout DEF Device
    <2>2. BufferStart - u <= RamSize - 1 /\ BufferStart - u \in Int /\ RamSize \in Int
      BY <2>1, Layout
    <2>3. Untouched = 0 .. BufferStart - u
      BY DEF Untouched
    <2> HIDE DEF u
    <2> QED
      BY <2>2, <2>3
  <1> QED
    BY <1>1, <1>2, <1>3

\* An access is served by the device its address is in.
LEMMA Served ==
  ASSUME NEW a \in Space
  PROVE  /\ Target(a) = "ram" <=> a - Base["ram"] \in 0 .. RamSize - 1
         /\ Target(a) \in {"uart"} \cup Stub =>
              LET d == Target(a) IN d \in Device \ {"ram"} /\ a - Base[d] \in 0 .. Extent[d] - 1
         /\ Target(a) \in Device \cup {"none"}
         /\ Target(a) = "none" <=> a \in HoleAddr
         /\ Target(a) = "uart" <=> a \in NarrowAddr
  <1>1. \A d \in Device : IsValidAddr(d, a) <=> a - Base[d] \in 0 .. Extent[d] - 1
    BY Layout DEF IsValidAddr
  <1>2. (\E d \in Device : IsValidAddr(d, a)) <=> a \notin HoleAddr
    BY <1>1 DEF HoleAddr
  <1>3. IsValidAddr("uart", a) <=> a \in NarrowAddr
    BY <1>1 DEF NarrowAddr, Device
  <1>4. ~(IsValidAddr("ram", a) /\ IsValidAddr("uart", a))
    <2> SUFFICES ASSUME IsValidAddr("ram", a), IsValidAddr("uart", a) PROVE FALSE
      OBVIOUS
    <2> PICK n \in Size : TRUE
      BY MmuAssumption
    <2>1. Base["uart"] + Extent["uart"] + n - 2 < Base["ram"]
      BY MmuAssumption DEF Device
    <2>2. n \in Nat \ {0} /\ Base["uart"] \in Nat /\ Extent["uart"] \in Nat /\ Base["ram"] \in Nat
      BY Layout DEF Device
    <2> QED
      BY <2>1, <2>2, Layout DEF IsValidAddr
  <1> QED
    BY <1>1, <1>2, <1>3, <1>4 DEF Target, Device, Stub, RamSize

\* No access to a device but RAM starts in a cell or reaches one.
LEMMA CellsAreRam ==
  ASSUME NEW a \in Space, Target(a) # "ram", NEW n \in Size, NEW k \in 0 .. n - 1
  PROVE  /\ a \notin CellAddr
         /\ Target(a) # "none" => a + k \notin CellAddr
  <1>1. CellAddr = {Base["ram"] + i : i \in Untouched} /\ a \in Nat /\ Base["ram"] \in Nat
        /\ k \in Nat /\ n \in Nat /\ k <= n - 1
    BY Layout DEF CellAddr, Device
  <1>2. a \notin CellAddr
    <2> SUFFICES ASSUME NEW i \in Untouched, a = Base["ram"] + i PROVE FALSE
      BY <1>1
    <2>1. a - Base["ram"] \in 0 .. RamSize - 1
      BY <1>1, HostIndex, Layout
    <2> QED
      BY <2>1, Served
  <1>3. ASSUME Target(a) # "none", NEW i \in Untouched, a + k = Base["ram"] + i
        PROVE  FALSE
    <2> DEFINE d == Target(a)
    <2>1. d \in Device \ {"ram"} /\ a - Base[d] \in 0 .. Extent[d] - 1
      BY <1>3, Served DEF Device, Stub
    <2>2. Base[d] + Extent[d] + n - 2 < Base["ram"]
      BY <2>1, MmuAssumption
    <2>3. Base[d] \in Nat /\ Extent[d] \in Nat /\ i \in Nat
      BY <2>1, Layout, HostIndex
    <2> HIDE DEF d
    <2> QED
      BY <1>1, <1>3, <2>1, <2>2, <2>3
  <1> QED
    BY <1>1, <1>2, <1>3

-----------------------------------------------------------------------------
(* Types.                                                                  *)

\* An access to the last bytes of the array reaches the object behind it, not further.
LEMMA RamIndices ==
  ASSUME NEW a \in Space, NEW n \in Size, Target(a) = "ram"
  PROVE  \A k \in 0 .. n - 1 : a - Base["ram"] + k \in Host
  <1>1. a - Base["ram"] \in 0 .. RamSize - 1
    BY Served
  <1> QED
    BY <1>1, Layout, HostIndex

\* The UART's index counts back no further than to the start of RAM.
LEMMA UartIndices ==
  ASSUME NEW a \in Space, Target(a) = "uart"
  PROVE  BufferStart + Lsr \in Host /\ UartIndex(a) \in Host
  <1> DEFINE u == Extent["uart"]
             b == Base["uart"]
  <1>1. /\ u \in Nat \ {0} /\ b \in Nat /\ BufferStart \in Nat /\ a \in Nat /\ Buffer \in Nat \ {0}
        /\ a - b \in 0 .. u - 1 /\ u <= BufferStart
    BY Layout, Served DEF Device
  <1>2. UartIndex(a) = BufferStart + b - a
    BY DEF UartIndex
  <1> HIDE DEF u, b
  <1>3. UartIndex(a) \in 0 .. BufferStart + Buffer - 1
    BY <1>1, <1>2
  <1> QED
    BY <1>3, HostIndex

LEMMA LoadData ==
  ASSUME TypeOK, NEW a \in Space, NEW n \in Size, RamLoad(a, n)
  PROVE  [k \in 0 .. n - 1 |-> host[a - Base["ram"] + k]] \in [0 .. n - 1 -> Byte]
  BY RamIndices DEF TypeOK, RamLoad

\* So no access leaves the object.
LEMMA LoadStays ==
  ASSUME TypeOK, NEW a \in Space, NEW n \in Size, Load(a, n)
  PROVE  wild' = wild
  <1>1. CASE RamLoad(a, n)
    <2>1. {a - Base["ram"] + k : k \in 0 .. n - 1} \subseteq Host
      BY <1>1, RamIndices DEF RamLoad
    <2> QED
      BY <1>1, <2>1 DEF RamLoad, Uses, TypeOK
  <1>2. CASE UartLoad(a, n)
    <2>1. {BufferStart + Lsr, UartIndex(a)} \subseteq Host
      BY <1>2, UartIndices DEF UartLoad
    <2> QED
      BY <1>2, <2>1 DEF UartLoad, Uses, TypeOK
  <1>3. CASE StubLoad(a, n) \/ Unmapped(a, n, "LoadAccessFault")
    BY <1>3 DEF StubLoad, Unmapped
  <1> QED
    BY <1>1, <1>2, <1>3 DEF Load

LEMMA StoreStays ==
  ASSUME TypeOK, NEW a \in Space, NEW n \in Size, NEW d, Store(a, n, d)
  PROVE  wild' = wild
  <1>1. CASE RamStore(a, n, d)
    <2>1. {a - Base["ram"] + k : k \in 0 .. n - 1} \subseteq Host
      BY <1>1, RamIndices DEF RamStore
    <2> QED
      BY <1>1, <2>1 DEF RamStore, Uses, TypeOK
  <1>2. CASE UartStore(a, n, d)
    <2>1. {BufferStart + Lsr} \subseteq Host
      BY HostIndex
    <2> QED
      BY <1>2, <2>1 DEF UartStore, Uses, TypeOK
  <1>3. CASE StubStore(a, n, d) \/ Unmapped(a, n, "StoreAMOAccessFault")
    BY <1>3 DEF StubStore, Unmapped
  <1> QED
    BY <1>1, <1>2, <1>3 DEF Store

\* Clearing a bit of lsr leaves bytes.
LEMMA UartClears ==
  ASSUME TypeOK, NEW a
  PROVE  (IF a = Base["uart"] THEN [host EXCEPT ![BufferStart + Lsr] = @ \ {"rx_ready"}]
          ELSE host) \in [Host -> Byte]
  <1>1. host[BufferStart + Lsr] \in Byte
    BY HostIndex DEF TypeOK
  <1>2. host[BufferStart + Lsr] \ {"rx_ready"} \in Byte
    BY <1>1 DEF Byte
  <1> QED
    BY <1>2 DEF TypeOK

\* A load returns bytes and leaves bytes; so does a store of bytes.
LEMMA LoadType ==
  ASSUME TypeOK, NEW a \in Space, NEW n \in Size, Load(a, n)
  PROVE  /\ host' \in [Host -> Byte]
         /\ \/ reply' = [op |-> "LoadAccessFault", addr |-> a, size |-> n]
            \/ \E d \in [0 .. n - 1 -> Byte] : reply' = [op |-> "load", addr |-> a, size |-> n, data |-> d]
  <1> USE DEF Loaded, Throws
  <1>1. CASE RamLoad(a, n)
    <2> DEFINE d == [k \in 0 .. n - 1 |-> host[a - Base["ram"] + k]]
    <2>2. d \in [0 .. n - 1 -> Byte]
      BY <1>1, LoadData
    <2>3. reply' = [op |-> "load", addr |-> a, size |-> n, data |-> d] /\ host' = host
      BY <1>1 DEF RamLoad
    <2> QED
      BY <2>2, <2>3 DEF TypeOK
  <1>2. CASE UartLoad(a, n)
    <2> DEFINE d == [k \in 0 .. n - 1 |-> {}]
    <2>1. d \in [0 .. n - 1 -> Byte]
      BY DEF Byte
    <2>2. CASE n # 1
      BY <1>2, <2>2 DEF UartLoad, TypeOK
    <2>3. CASE n = 1
      <3> DEFINE lsr == BufferStart + Lsr
                 cleared == IF a = Base["uart"]
                            THEN [host EXCEPT ![lsr] = @ \ {"rx_ready"}] ELSE host
      <3>1. /\ host' = [cleared EXCEPT ![UartIndex(a)] = {}]
            /\ reply' = [op |-> "load", addr |-> a, size |-> n, data |-> d]
        BY <1>2, <2>3 DEF UartLoad
      <3>2. cleared \in [Host -> Byte]
        BY UartClears
      <3>3. {} \in Byte
        BY DEF Byte
      <3> HIDE DEF cleared, d
      <3>4. host' \in [Host -> Byte]
        BY <3>1, <3>2, <3>3
      <3> QED
        BY <2>1, <3>1, <3>4
    <2> QED
      BY <2>2, <2>3
  <1>3. CASE StubLoad(a, n)
    <2>1. \A d \in [0 .. n - 1 -> StoredByte] : d \in [0 .. n - 1 -> Byte]
      BY MmuAssumption
    <2> QED
      BY <1>3, <2>1 DEF StubLoad, TypeOK
  <1>4. CASE Unmapped(a, n, "LoadAccessFault")
    BY <1>4 DEF Unmapped, TypeOK
  <1> QED
    BY <1>1, <1>2, <1>3, <1>4 DEF Load

LEMMA StoreType ==
  ASSUME TypeOK, NEW a \in Space, NEW n \in Size, NEW d \in [0 .. n - 1 -> Byte],
         Store(a, n, d)
  PROVE  /\ host' \in [Host -> Byte]
         /\ \/ reply' = [op |-> "StoreAMOAccessFault", addr |-> a, size |-> n]
            \/ reply' = [op |-> "store", addr |-> a, size |-> n, data |-> d]
  <1> USE DEF Stored, Throws
  <1>1. CASE RamStore(a, n, d)
    BY <1>1 DEF RamStore, TypeOK
  <1>2. CASE UartStore(a, n, d)
    <2>1. host[BufferStart + Lsr] \cup {"tx_idle"} \in Byte
      <3>1. host[BufferStart + Lsr] \in Byte
        BY HostIndex DEF TypeOK
      <3> QED
        BY <3>1 DEF Byte, Bits
    <2> QED
      BY <1>2, <2>1 DEF UartStore, TypeOK
  <1>3. CASE StubStore(a, n, d)
    BY <1>3 DEF StubStore, TypeOK
  <1>4. CASE Unmapped(a, n, "StoreAMOAccessFault")
    BY <1>4 DEF Unmapped, TypeOK
  <1> QED
    BY <1>1, <1>2, <1>3, <1>4 DEF Store

\* What an access leaves behind, whichever it is.
LEMMA AccessType ==
  ASSUME TypeOK, Access
  PROVE  /\ host' \in [Host -> Byte] /\ wild' = wild
         /\ \/ reply'.op \in {"LoadAccessFault", "StoreAMOAccessFault"}
            \/ reply'.op \in {"load", "store"} /\ \E n \in Size : reply'.data \in [0 .. n - 1 -> Byte]
  <1> PICK a \in Space, n \in Size :
           Load(a, n) \/ \E d \in [0 .. n - 1 -> StoredByte] : Store(a, n, d)
    BY DEF Access
  <1>1. \A d \in [0 .. n - 1 -> StoredByte] : d \in [0 .. n - 1 -> Byte]
    BY MmuAssumption
  <1>2. CASE Load(a, n)
    BY <1>2, LoadType, LoadStays
  <1>3. ASSUME NEW d \in [0 .. n - 1 -> StoredByte], Store(a, n, d)
        PROVE  /\ host' \in [Host -> Byte] /\ wild' = wild
               /\ \/ reply'.op \in {"LoadAccessFault", "StoreAMOAccessFault"}
                  \/ reply'.op \in {"load", "store"} /\ reply'.data \in [0 .. n - 1 -> Byte]
    BY <1>1, <1>3, StoreType, StoreStays
  <1> QED
    BY <1>2, <1>3

Inv == TypeOK /\ StaysInObject

LEMMA InvInit == Init => Inv
  <1> SUFFICES ASSUME Init PROVE Inv
    OBVIOUS
  <1>1. host \in [Host -> Byte]
    BY MmuAssumption DEF Init
  <1>2. 0 \in 0 .. HostStack
    BY Layout
  <1>3. reply.op = "none" /\ paging = "Bare" /\ depth = 0 /\ wild = FALSE
    BY DEF Init
  <1> QED
    BY <1>1, <1>2, <1>3 DEF Inv, TypeOK, StaysInObject

LEMMA InvStep == Inv /\ [Next]_vars => Inv'
  <1> SUFFICES ASSUME Inv, [Next]_vars PROVE Inv'
    OBVIOUS
  <1> USE DEF Inv, StaysInObject
  <1>1. CASE Access
    BY <1>1, AccessType DEF Access, TypeOK
  <1>2. CASE SetPagingMode
    BY <1>2 DEF SetPagingMode, TypeOK
  <1>3. CASE Translate
    <2>1. depth' \in 0 .. HostStack
      BY <1>3, Layout DEF Translate, TypeOK
    <2>2. UNCHANGED <<paging, host, wild, reply>>
      BY <1>3 DEF Translate
    <2> QED
      BY <2>1, <2>2 DEF TypeOK
  <1>4. CASE UNCHANGED vars
    BY <1>4 DEF vars, TypeOK
  <1> QED
    BY <1>1, <1>2, <1>3, <1>4 DEF Next

LEMMA InvInvariant == Spec => []Inv
  BY InvInit, InvStep, PTL DEF Spec

\* No index of RAM or of the UART leaves the object the two lie in, for every size of
\* the regions in which the UART's is not larger than RAM and the UART's vptr.
THEOREM AccessesStayInTheObject == Spec => []StaysInObject
  BY InvInvariant, PTL DEF Inv
-----------------------------------------------------------------------------
(* The refinement.                                                         *)

LEMMA NotACell ==
  ASSUME NEW a \in Space, NEW n \in Size, Target(a) # "ram"
  PROVE  a \notin CellAddr
  <1>1. 0 \in 0 .. n - 1
    BY Layout
  <1> QED
    BY <1>1, CellsAreRam

\* A step keeps the cells when it keeps the bytes of the object before the end that
\* the UART's index reaches.
LEMMA CellsKept ==
  ASSUME \A i \in Untouched : host'[i] = host[i]
  PROVE  UNCHANGED CellBytes
  <1>1. \A c \in CellAddr : c - Base["ram"] \in Untouched
    <2> TAKE c \in CellAddr
    <2>1. PICK i \in Untouched : c = Base["ram"] + i
      BY DEF CellAddr
    <2>2. Base["ram"] \in Nat /\ i \in Int
      BY Layout DEF Device, Untouched
    <2> QED
      BY <2>1, <2>2
  <1> QED
    BY <1>1 DEF CellBytes

\* The place of a cell in the object.
LEMMA CellIndex ==
  ASSUME NEW c \in CellAddr
  PROVE  c \in Nat /\ c - Base["ram"] \in Untouched /\ c - Base["ram"] \in Host
  <1>1. PICK i \in Untouched : c = Base["ram"] + i
    BY DEF CellAddr
  <1>2. i \in 0 .. RamSize - 1 /\ RamSize \in Nat /\ Base["ram"] \in Nat
    BY HostIndex, Layout DEF Device
  <1>3. i \in Host
    BY <1>2, HostIndex, Layout
  <1> QED
    BY <1>1, <1>2, <1>3

LEMMA UntouchedInHost == Untouched \subseteq Host
  BY HostIndex, Layout

\* The bytes that an access to the UART changes lie behind the untouched ones.
LEMMA UartReach ==
  ASSUME NEW a \in Space, Target(a) = "uart"
  PROVE  BufferStart + Lsr \notin Untouched /\ UartIndex(a) \notin Untouched
  <1> DEFINE u == Extent["uart"]
             b == Base["uart"]
  <1>1. /\ u \in Nat \ {0} /\ b \in Nat /\ BufferStart \in Nat /\ Lsr \in Nat /\ a \in Nat
        /\ a - b \in 0 .. u - 1
    BY Layout, Served DEF Device
  <1>2. Untouched = 0 .. BufferStart - u
    BY DEF Untouched
  <1> HIDE DEF u, b
  <1>3. BufferStart + Lsr \notin Untouched /\ BufferStart + b - a \notin Untouched
    BY <1>1, <1>2
  <1> QED
    BY <1>3 DEF b, UartIndex

\* A load is a load or a fault of Memory.
LEMMA LoadIsLoad ==
  ASSUME TypeOK, NEW a \in Space, NEW n \in Size, Load(a, n)
  PROVE  RAM!Load \/ RAM!Fault
  <1> USE DEF Loaded, Throws
  <1>1. CASE Unmapped(a, n, "LoadAccessFault")
    <2>1. Target(a) = "none" /\ reply' = [op |-> "LoadAccessFault", addr |-> a, size |-> n] /\ host' = host
      BY <1>1 DEF Unmapped
    <2>2. RAM!Refused(a, n)
      BY <2>1, Served DEF RAM!Refused
    <2> QED
      BY <2>1, <2>2, CellsKept DEF RAM!Fault
  <1>2. ASSUME NEW d \in [0 .. n - 1 -> Byte],
               reply' = [op |-> "load", addr |-> a, size |-> n, data |-> d],
               Target(a) # "none", Target(a) = "uart" => n = 1,
               \A k \in 0 .. n - 1 : a + k \in CellAddr => d[k] = CellBytes[a + k],
               \A i \in Untouched : host'[i] = host[i]
        PROVE  RAM!Load
    <2>1. d \in RAM!Data
      BY DEF RAM!Data
    <2>2. DOMAIN d = 0 .. n - 1
      OBVIOUS
    <2>3. ~RAM!Refused(a, n)
      BY <1>2, Served DEF RAM!Refused
    <2>4. UNCHANGED CellBytes
      BY <1>2, CellsKept
    <2> QED
      BY <1>2, <2>1, <2>2, <2>3, <2>4 DEF RAM!Load, RAM!Completed
  <1>3. CASE RamLoad(a, n)
    <2> DEFINE d == [k \in 0 .. n - 1 |-> host[a - Base["ram"] + k]]
    <2>1. reply' = [op |-> "load", addr |-> a, size |-> n, data |-> d] /\ host' = host /\ Target(a) = "ram"
      BY <1>3 DEF RamLoad
    <2>2. d \in [0 .. n - 1 -> Byte]
      BY <1>3, LoadData
    <2>3. ASSUME NEW k \in 0 .. n - 1, a + k \in CellAddr
          PROVE  d[k] = CellBytes[a + k]
      <3>1. a \in Int /\ k \in Int /\ Base["ram"] \in Int
        BY Layout DEF Device
      <3>2. (a + k) - Base["ram"] = (a - Base["ram"]) + k
        BY <3>1
      <3> QED
        BY <2>3, <3>2 DEF CellBytes
    <2> HIDE DEF d
    <2> QED
      BY <1>2, <2>1, <2>2, <2>3
  <1>4. CASE UartLoad(a, n) /\ n # 1
    <2>1. Target(a) = "uart" /\ reply' = [op |-> "LoadAccessFault", addr |-> a, size |-> n] /\ host' = host
      BY <1>4 DEF UartLoad
    <2>2. RAM!Refused(a, n)
      BY <1>4, <2>1, Served DEF RAM!Refused
    <2> QED
      BY <2>1, <2>2, CellsKept DEF RAM!Fault
  <1>5. CASE UartLoad(a, n) /\ n = 1
    <2> DEFINE d == [k \in 0 .. n - 1 |-> {}]
    <2>1. Target(a) = "uart" /\ reply' = [op |-> "load", addr |-> a, size |-> n, data |-> d]
      BY <1>5 DEF UartLoad
    <2>2. d \in [0 .. n - 1 -> Byte]
      BY DEF Byte
    <2>3. \A k \in 0 .. n - 1 : a + k \notin CellAddr
      BY <2>1, CellsAreRam
    <2>4. \A i \in Untouched : host'[i] = host[i]
      <3> DEFINE lsr == BufferStart + Lsr
                 cleared == IF a = Base["uart"]
                            THEN [host EXCEPT ![lsr] = @ \ {"rx_ready"}] ELSE host
                 out == UartIndex(a)
      <3>1. host' = [cleared EXCEPT ![out] = {}]
        BY <1>5 DEF UartLoad
      <3>2. lsr \notin Untouched /\ out \notin Untouched
        BY <2>1, UartReach
      <3>3. host \in [Host -> Byte] /\ cleared \in [Host -> Byte] /\ Untouched \subseteq Host
        BY <1>5, UartClears, UntouchedInHost DEF TypeOK
      <3>4. \A i \in Untouched : cleared[i] = host[i]
        <4> HIDE DEF lsr
        <4> QED
          BY <3>2, <3>3
      <3> HIDE DEF cleared, lsr, out
      <3> QED
        BY <3>1, <3>2, <3>3, <3>4
    <2> HIDE DEF d
    <2> QED
      BY <1>2, <1>5, <2>1, <2>2, <2>3, <2>4
  <1>6. CASE StubLoad(a, n)
    <2>1. PICK d \in [0 .. n - 1 -> StoredByte] :
               reply' = [op |-> "load", addr |-> a, size |-> n, data |-> d]
      BY <1>6 DEF StubLoad
    <2>2. d \in [0 .. n - 1 -> Byte]
      BY MmuAssumption
    <2>3. \A k \in 0 .. n - 1 : a + k \notin CellAddr
      BY <1>6, CellsAreRam DEF StubLoad, Stub
    <2> QED
      BY <1>2, <1>6, <2>1, <2>2, <2>3 DEF StubLoad, Stub
  <1> QED
    BY <1>1, <1>3, <1>4, <1>5, <1>6 DEF Load

\* A store is a store or a fault of Memory.
LEMMA StoreIsStore ==
  ASSUME TypeOK, NEW a \in Space, NEW n \in Size, NEW d \in [0 .. n - 1 -> Byte],
         Store(a, n, d)
  PROVE  RAM!Store \/ RAM!Fault
  <1> USE DEF Stored, Throws
  <1>1. ASSUME Target(a) = "none" \/ (Target(a) = "uart" /\ n # 1), reply' = [op |-> "StoreAMOAccessFault", addr |-> a, size |-> n], host' = host
        PROVE  RAM!Fault
    BY <1>1, Served, CellsKept DEF RAM!Fault, RAM!Refused
  <1>2. d \in RAM!Data /\ DOMAIN d = 0 .. n - 1
    BY DEF RAM!Data
  <1>3. CASE RamStore(a, n, d)
    <2> DEFINE r == Base["ram"]
               first == a - r
    <2>1. /\ reply' = [op |-> "store", addr |-> a, size |-> n, data |-> d] /\ Target(a) = "ram"
          /\ host' = [i \in Host |-> IF i - first \in 0 .. n - 1 THEN d[i - first] ELSE host[i]]
      BY <1>3 DEF RamStore
    <2>2. ~RAM!Refused(a, n)
      BY <2>1, Served DEF RAM!Refused
    <2>3. ASSUME NEW c \in CellAddr
          PROVE  /\ c - r \in Host
                 /\ (c - r) - first = c - a
      BY CellIndex, Layout DEF Device
    <2>4. CellBytes' = [c \in CellAddr |-> host'[c - r]]
      BY DEF CellBytes
    <2>5. \A c \in CellAddr :
             host'[c - r] = IF c - a \in 0 .. n - 1 THEN d[c - a] ELSE host[c - r]
      BY <2>1, <2>3
    <2>6. CellBytes' = [c \in CellAddr |->
             IF c - a \in DOMAIN d THEN d[c - a] ELSE CellBytes[c]]
      BY <1>2, <2>4, <2>5 DEF CellBytes
    <2> HIDE DEF first, r
    <2> QED
      BY <1>2, <2>1, <2>2, <2>6 DEF RAM!Store, RAM!Completed
  <1>4. ASSUME Target(a) \in {"uart"} \cup Stub, Target(a) = "uart" => n = 1, Stored(a, n, d),
               \A i \in Untouched : host'[i] = host[i]
        PROVE  RAM!Store
    <2>1. \A k \in 0 .. n - 1 : a + k \notin CellAddr
      BY <1>4, CellsAreRam DEF Stub
    <2>2. \A c \in CellAddr : c - a \notin 0 .. n - 1
      <3> SUFFICES ASSUME NEW c \in CellAddr, c - a \in 0 .. n - 1 PROVE FALSE
        OBVIOUS
      <3>1. a + (c - a) = c
        BY CellIndex, Layout
      <3> QED
        BY <2>1, <3>1
    <2>3. CellBytes' = [c \in CellAddr |->
             IF c - a \in DOMAIN d THEN d[c - a] ELSE CellBytes[c]]
      BY <1>2, <1>4, <2>2, CellsKept DEF CellBytes
    <2>4. ~RAM!Refused(a, n)
      BY <1>4, Served DEF RAM!Refused, Stub
    <2> QED
      BY <1>2, <1>4, <2>3, <2>4 DEF RAM!Store, RAM!Completed
  <1>5. CASE UartStore(a, n, d)
    <2>1. CASE n # 1
      BY <1>1, <1>5, <2>1 DEF UartStore
    <2>2. CASE n = 1
      <3>1. \A i \in Untouched : host'[i] = host[i]
        <4> DEFINE lsr == BufferStart + Lsr
        <4>1. host' = IF a = Base["uart"] THEN [host EXCEPT ![lsr] = @ \cup {"tx_idle"}] ELSE host
          BY <1>5, <2>2 DEF UartStore
        <4>2. lsr \notin Untouched
          BY <1>5, UartReach DEF UartStore
        <4>3. host \in [Host -> Byte] /\ Untouched \subseteq Host
          BY UntouchedInHost DEF TypeOK
        <4> HIDE DEF lsr
        <4> QED
          BY <4>1, <4>2, <4>3
      <3> QED
        BY <1>4, <1>5, <2>2, <3>1 DEF UartStore
    <2> QED
      BY <2>1, <2>2
  <1>6. CASE StubStore(a, n, d)
    BY <1>4, <1>6 DEF StubStore, Stub
  <1>7. CASE Unmapped(a, n, "StoreAMOAccessFault")
    BY <1>1, <1>7 DEF Unmapped
  <1> QED
    BY <1>3, <1>5, <1>6, <1>7 DEF Store

LEMMA InitRefines == Init => RAM!Init
  <1> SUFFICES ASSUME Init PROVE RAM!Init
    OBVIOUS
  <1>1. host \in [Host -> Byte] /\ reply = [op |-> "none"]
    BY MmuAssumption DEF Init
  <1>2. \A c \in CellAddr : host[c - Base["ram"]] \in Byte
    BY <1>1, CellIndex
  <1> QED
    BY <1>1, <1>2 DEF RAM!Init, CellBytes

LEMMA NextRefines == TypeOK /\ [Next]_vars => [RAM!Next]_(RAM!vars)
  <1> SUFFICES ASSUME TypeOK, [Next]_vars PROVE [RAM!Next]_(RAM!vars)
    OBVIOUS
  <1>1. CASE Access
    <2> PICK a \in Space, n \in Size :
             Load(a, n) \/ \E d \in [0 .. n - 1 -> StoredByte] : Store(a, n, d)
      BY <1>1 DEF Access
    <2>1. \A d \in [0 .. n - 1 -> StoredByte] : d \in [0 .. n - 1 -> Byte]
      BY MmuAssumption
    <2>2. RAM!Load \/ RAM!Store \/ RAM!Fault
      BY <2>1, LoadIsLoad, StoreIsStore
    <2> QED
      BY <2>2 DEF RAM!Next
  <1>2. CASE UNCHANGED <<host, reply>>
    BY <1>2 DEF RAM!vars, CellBytes
  <1> QED
    BY <1>1, <1>2 DEF Next, SetPagingMode, Translate, vars

\* What the guest stores to memory it loads again, whatever it does to the devices
\* and at the end of RAM; every access to an address of nothing faults, and every wide
\* one to the UART, and no other.
THEOREM MmuImplementsMemory == Spec => ImplementsMemory
  <1>1. Spec => []TypeOK
    BY InvInvariant, PTL DEF Inv
  <1> QED
    BY <1>1, InitRefines, NextRefines, PTL DEF Spec, ImplementsMemory, RAM!Spec
=============================================================================
