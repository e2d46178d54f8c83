---------------------------------- MODULE Mmu ----------------------------------
(***************************************************************************)
(* MMU::Load and MMU::Store: the bus between the hart and its devices, the *)
(* RAM and UART behind it, the devices that are stubs, and the recursion   *)
(* of Translate into Load once paging is on.                               *)
(*                                                                         *)
(* An MMU object holds the bytes of RAM, then the UART: its vptr, then its *)
(* buffer.  The devices index these arrays without a check, so the model   *)
(* keeps the bytes of the object in one array, host, in this order, and    *)
(* records in wild whether an index has ever left it.                      *)
(* Data is a function from byte numbers: memcpy on a little-endian host.   *)
(***************************************************************************)
EXTENDS Integers

CONSTANTS
  Base, Extent, \* first address and size of each device's region
  Vptr, Buffer, \* bytes of the UART's vptr and of its buffer
  Lsr,          \* lsr - UART_BASE
  Space,        \* the physical addresses the guest uses
  Size,         \* the sizes of the load and store instructions
  StoredByte,   \* the bytes the guest stores
  HostStack     \* nested calls of Load the host's stack has room for

Device == {"ram", "uart", "virtio", "clint", "plic"}

\* A byte is the set of those of its bits that something looks at: the UART_BITS of
\* lsr, and the top one, which the loads extend.
Bits == {"rx_ready", "tx_idle", "sign"}
Byte == SUBSET Bits
RamSize == Extent["ram"]
Host == 0 .. RamSize + Vptr + Buffer - 1
BufferStart == RamSize + Vptr

\* The sizes of the regions are as in config.h: the UART's reaches behind its
\* vptr but not behind RAM, and RAM lies above the devices, further than the
\* widest access reaches.
ASSUME MmuAssumption ==
  /\ {Base, Extent} \subseteq [Device -> Nat \ {0}]
  /\ Vptr \in Nat /\ Buffer \in Nat /\ Lsr \in 0 .. Buffer - 1 /\ HostStack \in Nat \ {0}
  /\ Space \subseteq Nat
  /\ Size # {} /\ \A n \in Size : n \in 1 .. Vptr + Buffer
  /\ Vptr < Extent["uart"] /\ Extent["uart"] <= RamSize + Vptr
  /\ StoredByte \subseteq Byte
  /\ \A d \in Device \ {"ram"}, n \in Size : Base[d] + Extent[d] + n - 2 < Base["ram"]

VARIABLES
  paging, \* paging_mode
  host,   \* the bytes of the MMU object from ram.mem on
  wild,   \* an access has read or written outside of host
  reply,  \* the last access that returned, with its data or exception
  depth   \* calls of Load on the host's stack below the access being translated

vars == <<paging, host, wild, reply, depth>>

TypeOK ==
  /\ paging \in {"Bare", "Sv39"}
  /\ host \in [Host -> Byte]
  /\ wild \in BOOLEAN
  /\ depth \in 0 .. HostStack
  /\ reply.op \in {"none", "load", "store", "LoadAccessFault", "StoreAMOAccessFault"}
  /\ reply.op \in {"load", "store"} => \E n \in Size : reply.data \in [0 .. n - 1 -> Byte]

-----------------------------------------------------------------------------
\* Mutant of IsValidAddr: the address behind the region belongs to it.
IsValidAddrIncl(d, a) == Base[d] <= a /\ a <= Base[d] + Extent[d]
IsValidAddr(d, a) == Base[d] <= a /\ a < Base[d] + Extent[d]

\* The if-chain of MMU::Load and MMU::Store.
Target(a) ==
  IF IsValidAddr("ram", a) THEN "ram"
  ELSE IF IsValidAddr("uart", a) THEN "uart"
  ELSE IF IsValidAddr("virtio", a) THEN "virtio"
  ELSE IF IsValidAddr("clint", a) THEN "clint"
  ELSE IF IsValidAddr("plic", a) THEN "plic" ELSE "none"

Loaded(a, n, d) == reply' = [op |-> "load", addr |-> a, size |-> n, data |-> d]
Stored(a, n, d) == reply' = [op |-> "store", addr |-> a, size |-> n, data |-> d]
Throws(a, n, trap) == reply' = [op |-> trap, addr |-> a, size |-> n]

\* An access uses the bytes of the object with these indices.
Uses(indices) == wild' = (wild \/ ~(indices \subseteq Host))

\* RAM::Load.  Only the first byte has been checked: the last ones may lie in the
\* UART behind the array.
RamLoad(a, n) ==
  /\ Target(a) = "ram"
  /\ Loaded(a, n, [k \in 0 .. n - 1 |-> host[a - Base["ram"] + k]])
  /\ Uses({a - Base["ram"] + k : k \in 0 .. n - 1})
  /\ UNCHANGED host

RamStore(a, n, d) ==
  /\ Target(a) = "ram"
  /\ Stored(a, n, d)
  /\ Uses({a - Base["ram"] + k : k \in 0 .. n - 1})
  /\ LET first == a - Base["ram"]
     IN  host' = [i \in Host |-> IF i - first \in 0 .. n - 1 THEN d[i - first] ELSE host[i]]

\* Mutant of UartIndex: the offset in the region, as one would write it.
UartIndexForward(a) == BufferStart + a - Base["uart"]

\* The byte UART::Load writes: base_addr - addr counts back from the buffer's start.
UartIndex(a) == BufferStart + Base["uart"] - a

\* UART::Load clears rx_ready when the holding register is read.  Then it copies
\* data, which is 0, to that byte.
UartLoad(a, n) ==
  /\ Target(a) = "uart"
  /\ IF n # 1 THEN Throws(a, n, "LoadAccessFault") /\ UNCHANGED <<host, wild>>
     ELSE LET lsr == BufferStart + Lsr
              cleared == IF a = Base["uart"]
                         THEN [host EXCEPT ![lsr] = @ \ {"rx_ready"}] ELSE host
          IN  /\ host' = [cleared EXCEPT ![UartIndex(a)] = {}]
              /\ Uses({lsr, UartIndex(a)})
              /\ Loaded(a, n, [k \in 0 .. n - 1 |-> {}])

\* UART::Store sets tx_idle when the transmit register is written.
UartStore(a, n, d) ==
  /\ Target(a) = "uart"
  /\ IF n # 1 THEN Throws(a, n, "StoreAMOAccessFault") /\ UNCHANGED <<host, wild>>
     ELSE /\ Stored(a, n, d)
          /\ Uses({BufferStart + Lsr})
          /\ host' = IF a = Base["uart"]
                     THEN [host EXCEPT ![BufferStart + Lsr] = @ \cup {"tx_idle"}] ELSE host

\* The other devices' Load is empty: the caller's variable stays uninitialised.
Stub == {"virtio", "clint", "plic"}
StubLoad(a, n) ==
  /\ Target(a) \in Stub
  /\ \E d \in [0 .. n - 1 -> StoredByte] : Loaded(a, n, d)
  /\ UNCHANGED <<host, wild>>

StubStore(a, n, d) ==
  /\ Target(a) \in Stub
  /\ Stored(a, n, d)
  /\ UNCHANGED <<host, wild>>

Unmapped(a, n, trap) ==
  /\ Target(a) = "none"
  /\ Throws(a, n, trap)
  /\ UNCHANGED <<host, wild>>

\* MMU::Load and MMU::Store of n bytes at a physical address.
Load(a, n) ==
  RamLoad(a, n) \/ UartLoad(a, n) \/ StubLoad(a, n) \/ Unmapped(a, n, "LoadAccessFault")
Store(a, n, d) ==
  \/ RamStore(a, n, d) \/ UartStore(a, n, d) \/ StubStore(a, n, d)
  \/ Unmapped(a, n, "StoreAMOAccessFault")

-----------------------------------------------------------------------------
\* ram.mem is zeroed but for the program; the UART's buffer is not initialised, and
\* what its vptr is the host decides.
Init ==
  /\ paging = "Bare" /\ depth = 0 /\ wild = FALSE /\ reply = [op |-> "none"]
  /\ host \in [Host -> StoredByte]

\* In Bare mode Translate returns the address it is given.
Access ==
  /\ paging = "Bare"
  /\ \E a \in Space, n \in Size :
       \/ Load(a, n)
       \/ \E d \in [0 .. n - 1 -> StoredByte] : Store(a, n, d)
  /\ UNCHANGED <<paging, depth>>

\* SetPagingMode, when the guest writes satp between two accesses.
SetPagingMode ==
  /\ depth = 0
  /\ paging' \in {"Bare", "Sv39"}
  /\ UNCHANGED <<host, wild, reply, depth>>

\* Under Sv39 Translate first loads the entry of the root page table, with the
\* Load that calls Translate: the stack grows until the host ends the program.
Translate ==
  /\ paging = "Sv39" /\ depth < HostStack
  /\ depth' = depth + 1
  /\ UNCHANGED <<paging, host, wild, reply>>

Next == Access \/ SetPagingMode \/ Translate
Spec == Init /\ [][Next]_vars

-----------------------------------------------------------------------------
\* No index that an access computes leaves the arrays of RAM and UART: a wide access
\* at the end of RAM ends in the UART, and the UART's index, counted backwards over a
\* region far larger than its buffer, in RAM.
StaysInObject == ~wild

\* RAM below the bytes that the reversed index of UART::Load can reach is memory,
\* whatever the guest does to the devices and to the end of RAM; every access to an
\* address of no device faults, and so does every wide one to the UART; no other does.
Untouched == 0 .. BufferStart - Extent["uart"]
CellAddr == {Base["ram"] + i : i \in Untouched}
HoleAddr == {a \in Space : \A d \in Device : ~(a - Base[d] \in 0 .. Extent[d] - 1)}
NarrowAddr == {a \in Space : a - Base["uart"] \in 0 .. Extent["uart"] - 1}
CellBytes == [c \in CellAddr |-> host[c - Base["ram"]]]
RAM == INSTANCE Memory WITH
         Cell <- CellAddr, Hole <- HoleAddr, Narrow <- NarrowAddr, bytes <- CellBytes
ImplementsMemory == RAM!Spec

\* mmu.cpp:102: Translate implements the algorithm of the privileged ISA, which
\* accesses physical memory, once for each level: no access is nested in another
\* that is nested itself.
WalkIsPhysical == depth <= 1
=============================================================================
