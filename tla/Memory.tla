--------------------------------- MODULE Memory ---------------------------------
(***************************************************************************)
(* What the bus promises the guest about memory: a byte keeps the last     *)
(* value stored to it, a load returns the bytes it names and changes none, *)
(* and an access faults exactly if its address belongs to nothing, or to a *)
(* device it is too wide for.                                              *)
(***************************************************************************)
EXTENDS Integers

CONSTANTS
  Cell,   \* addresses of memory cells
  Hole,   \* addresses that belong to no memory and no device
  Narrow, \* addresses of devices that take one byte at a time
  Space,  \* all addresses an access can have
  Size,   \* the numbers of bytes an access can have
  Byte

VARIABLES
  bytes, \* [Cell -> Byte]
  reply  \* the last access and its data: from byte 0, the one at addr, upwards

vars == <<bytes, reply>>

Data == UNION {[0 .. n - 1 -> Byte] : n \in Size}
Refused(a, n) == a \in Hole \/ (a \in Narrow /\ n # 1)

Init == bytes \in [Cell -> Byte] /\ reply = [op |-> "none"]

Completed(op) ==
  /\ reply' \in [op : {op}, addr : Space, size : Size, data : Data]
  /\ DOMAIN reply'.data = 0 .. reply'.size - 1
  /\ ~Refused(reply'.addr, reply'.size)

\* Bytes that are no cells, a device's registers, return what they like.
Load ==
  /\ Completed("load")
  /\ \A k \in DOMAIN reply'.data :
       reply'.addr + k \in Cell => reply'.data[k] = bytes[reply'.addr + k]
  /\ UNCHANGED bytes

Store ==
  /\ Completed("store")
  /\ bytes' = [c \in Cell |->
       IF c - reply'.addr \in DOMAIN reply'.data THEN reply'.data[c - reply'.addr]
       ELSE bytes[c]]

Fault ==
  /\ reply' \in [op : {"LoadAccessFault", "StoreAMOAccessFault"}, addr : Space, size : Size]
  /\ Refused(reply'.addr, reply'.size)
  /\ UNCHANGED bytes

Next == Load \/ Store \/ Fault
Spec == Init /\ [][Next]_vars
=============================================================================
