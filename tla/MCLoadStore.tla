------------------------------ MODULE MCLoadStore ------------------------------
(***************************************************************************)
(* Instance of LoadStore for TLC: x0 and two registers of two bytes, two   *)
(* bytes of RAM behind the devices.  Through x0 an instruction reaches     *)
(* every kind of device and a hole, through x1 RAM, the hole behind it     *)
(* and, by a sum that wraps, the one at 0; x2 holds data.  An immediate of *)
(* 17 is a -1 that is not sign-extended.                                   *)
(***************************************************************************)
EXTENDS LoadStore

MCBase == [clint |-> 3, plic |-> 4, uart |-> 5, virtio |-> 7, ram |-> 9]
MCExtent == [clint |-> 1, plic |-> 1, uart |-> 2, virtio |-> 1, ram |-> 2]
MCSpace == 0 .. 11
MCStoredByte == {{}, Bits}
MCReg == 0 .. 2

\* The sign of each byte is what an address is made of.
MCAsAddress ==
  [r \in [0 .. 1 -> SUBSET {"rx_ready", "tx_idle", "sign"}] |->
     (IF "sign" \in r[0] THEN 9 ELSE 0) + (IF "sign" \in r[1] THEN 1 ELSE 0)]

Addressing ==
  [rs1 : {0}, imm : {3, 5, 6, 8}] \cup [rs1 : {1}, imm : {0, 1, 2, 17}]
Accessing(op, size, rds, rs2s) ==
  {[op |-> op, size |-> size, rd |-> d, rs1 |-> x.rs1, rs2 |-> s, imm |-> x.imm] :
     d \in rds, s \in rs2s, x \in Addressing}

MCInstruction ==
  Accessing("L", 1, MCReg, {0}) \cup Accessing("LU", 1, {2}, {0}) \cup
  Accessing("LU", 2, MCReg, {0}) \cup
  Accessing("S", 1, {0}, {1, 2}) \cup Accessing("S", 2, {0}, MCReg) \cup
  {[op |-> op, size |-> 2, rd |-> 2, rs1 |-> a, rs2 |-> 1, imm |-> 0] :
     op \in {"LR", "SC"}, a \in MCReg} \cup
  {[op |-> "plain", rd |-> d, value |-> v] : d \in MCReg, v \in [0 .. 1 -> {{}, Bits}]}
=============================================================================
