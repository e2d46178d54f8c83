--------------------------------- MODULE MCMmu ---------------------------------
(***************************************************************************)
(* Instance of Mmu for TLC.  The regions lie as in config.h: the PLIC ends *)
(* where the UART begins, the UART where virtio does, RAM comes last, out  *)
(* of reach of an access to a device.  The UART's region is larger than    *)
(* its vptr, as 4096 bytes are than 8.                                     *)
(***************************************************************************)
EXTENDS Mmu

MCBase == [clint |-> 1, plic |-> 2, uart |-> 3, virtio |-> 6, ram |-> 8]
MCExtent == [clint |-> 1, plic |-> 1, uart |-> 3, virtio |-> 1, ram |-> 3]
MCSpace == 0 .. 11
MCStoredByte == {{}, {"rx_ready", "tx_idle"}}
=============================================================================
