-------------------------------- MODULE MCHart --------------------------------
(***************************************************************************)
(* Instances of Hart for TLC.  Each run gives the guest the CSRs and words *)
(* its question needs and no others; a CSR with no operand is only changed *)
(* by traps and returns.                                                   *)
(***************************************************************************)
EXTENDS Hart

MCFetchable == {0, 4}
NoOffset    == {}
MCOffset    == {-4, 8}
Zeroed      == {{}}
Garbage     == {{}, {5}}

\* f with the operands of the run, nothing elsewhere.
Only(dom, f) == [c \in dom |-> IF c \in DOMAIN f THEN f[c] ELSE {}]

\* A program that drops to U or S mode, delegates the supervisor software
\* interrupt and the load faults, and turns interrupts on and off.
InterruptOperand == Only(FlagCsr,
  [mstatus |-> {{MIE}, {11}}, sstatus |-> {{SIE}}, medeleg |-> {{1, 5}},
   mie |-> {{1, 3}}, mip |-> {{1, 3}}])
InterruptPtr == Only(PtrCsr, [mtvec |-> {1, 4}])

\* Its atomics drop to U mode, withdraw one interrupt raising another, and hit the
\* MMU in ways that do not stop the hart.
InterruptStray ==
  [csrs |-> Only(FlagCsr, [mip |-> {{3}}]), pc |-> {}, mode |-> {"USER"},
   paging |-> {"Bare"}, root |-> {{5}}, beyond |-> FALSE]

\* A program that waits for the supervisor software interrupt with the machine
\* software interrupt competing, and meanwhile writes satp in every way a Zicsr
\* instruction can.
WaitOperand == Only(FlagCsr,
  [mstatus |-> {{MIE}, {11}}, mie |-> {{1, 3}}, mip |-> {{1}, {3}},
   satp |-> {{0}, {SatpMode, 0}, {43, 44}}])
NoPtr == Only(PtrCsr, <<>>)

\* Its atomics keep off satp and the MMU: they withdraw interrupts, or hit what the
\* model does not say anything of.
WaitStray ==
  [csrs |-> Only(FlagCsr, [mip |-> {{}}]), pc |-> {}, mode |-> {"SUPERVISOR"},
   paging |-> {}, root |-> {}, beyond |-> TRUE]
=============================================================================
