----------------------------- MODULE MCHartHistory -----------------------------
(***************************************************************************)
(* Instances of HartHistory for TLC.                                       *)
(***************************************************************************)
EXTENDS HartHistory

MCFetchable == {0, 4}
MCOffset    == {-4}
Zeroed      == {{}}

Only(dom, f) == [c \in dom |-> IF c \in DOMAIN f THEN f[c] ELSE {}]

\* A program of all three modes: it enters S and U mode, makes environment
\* calls there, some of them delegated, from handlers too (nested traps), and
\* lets the machine software interrupt in between.
NestedOperand == Only(FlagCsr,
  [mstatus |-> {{MIE}, {11}}, sstatus |-> {{SIE}}, medeleg |-> {{8, 9}},
   mie |-> {{3}}, mip |-> {{3}}])
NestedPtr == Only(PtrCsr, [mtvec |-> {4}])

\* Its atomics clear sstatus, jump, and enter S mode without a trap.
NestedStray ==
  [csrs |-> Only(FlagCsr, [sstatus |-> {{}}]), pc |-> {4},
   mode |-> {"SUPERVISOR"}, paging |-> {}, root |-> {}, beyond |-> FALSE]
=============================================================================
