--------------------------- MODULE MCLpstControl ---------------------------
(* Two procedures in different modules, each with one local.               *)
EXTENDS LpstProgram

CONSTANTS main, sub, F, W

MCProc == {main, sub}
MCModuleOf == [q \in MCProc |-> IF q = main THEN 1 ELSE 2]
MCWord == {F, W}
MCLocalInit == [q \in MCProc |-> IF q = main THEN <<F>> ELSE <<W>>]
MCEntry == [q \in MCProc |-> 1]
=============================================================================
