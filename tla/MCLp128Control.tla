--------------------------- MODULE MCLp128Control ---------------------------
(* A procedure with a local that calls itself, and the exit procedure, both *)
(* in module 4: a return to address 2 there ends the program.               *)
EXTENDS Lp128Control

CONSTANTS main, exit, F, W

MCProc == {main, exit}
MCWord == {F, W}
MCModuleOf == [q \in MCProc |-> 4]
MCLocalInit == [q \in MCProc |-> IF q = main THEN <<F>> ELSE <<>>]

\* The spill area above the call stack is written before it is read again, a
\* slot that no live record names is only ever a slot in use, no step depends
\* on pc, DropResults is one of the Operate steps whatever the last return
\* left, and nothing follows a state that has halted: its depths are kept for
\* TypeOK.
View ==
  IF halted # "no" THEN <<halted, stk, tuple, Len(calls)>>
  ELSE <<proc, locals, stk, calls, SubSeq(spill, 1, Len(calls)), tuple, InUse,
         [t \in {a.token : a \in live} |-> snaps[t]],
         next_jump_token, live>>

MCLanding == {<<1, 2>>}
MCEntry == [q \in MCProc |-> 1]
=============================================================================
