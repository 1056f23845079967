---------------------------- MODULE LpstProgram ----------------------------
(***************************************************************************)
(* LpstControl running programs that keep to section 6.7 of                *)
(* doc/vm-specification.md: a LONGJMP names a valid record, and unwinds at *)
(* least one call or finds the locals as SETJMP saved them.  For these     *)
(* programs the machine implements Activations.                            *)
(***************************************************************************)
EXTENDS LpstControl

Usable(t) ==
  \E a \in live : /\ a.token = t
                  /\ a.level < Len(calls) \/ snaps[t].locals = locals

DisciplinedNext ==
  /\ halted = "no"
  /\ Straight \/ \E t \in Token, n \in {0, 1} : Usable(t) /\ LongJmp(t, n)

DisciplinedSpec == Init /\ [][DisciplinedNext]_vars

\* The running procedure above the suspended ones.
Frames ==
  [i \in 1 .. Len(calls) + 1 |->
     IF i <= Len(calls)
       THEN [proc |-> calls[i].proc, locals |-> calls[i].locals,
             pc |-> calls[i].pc, stk |-> calls[i].depth]
       ELSE [proc |-> proc, locals |-> locals, pc |-> pc, stk |-> stk]]

Status == IF halted = "no" THEN "running" ELSE "stopped"

Promise == INSTANCE Activations WITH
  frames <- Frames, records <- live, MaxResults <- MaxArgs, status <- Status

\* Calls, returns and non-local jumps of the machine are those of a stack of
\* activations: a return finds its caller as the call left it, a jump lands
\* in the activation its record names with that activation's own locals, and
\* a record never outlives its activation.
ImplementsActivations == Promise!Spec
=============================================================================
