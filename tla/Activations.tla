---------------------------- MODULE Activations ----------------------------
(***************************************************************************)
(* What procedure calls and non-local jumps promise a Cornerstone program: *)
(* a stack of activations, each with locals of its own, and activation     *)
(* records that name one of them.  A jump cuts the stack back to the       *)
(* activation its record names; it never touches a suspended activation's  *)
(* locals, and never revives one that has gone.                            *)
(***************************************************************************)
EXTENDS Integers, Sequences

CONSTANTS
  Proc, Main,   \* procedures and the entry procedure
  LocalInit,    \* Proc -> what the locals hold before arguments are copied in
  Entry,        \* Proc -> address of the first instruction
  Args,         \* argument lists
  MaxResults    \* most words a procedure returns

VARIABLES
  frames,    \* activations, the running one last: [proc, locals, pc, stk]
  records,   \* valid activation records: [token, level, stk, tuple, longjmp, longjmpr]
  tuple,     \* depth of the tuple stack
  status     \* "running" or "stopped"

vars == <<frames, records, tuple, status>>

Top == frames[Len(frames)]
Below == SubSeq(frames, 1, Len(frames) - 1)
Locals(q, args) ==
  [i \in 1 .. Len(LocalInit[q]) |-> IF i <= Len(args) THEN args[i] ELSE LocalInit[q][i]]

Init ==
  /\ frames = <<[proc |-> Main, locals |-> LocalInit[Main], pc |-> Entry[Main], stk |-> 0]>>
  /\ records = {} /\ tuple = 0 /\ status = "running"

\* Ordinary instructions touch the running activation only.
Work ==
  /\ Len(frames') = Len(frames)
  /\ SubSeq(frames', 1, Len(frames) - 1) = Below
  /\ frames'[Len(frames)].proc = Top.proc
  /\ UNCHANGED records

\* The callee starts at q's entry with its arguments over the initial locals.
Call(q, args) ==
  /\ Len(frames') = Len(frames) + 1
  /\ SubSeq(frames', 1, Len(frames) - 1) = Below
  /\ LET caller == frames'[Len(frames)]
         callee == frames'[Len(frames) + 1]
     IN /\ caller.proc = Top.proc /\ caller.locals = Top.locals
        /\ callee = [proc |-> q, locals |-> Locals(q, args),
                     pc |-> Entry[q], stk |-> caller.stk]
  /\ UNCHANGED <<records, tuple>>

\* The caller resumes as it was suspended, with n results on its stack.
\* Records of the activation that ends become invalid.
Return(n) ==
  /\ Len(frames) > 1
  /\ frames' = [Below EXCEPT ![Len(Below)].stk = @ + n]
  /\ records' = {a \in records : a.level < Len(frames) - 1}
  /\ UNCHANGED tuple

\* The new token names no other valid record.
SetJmp(a) ==
  /\ a.token \notin {b.token : b \in records}
  /\ a.level = Len(frames) - 1 /\ a.stk = Top.stk /\ a.tuple = tuple
  /\ records' = records \cup {a}
  /\ frames' = Append(Below, [Top EXCEPT !.stk = @ + 1, !.pc = frames'[Len(frames)].pc])
  /\ UNCHANGED tuple

\* Back to the activation of a, at one of its two addresses, with its locals
\* as they are now and both stacks cut to the recorded depths.
LongJmp(a, n) ==
  /\ a \in records
  /\ frames' = [SubSeq(frames, 1, a.level + 1) EXCEPT
                  ![a.level + 1].stk = a.stk + n,
                  ![a.level + 1].pc = IF n = 1 THEN a.longjmpr ELSE a.longjmp]
  /\ tuple' = a.tuple
  /\ records' = {b \in records \ {a} : b.level <= a.level}

Next ==
  /\ status = "running"
  /\ \/ status' = "stopped"
     \/ /\ status' = "running"
        /\ \/ Work
           \/ \E q \in Proc, args \in Args : Call(q, args)
           \/ \E n \in 0 .. MaxResults : Return(n)
           \/ \E a \in records' : SetJmp(a)
           \/ \E a \in records, n \in {0, 1} : LongJmp(a, n)

Spec == Init /\ [][Next]_vars
=============================================================================
