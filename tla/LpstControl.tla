---------------------------- MODULE LpstControl ----------------------------
(***************************************************************************)
(* Control state of the LinchpinST virtual machine: the call stack, the    *)
(* locals of the running procedure, the depth of the evaluation stack, the *)
(* tuple stack, and the table of SETJMP snapshots (lpst_exec.c,            *)
(* lpst_run.c, lpst_run_runtime.c, lpst_run_dispatch.c).                   *)
(*                                                                         *)
(* One action is one VM instruction.  The contents of the evaluation stack *)
(* are abstracted to its depth, so a popped word is any word; addresses in *)
(* the code are members of PC; module_id, procedure_index, start_offset    *)
(* and local_count, which together identify a frame, are one element of    *)
(* Proc.                                                                   *)
(***************************************************************************)
EXTENDS Integers, Sequences, FiniteSets

CONSTANTS
  Proc,          \* procedures of the image
  Main,          \* the entry procedure
  ModuleOf,      \* Proc -> module_id
  Exported,      \* the procedures a far call can select
  LocalInit,     \* Proc -> locals on entry: FALSE or the header's initializer
  Entry,         \* Proc -> the address of its first instruction
  PC,            \* addresses in the code
  Word,          \* values a local may hold
  EvalCap,       \* LPST_EVAL_STACK_CAPACITY
  CallCap,       \* LPST_CALL_STACK_CAPACITY
  TupleCap,      \* words between tuple_stack_floor_byte and the top of RAM
  SnapshotCap,   \* LPST_JUMP_SNAPSHOT_CAPACITY
  TokenMod,      \* 2^16 in the code: next_jump_token is a uint16_t
  FirstToken,    \* 0xA000 in the code
  FalseToken,    \* LPST_FALSE_SENTINEL, which is never a token
  NoSnapshot,    \* a token no table entry carries
  MaxArgs,       \* bound on argc
  MaxPops,       \* bound on the operands of one instruction
  MaxJumpToken   \* SETJMP is not modelled once next_jump_token passes this

ASSUME CapAssumption ==
  /\ EvalCap \in Nat /\ CallCap \in Nat /\ TupleCap \in Nat /\ SnapshotCap \in Nat
  /\ MaxArgs \in Nat /\ MaxPops \in Nat \ {0}

ASSUME TokenAssumption ==
  /\ TokenMod \in Nat \ {0} /\ MaxJumpToken \in Nat
  /\ FirstToken \in 0 .. TokenMod - 1 /\ FalseToken \in 0 .. TokenMod - 1

ASSUME ProcAssumption ==
  /\ Main \in Proc /\ Exported \subseteq Proc
  /\ ModuleOf \in [Proc -> Nat] /\ Entry \in [Proc -> PC]
  /\ LocalInit \in [Proc -> Seq(Word)]

VARIABLES
  proc,      \* current_frame and current_module_id
  pc,        \* program_counter
  locals,    \* local_storage, up to current_frame.local_count
  stk,       \* eval_stack_top
  calls,     \* call_stack
  tuple,     \* words in use on the tuple stack
  snaps,     \* jump_snapshots, indexed by token
  next_jump_token,
  last_return_word_count,
  halted,    \* is_halted and, as "fault" (0xFFFF) or "exit", halt_code
  live       \* history: the activation records a program may still use

vars == <<proc, pc, locals, stk, calls, tuple, snaps, next_jump_token,
          last_return_word_count, halted, live>>

frameVars == <<proc, locals, calls>>
jumpVars == <<snaps, next_jump_token, live>>

Token == 0 .. TokenMod - 1
Depth == 0 .. EvalCap
Continuation == [proc : Proc, pc : PC, locals : Seq(Word), depth : Depth]
Snapshot == [proc : Proc, locals : Seq(Word), calls : Seq(Continuation),
             stk : Depth, tuple : 0 .. TupleCap, longjmp : PC, longjmpr : PC]

ASSUME NoSnapshotAssumption == NoSnapshot \notin Snapshot

\* A record of section 6.7 of doc/vm-specification.md that is still valid:
\* its SETJMP ran in the activation with `level` callers.
Record == [token : Token, level : Nat, stk : Depth, tuple : 0 .. TupleCap,
           longjmp : PC, longjmpr : PC]

TypeOK ==
  /\ proc \in Proc /\ pc \in PC
  /\ locals \in Seq(Word) /\ Len(locals) = Len(LocalInit[proc])
  /\ stk \in Depth /\ tuple \in 0 .. TupleCap
  /\ calls \in Seq(Continuation) /\ Len(calls) <= CallCap
  /\ snaps \in [Token -> Snapshot \cup {NoSnapshot}]
  /\ next_jump_token \in Token
  /\ last_return_word_count \in 0 .. MaxArgs
  /\ halted \in {"no", "fault", "exit"}
  /\ live \subseteq Record

Init ==
  /\ proc = Main /\ pc = Entry[Main] /\ locals = LocalInit[Main]
  /\ stk = 0 /\ calls = <<>> /\ tuple = 0
  /\ snaps = [t \in Token |-> NoSnapshot]
  /\ next_jump_token = FirstToken
  /\ last_return_word_count = 0
  /\ halted = "no"
  /\ live = {}

-----------------------------------------------------------------------------
(* The evaluation stack.  A pop from an empty stack and a push onto a full  *)
(* one set is_halted, and the instruction carries on to its end.            *)

\* The bound test left out of lpst_exec_push.
PushNoCheck(d, n) == d + n

PopN(d, n) == IF d < n THEN 0 ELSE d - n
PushN(d, n) == IF d + n > EvalCap THEN EvalCap ELSE d + n
Underflows(d, n) == d < n
Overflows(d, n) == d + n > EvalCap
HaltIf(fault) == halted' = IF fault THEN "fault" ELSE halted

\* Every instruction whose effect on the control state is to pop some
\* words, push some words and move to the next instruction or to a branch target.
Operate(pops, pushes, target) ==
  LET d == PopN(stk, pops) IN
    /\ stk' = PushN(d, pushes)
    /\ HaltIf(Underflows(stk, pops) \/ Overflows(d, pushes))
    /\ pc' = target
    /\ UNCHANGED <<frameVars, jumpVars, tuple, last_return_word_count>>

\* DUP: lpst_exec_peek does not halt on an empty stack.
Dup(target) ==
  /\ stk' = PushN(stk, 1)
  /\ HaltIf(Overflows(stk, 1))
  /\ pc' = target
  /\ UNCHANGED <<frameVars, jumpVars, tuple, last_return_word_count>>

\* PUTL and STOREL: pops is 0 for the forms that peek.
StoreLocal(i, w, pops, target) ==
  /\ locals' = IF i \in 1 .. Len(locals) THEN [locals EXCEPT ![i] = w] ELSE locals
  /\ stk' = PopN(stk, pops)
  /\ HaltIf(Underflows(stk, pops))
  /\ pc' = target
  /\ UNCHANGED <<proc, calls, jumpVars, tuple, last_return_word_count>>

\* INCL and DECL push the new value, if there is such a local.
StepLocal(i, w, target) ==
  LET pushes == IF i \in 1 .. Len(locals) THEN 1 ELSE 0 IN
    /\ locals' = IF i \in 1 .. Len(locals) THEN [locals EXCEPT ![i] = w] ELSE locals
    /\ stk' = PushN(stk, pushes)
    /\ HaltIf(Overflows(stk, pushes))
    /\ pc' = target
    /\ UNCHANGED <<proc, calls, jumpVars, tuple, last_return_word_count>>

\* Ext 0x16: drop the words the last return pushed.
DiscardReturn(target) ==
  Operate(last_return_word_count, 0, target)

\* HALT ends the program.
Halt ==
  /\ halted' = "exit"
  /\ UNCHANGED <<frameVars, jumpVars, pc, stk, tuple, last_return_word_count>>

\* BREAK, an unhandled opcode, and a load from FALSE or a failed VALLOC
\* once the operands have been popped.
Fault(pops) ==
  /\ halted' = "fault"
  /\ stk' = PopN(stk, pops)
  /\ UNCHANGED <<frameVars, jumpVars, pc, tuple, last_return_word_count>>

-----------------------------------------------------------------------------
(* The tuple stack.                                                         *)

\* A request for no words takes one.
TupleWords(n) == IF n > 0 THEN n ELSE 1

\* TALLOC pops the size; TALLOCI then pops that many initial words, unless
\* the allocation failed.
AllocTuple(n, fill, target) ==
  LET fits == tuple + TupleWords(n) <= TupleCap
      pops == IF fill /\ fits THEN n + 1 ELSE 1
      d    == PopN(stk, pops)
  IN
    /\ tuple' = IF fits THEN tuple + TupleWords(n) ELSE tuple
    /\ stk' = PushN(d, 1)
    /\ HaltIf(~fits \/ Underflows(stk, pops) \/ Overflows(d, 1))
    /\ pc' = target
    /\ UNCHANGED <<frameVars, jumpVars, last_return_word_count>>

\* TPOP: the pointer is clamped to the top of RAM.
PopTuple(n, target) ==
  /\ tuple' = IF TupleWords(n) > tuple THEN 0 ELSE tuple - TupleWords(n)
  /\ stk' = PopN(stk, 1)
  /\ HaltIf(Underflows(stk, 1))
  /\ pc' = target
  /\ UNCHANGED <<frameVars, jumpVars, last_return_word_count>>

-----------------------------------------------------------------------------
(* Calls and returns.                                                       *)

\* FALSE or the initializer, then the arguments that fit.
NewLocals(q, args) ==
  [i \in 1 .. Len(LocalInit[q]) |->
     IF i <= Len(args) THEN args[i] ELSE LocalInit[q][i]]

\* The snapshot was taken by a frame that looks like the running one.
SameFrame(s) == s.proc = proc /\ Len(s.calls) = Len(calls)

\* The call that enter_procedure makes to refresh is left out.
RefreshSkipped == snaps

\* refresh_current_frame_jump_snapshots
Refresh ==
  [t \in Token |->
     IF snaps[t] # NoSnapshot /\ SameFrame(snaps[t])
       THEN [snaps[t] EXCEPT !.locals = locals]
       ELSE snaps[t]]

\* enter_procedure, after the arguments have been popped down to depth d.
EnterProcedure(q, args, d, return_pc) ==
  /\ stk' = d
  /\ IF Len(calls) >= CallCap
       THEN UNCHANGED <<frameVars, pc, snaps>>
       ELSE /\ snaps' = Refresh
            /\ calls' = Append(calls, [proc |-> proc, pc |-> return_pc,
                                       locals |-> locals, depth |-> d])
            /\ proc' = q /\ pc' = Entry[q] /\ locals' = NewLocals(q, args)
  /\ UNCHANGED <<next_jump_token, live, tuple, last_return_word_count>>

\* `indirect` is 1 for the forms that pop the target before the arguments.
NearCall(q, args, indirect, return_pc) ==
  LET pops == Len(args) + indirect IN
    /\ ModuleOf[q] = ModuleOf[proc]
    /\ EnterProcedure(q, args, PopN(stk, pops), return_pc)
    /\ HaltIf(Underflows(stk, pops) \/ Len(calls) >= CallCap)

FarCall(q, args, indirect, return_pc) ==
  LET pops == Len(args) + indirect IN
    /\ q \in Exported
    /\ EnterProcedure(q, args, PopN(stk, pops), return_pc)
    /\ HaltIf(Underflows(stk, pops) \/ Len(calls) >= CallCap)

\* A selector that names no module or no exported procedure.
FarCallInvalid(argc) ==
  /\ stk' = PopN(stk, argc)
  /\ halted' = "fault"
  /\ UNCHANGED <<frameVars, jumpVars, pc, tuple, last_return_word_count>>

\* release_jump_snapshots_for_frame
Release ==
  [t \in Token |->
     IF snaps[t] # NoSnapshot /\ SameFrame(snaps[t]) THEN NoSnapshot ELSE snaps[t]]

\* do_return with n results, `pops` of which came off the stack first
\* (RFALSE and RZERO return a constant).  Returning from the entry
\* procedure stops the machine with the first result as its code.
Return(n, pops) ==
  /\ last_return_word_count' = n
  /\ snaps' = Release
  /\ live' = {a \in live : a.level < Len(calls)}
  /\ IF calls = <<>>
       THEN /\ halted' = "exit"
            /\ stk' = PopN(stk, pops)
            /\ UNCHANGED <<frameVars, pc>>
       ELSE LET cont == calls[Len(calls)] IN
            /\ calls' = SubSeq(calls, 1, Len(calls) - 1)
            /\ proc' = cont.proc /\ pc' = cont.pc /\ locals' = cont.locals
            /\ stk' = PushN(cont.depth, n)
            /\ HaltIf(Underflows(stk, pops) \/ Overflows(cont.depth, n))
  /\ UNCHANGED <<tuple, next_jump_token>>

-----------------------------------------------------------------------------
(* SETJMP, LONGJMP and LONGJMPR.                                            *)

Succ(t) == (t + 1) % TokenMod

\* next_jump_token++, once more when that would yield FALSE.
FreshToken == IF next_jump_token = FalseToken THEN Succ(next_jump_token) ELSE next_jump_token

InUse == {t \in Token : snaps[t] # NoSnapshot}

\* The snapshot table is full: the token is spent all the same.
SetJmpTableFull ==
  /\ next_jump_token < MaxJumpToken
  /\ FreshToken \notin InUse /\ Cardinality(InUse) >= SnapshotCap
  /\ next_jump_token' = Succ(FreshToken)
  /\ halted' = "fault"
  /\ UNCHANGED <<frameVars, snaps, live, pc, stk, tuple, last_return_word_count>>

\* An entry that still carries the token is overwritten.
SetJmp(longjmp, longjmpr, target) ==
  /\ next_jump_token < MaxJumpToken
  /\ FreshToken \in InUse \/ Cardinality(InUse) < SnapshotCap
  /\ snaps' = [snaps EXCEPT ![FreshToken] =
                 [proc |-> proc, locals |-> locals, calls |-> calls, stk |-> stk,
                  tuple |-> tuple, longjmp |-> longjmp, longjmpr |-> longjmpr]]
  /\ live' = live \cup {[token |-> FreshToken, level |-> Len(calls), stk |-> stk,
                         tuple |-> tuple, longjmp |-> longjmp, longjmpr |-> longjmpr]}
  /\ next_jump_token' = Succ(FreshToken)
  /\ stk' = PushN(stk, 1)
  /\ HaltIf(Overflows(stk, 1))
  /\ pc' = target
  /\ UNCHANGED <<frameVars, tuple, last_return_word_count>>

\* The two program counters of a snapshot mixed up.
LandingSwapped(s, n) == IF n = 0 THEN s.longjmpr ELSE s.longjmp

Landing(s, n) == IF n = 1 THEN s.longjmpr ELSE s.longjmp

\* n is 0 for LONGJMP and 1 for LONGJMPR, which pops its return value before
\* the token and pushes it last.  A pop from the empty stack reads as 0.
\* A table entry outlives the activation that made it when a LONGJMP unwinds
\* that activation; a program that uses such a token is promised nothing more.
LongJmp(t, n) ==
  LET s == snaps[t] IN
    /\ stk < n + 1 => t = 0
    /\ s # NoSnapshot
    /\ proc' = s.proc /\ locals' = s.locals /\ calls' = s.calls /\ tuple' = s.tuple
    /\ pc' = Landing(s, n)
    /\ stk' = PushN(s.stk, n)
    /\ HaltIf(Underflows(stk, n + 1) \/ Overflows(s.stk, n))
    /\ snaps' = [snaps EXCEPT ![t] = NoSnapshot]
    /\ live' = IF \E a \in live : a.token = t
                 THEN {a \in live : a.level <= Len(s.calls) /\ a.token # t}
                 ELSE {}
    /\ UNCHANGED <<next_jump_token, last_return_word_count>>

LongJmpUnknown(t, n) ==
  /\ stk < n + 1 => t = 0
  /\ snaps[t] = NoSnapshot
  /\ stk' = PopN(stk, n + 1)
  /\ halted' = "fault"
  /\ UNCHANGED <<frameVars, jumpVars, pc, tuple, last_return_word_count>>

-----------------------------------------------------------------------------
Args == UNION {[1 .. n -> Word] : n \in 0 .. MaxArgs}

StackStep ==
  \E target \in PC :
    \/ \E pops \in 0 .. MaxPops, pushes \in {0, 1} : Operate(pops, pushes, target)
    \/ Dup(target)
    \/ DiscardReturn(target)
    \/ \E n \in 0 .. MaxPops, fill \in BOOLEAN : AllocTuple(n, fill, target)
    \/ \E n \in 0 .. MaxPops : PopTuple(n, target)

LocalStep ==
  \E target \in PC, i \in 1 .. MaxArgs, w \in Word :
    \/ \E pops \in {0, 1} : StoreLocal(i, w, pops, target)
    \/ StepLocal(i, w, target)

CallStep ==
  \E q \in Proc, args \in Args, indirect \in {0, 1}, return_pc \in PC :
    \/ NearCall(q, args, indirect, return_pc)
    \/ FarCall(q, args, indirect, return_pc)

StopStep ==
  \/ Halt
  \/ \E pops \in 0 .. MaxPops : Fault(pops)
  \/ \E argc \in 0 .. MaxArgs : FarCallInvalid(argc)
  \/ SetJmpTableFull
  \/ \E t \in Token, n \in {0, 1} : LongJmpUnknown(t, n)

ReturnStep == \E n \in 0 .. MaxArgs : Return(n, n) \/ (n = 1 /\ Return(n, 0))

SetJmpStep == \E a, b, target \in PC : SetJmp(a, b, target)

Straight == StackStep \/ LocalStep \/ CallStep \/ StopStep \/ ReturnStep \/ SetJmpStep

\* lpst_run stops fetching once is_halted is set.
Next ==
  /\ halted = "no"
  /\ Straight \/ \E t \in Token, n \in {0, 1} : LongJmp(t, n)

Spec == Init /\ [][Next]_vars

-----------------------------------------------------------------------------
(* Safety.                                                                  *)

\* The activation with `level` callers, suspended or running.
ProcAt(level) == IF level < Len(calls) THEN calls[level + 1].proc ELSE proc
LocalsAt(level) == IF level < Len(calls) THEN calls[level + 1].locals ELSE locals

\* A snapshot holds the activation its SETJMP ran in: the callers it has
\* now, the stack depths and addresses it had then, and, while it waits for
\* a callee, the locals it was suspended with.
Faithful(a) ==
  LET s == snaps[a.token] IN
    /\ a.level <= Len(calls)
    /\ s # NoSnapshot
    /\ s.proc = ProcAt(a.level)
    /\ s.calls = SubSeq(calls, 1, a.level)
    /\ <<s.stk, s.tuple, s.longjmp, s.longjmpr>> = <<a.stk, a.tuple, a.longjmp, a.longjmpr>>
    /\ a.level < Len(calls) => s.locals = LocalsAt(a.level)

\* A token works until the procedure that ran SETJMP returns, whatever the
\* calls, returns, SETJMPs and LONGJMPs in between: save_jump_snapshot,
\* refresh_current_frame_jump_snapshots, restore_jump_snapshot and
\* release_jump_snapshots_for_frame never lose, swap or corrupt its entry.
LiveRecordsIntact == \A a \in live : Faithful(a)
=============================================================================
