---------------------------- MODULE Lp128Control ----------------------------
(***************************************************************************)
(* Control state of the C128 build of Linchpin128 (lp128_run.c): the call  *)
(* stack, whose entries leave the caller's locals in a spill area of the   *)
(* REU, the depth of the evaluation stack, the tuple stack and the slots   *)
(* of SETJMP.  As in LpstControl an action is an instruction, the          *)
(* evaluation stack is its depth and a popped word is any word.            *)
(***************************************************************************)
EXTENDS Integers, Sequences, FiniteSets

CONSTANTS
  Proc, Main,    \* procedures of the bundle, and the entry procedure
  ModuleOf,      \* Proc -> module_id
  Exported,      \* the procedures a selector can name
  LocalInit,     \* Proc -> locals on entry: FALSE or the initializer
  Entry,         \* Proc -> code_offset
  PC,            \* addresses in the code
  Target,        \* where instructions and branches of the program go on
  ReturnPC,      \* where its calls return to
  Landing,       \* the two addresses of its SETJMPs, as pairs
  ExitProc,      \* the procedure at 0x4620 of module 4
  ExitPc,        \* addresses that stand for 0x45EB in module 4
  Word,          \* values a local may hold
  EvalCap,       \* LP128_EVAL_STACK_CAP
  CallCap,       \* LP128_CALL_STACK_CAP
  TupleCap,      \* words between tuple_stack_floor_byte and the top of the heap
  SnapshotCap,   \* LP128_JUMP_SNAPSHOT_CAP
  TokenMod, FirstToken, FalseToken,   \* 2^16, 0xA000, LP128_FALSE_SENTINEL
  NoSnapshot,
  MaxArgs,       \* bound on argc and on the results of a return
  MaxPops        \* bound on the operands of one instruction

ASSUME CapAssumption ==
  /\ EvalCap \in Nat /\ CallCap \in Nat /\ TupleCap \in Nat /\ SnapshotCap \in Nat
  /\ MaxArgs \in Nat /\ MaxPops \in Nat
  /\ TokenMod \in Nat /\ FirstToken \in 0 .. TokenMod - 1
  /\ SnapshotCap + 1 < TokenMod   \* a token that is not in use always exists

ASSUME ProcAssumption ==
  /\ Target \subseteq PC /\ ReturnPC \subseteq PC /\ Landing \subseteq PC \X PC
  /\ Main \in Proc /\ Exported \subseteq Proc /\ ExitPc \subseteq PC
  /\ ModuleOf \in [Proc -> Nat] /\ Entry \in [Proc -> PC]
  /\ LocalInit \in [Proc -> Seq(Word)]

VARIABLES
  proc, pc,  \* the frame_ fields with current_module_id, and program_counter
  locals,    \* locals, up to frame_local_count
  stk,       \* eval_stack_top
  calls,     \* call_stack: the caller's frame, return_pc, saved_eval_stack_depth
  spill,     \* the locals at call_stack_locals_reu_addr(depth)
  tuple,     \* words in use on the tuple stack
  snaps,     \* the valid slots by their tokens
  next_jump_token,
  last_return_word_count,
  halted,    \* is_halted and, as "fault" (0xFFFF) or "exit", halt_code
  live       \* history: the activation records a program may still use

vars == <<proc, pc, locals, stk, calls, spill, tuple, snaps, next_jump_token,
          last_return_word_count, halted, live>>

frameVars == <<proc, locals, calls, spill>>
jumpVars == <<snaps, next_jump_token, live>>

Token == 0 .. TokenMod - 1
Depth == 0 .. EvalCap
Continuation == [proc : Proc, pc : PC, depth : Depth]
Snapshot == [proc : Proc, locals : Seq(Word), calls : Seq(Continuation),
             stk : Depth, tuple : 0 .. TupleCap, longjmp : PC, longjmpr : PC]

ASSUME NoSnapshotAssumption == NoSnapshot \notin Snapshot

Record == [token : Token, level : Nat, stk : Depth, tuple : 0 .. TupleCap,
           longjmp : PC, longjmpr : PC]

TypeOK ==
  /\ proc \in Proc /\ pc \in PC
  /\ locals \in Seq(Word) /\ Len(locals) = Len(LocalInit[proc])
  /\ stk \in Depth /\ tuple \in 0 .. TupleCap
  /\ calls \in Seq(Continuation) /\ Len(calls) <= CallCap
  /\ spill \in [1 .. CallCap -> Seq(Word)]
  /\ \A i \in 1 .. Len(calls) : LocalInit[calls[i].proc] # <<>> =>
       Len(spill[i]) = Len(LocalInit[calls[i].proc])
  /\ snaps \in [Token -> Snapshot \cup {NoSnapshot}]
  /\ next_jump_token \in Token
  /\ last_return_word_count \in 0 .. MaxArgs
  /\ halted \in {"no", "fault", "exit"}
  /\ live \subseteq Record

Init ==
  /\ proc = Main /\ pc = Entry[Main] /\ locals = LocalInit[Main]
  /\ stk = 0 /\ calls = <<>> /\ spill = [i \in 1 .. CallCap |-> <<>>] /\ tuple = 0
  /\ snaps = [t \in Token |-> NoSnapshot]
  /\ next_jump_token = FirstToken /\ last_return_word_count = 0
  /\ halted = "no" /\ live = {}

-----------------------------------------------------------------------------
(* The evaluation stack, locals and tuples.                                 *)

PopN(d, n) == IF d < n THEN 0 ELSE d - n

\* Variant of PushN: the capacity is not looked at.
PushNoCheck(d, n) == d + n

PushN(d, n) == IF d + n > EvalCap THEN EvalCap ELSE d + n

HaltIf(fault) == halted' = IF fault THEN "fault" ELSE halted

\* An instruction that pops some words, pushes some and goes on at `target`.
Operate(pops, pushes, target) ==
  LET d == PopN(stk, pops) IN
    /\ stk' = PushN(d, pushes)
    /\ HaltIf(stk < pops \/ d + pushes > EvalCap)
    /\ pc' = target
    /\ UNCHANGED <<frameVars, jumpVars, tuple, last_return_word_count>>

\* STORE pops, STOREKEEP only peeks.
StoreLocal(i, w, pops, target) ==
  /\ locals' = IF i \in DOMAIN locals THEN [locals EXCEPT ![i] = w] ELSE locals
  /\ stk' = PopN(stk, pops)
  /\ HaltIf(stk < pops)
  /\ pc' = target
  /\ UNCHANGED <<proc, calls, spill, jumpVars, tuple, last_return_word_count>>

\* 0x16: drop the words the last return pushed.
DropResults(target) == Operate(last_return_word_count, 0, target)

Fault(pops) ==
  /\ halted' = "fault" /\ stk' = PopN(stk, pops)
  /\ UNCHANGED <<frameVars, jumpVars, pc, tuple, last_return_word_count>>

Halt ==
  /\ halted' = "exit"
  /\ UNCHANGED <<frameVars, jumpVars, pc, stk, tuple, last_return_word_count>>

TupleWords(n) == IF n > 0 THEN n ELSE 1

\* PVALLOC: a failure halts, and FALSE is pushed all the same.
AllocTuple(n, fill, target) ==
  LET fits == tuple + TupleWords(n) <= TupleCap
      pops == IF fill /\ fits THEN n + 1 ELSE 1
      d == PopN(stk, pops)
  IN  /\ tuple' = IF fits THEN tuple + TupleWords(n) ELSE tuple
      /\ stk' = PushN(d, 1)
      /\ HaltIf(~fits \/ stk < pops \/ d + 1 > EvalCap)
      /\ pc' = target
      /\ UNCHANGED <<frameVars, jumpVars, last_return_word_count>>

\* PVFREE, clamped to the top of the heap.
FreeTuple(n, target) ==
  /\ tuple' = IF TupleWords(n) > tuple THEN 0 ELSE tuple - TupleWords(n)
  /\ stk' = PopN(stk, 1)
  /\ HaltIf(stk < 1)
  /\ pc' = target
  /\ UNCHANGED <<frameVars, jumpVars, last_return_word_count>>

-----------------------------------------------------------------------------
(* Calls and returns.                                                       *)

NewLocals(q, args) ==
  [i \in 1 .. Len(LocalInit[q]) |-> IF i <= Len(args) THEN args[i] ELSE LocalInit[q][i]]

\* Variant of Spilled: the locals are left at the depth of the callee.
SpilledAbove == IF locals = <<>> \/ Len(calls) + 2 > CallCap THEN spill
                ELSE [spill EXCEPT ![Len(calls) + 2] = locals]

\* A caller without locals spills nothing.
Spilled == IF locals = <<>> THEN spill ELSE [spill EXCEPT ![Len(calls) + 1] = locals]

\* enter_procedure.  `indirect` is 1 when the target was popped first.  A full
\* call stack is noticed before the arguments are popped.
Enter(q, args, indirect, return_pc) ==
  LET pops == indirect + Len(args)
      full == Len(calls) >= CallCap
      exits == ~full /\ q = ExitProc
  IN  /\ stk' = PopN(stk, IF full THEN indirect ELSE pops)
      /\ halted' = IF exits THEN "exit"
                   ELSE IF full \/ stk < pops THEN "fault" ELSE halted
      /\ spill' = IF full THEN spill ELSE Spilled
      /\ IF full \/ exits THEN UNCHANGED <<proc, pc, locals, calls>>
         ELSE /\ calls' = Append(calls, [proc |-> proc, pc |-> return_pc, depth |-> stk'])
              /\ proc' = q /\ pc' = Entry[q] /\ locals' = NewLocals(q, args)
      /\ UNCHANGED <<jumpVars, tuple, last_return_word_count>>

NearCall(q, args, indirect, return_pc) ==
  ModuleOf[q] = ModuleOf[proc] /\ Enter(q, args, indirect, return_pc)

FarCall(q, args, indirect, return_pc) ==
  q \in Exported /\ Enter(q, args, indirect, return_pc)

\* A selector of no module or of no export: the arguments stay on the stack.
FarCallInvalid(indirect) == Fault(indirect)

\* do_return with n results, `pops` of which came off the stack.
Return(n, pops) ==
  /\ last_return_word_count' = n
  /\ live' = {a \in live : a.level < Len(calls)}
  /\ IF calls = <<>>
       THEN /\ halted' = "exit" /\ stk' = PopN(stk, pops)
            /\ UNCHANGED <<proc, pc, locals, calls>>
       ELSE LET cont == calls[Len(calls)]
                exits == ModuleOf[cont.proc] = ModuleOf[ExitProc] /\ cont.pc \in ExitPc
            IN  /\ calls' = SubSeq(calls, 1, Len(calls) - 1)
                /\ proc' = cont.proc /\ pc' = cont.pc
                /\ locals' = IF LocalInit[cont.proc] = <<>> THEN <<>> ELSE spill[Len(calls)]
                /\ stk' = IF exits THEN cont.depth ELSE PushN(cont.depth, n)
                /\ halted' = IF exits THEN "exit"
                             ELSE IF stk < pops \/ cont.depth + n > EvalCap THEN "fault"
                             ELSE halted
  /\ UNCHANGED <<spill, tuple, snaps, next_jump_token>>

-----------------------------------------------------------------------------
(* SETJMP, LONGJMP and LONGJMPR.                                            *)

InUse == {t \in Token : snaps[t] # NoSnapshot}

\* Variant of FreshToken: valid tokens are not stepped past.
UncheckedToken ==
  IF next_jump_token = FalseToken THEN (next_jump_token + 1) % TokenMod ELSE next_jump_token

\* create_jump_snapshot steps the counter past FALSE and past valid tokens.
FreshToken ==
  LET Distance(t) == (t + TokenMod - next_jump_token) % TokenMod
      fit == {t \in Token : t # FalseToken /\ t \notin InUse}
  IN  CHOOSE t \in fit : \A u \in fit : Distance(t) <= Distance(u)

SetJmpTableFull ==
  /\ Cardinality(InUse) >= SnapshotCap
  /\ halted' = "fault"
  /\ UNCHANGED <<frameVars, jumpVars, pc, stk, tuple, last_return_word_count>>

SetJmp(longjmp, longjmpr, target) ==
  /\ Cardinality(InUse) < SnapshotCap
  /\ snaps' = [snaps EXCEPT ![FreshToken] =
                 [proc |-> proc, locals |-> locals, calls |-> calls, stk |-> stk,
                  tuple |-> tuple, longjmp |-> longjmp, longjmpr |-> longjmpr]]
  /\ live' = live \cup {[token |-> FreshToken, level |-> Len(calls), stk |-> stk,
                         tuple |-> tuple, longjmp |-> longjmp, longjmpr |-> longjmpr]}
  /\ next_jump_token' = (FreshToken + 1) % TokenMod
  /\ stk' = PushN(stk, 1)
  /\ HaltIf(stk + 1 > EvalCap)
  /\ pc' = target
  /\ UNCHANGED <<frameVars, tuple, last_return_word_count>>

\* n is 0 for LONGJMP and 1 for LONGJMPR.  The spill area stays as it is.
LongJmp(t, n) ==
  LET s == snaps[t] IN
    /\ stk < n + 1 => t = 0
    /\ s # NoSnapshot
    /\ proc' = s.proc /\ locals' = s.locals /\ calls' = s.calls /\ tuple' = s.tuple
    /\ pc' = IF n = 1 THEN s.longjmpr ELSE s.longjmp
    /\ stk' = PushN(s.stk, n)
    /\ HaltIf(stk < n + 1 \/ s.stk + n > EvalCap)
    /\ snaps' = [snaps EXCEPT ![t] = NoSnapshot]
    /\ live' = IF \E a \in live : a.token = t
                 THEN {a \in live : a.level <= Len(s.calls) /\ a.token # t}
                 ELSE {}
    /\ UNCHANGED <<spill, next_jump_token, last_return_word_count>>

LongJmpUnknown(t, n) ==
  /\ stk < n + 1 => t = 0
  /\ snaps[t] = NoSnapshot
  /\ Fault(n + 1)

-----------------------------------------------------------------------------
Args == UNION {[1 .. n -> Word] : n \in 0 .. MaxArgs}

Straight ==
  \/ \E target \in Target, pops \in 0 .. MaxPops : \E pushes \in {0, 1} : Operate(pops, pushes, target)
  \/ \E target \in Target : DropResults(target)
  \/ \E target \in Target, i \in 1 .. MaxArgs, w \in Word, pops \in {0, 1} :
       StoreLocal(i, w, pops, target)
  \/ \E target \in Target, n \in 0 .. MaxPops :
       FreeTuple(n, target) \/ \E fill \in BOOLEAN : AllocTuple(n, fill, target)
  \/ \E q \in Proc, args \in Args, indirect \in {0, 1}, return_pc \in ReturnPC :
       NearCall(q, args, indirect, return_pc) \/ FarCall(q, args, indirect, return_pc)
  \/ \E indirect \in {0, 1} : FarCallInvalid(indirect)
  \/ \E n \in 0 .. MaxArgs : Return(n, n) \/ (n = 1 /\ Return(n, 0))
  \/ \E at \in Landing, target \in Target : SetJmp(at[1], at[2], target)
  \/ SetJmpTableFull
  \/ \E t \in Token, n \in {0, 1} : LongJmpUnknown(t, n)
  \/ \E pops \in 0 .. MaxPops : Fault(pops)
  \/ Halt

\* A suspended or running activation, from the call stack and the spill area.
LocalsAt(level) ==
  IF level = Len(calls) THEN locals
  ELSE IF LocalInit[calls[level + 1].proc] = <<>> THEN <<>> ELSE spill[level + 1]
ProcAt(level) == IF level < Len(calls) THEN calls[level + 1].proc ELSE proc

\* The program jumps only to a valid record, of an activation whose locals are
\* still what they were when it ran SETJMP: the slots keep the locals.
Usable(t) ==
  \E a \in live : a.token = t /\ snaps[t].locals = LocalsAt(a.level)

Next ==
  /\ halted = "no"
  /\ Straight \/ \E t \in Token, n \in {0, 1} : Usable(t) /\ LongJmp(t, n)

Spec == Init /\ [][Next]_vars

-----------------------------------------------------------------------------
(* Properties.                                                              *)

\* A slot holds the activation its SETJMP ran in until that activation returns,
\* whatever the tokens given out and taken back in between.
LiveSlotsIntact ==
  \A a \in live :
    LET s == snaps[a.token] IN
      /\ s # NoSnapshot /\ a.level <= Len(calls)
      /\ s.proc = ProcAt(a.level) /\ s.calls = SubSeq(calls, 1, a.level)
      /\ <<s.stk, s.tuple, s.longjmp, s.longjmpr>> = <<a.stk, a.tuple, a.longjmp, a.longjmpr>>

\* The activations, oldest first: each suspended one has its continuation on
\* the call stack and its locals in the spill area.
Frames ==
  [i \in 1 .. Len(calls) + 1 |->
     IF i <= Len(calls)
       THEN [proc |-> calls[i].proc, locals |-> LocalsAt(i - 1),
             pc |-> calls[i].pc, stk |-> calls[i].depth]
       ELSE [proc |-> proc, locals |-> locals, pc |-> pc, stk |-> stk]]

Status == IF halted = "no" THEN "running" ELSE "stopped"

\* Calls, returns and jumps are those of a stack of activations, although the
\* locals of suspended activations are not on the call stack that a jump
\* restores but in the spill area, which it leaves alone.
Promise == INSTANCE Activations WITH
  frames <- Frames, records <- live, MaxResults <- MaxArgs, status <- Status

ImplementsActivations == Promise!Spec
=============================================================================
