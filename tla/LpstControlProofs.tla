------------------------- MODULE LpstControlProofs -------------------------
(***************************************************************************)
(* Proofs about LpstControl for every image, every capacity and every      *)
(* bound: type correctness, and that a SETJMP token keeps its snapshot for *)
(* as long as its procedure has not returned.                              *)
(***************************************************************************)
EXTENDS LpstProgram, SequenceTheorems, TLAPS

-----------------------------------------------------------------------------
(* The helpers stay within their types.                                     *)

\* Popping and pushing keep the stack depth between 0 and its capacity.
LEMMA StackDepths ==
  ASSUME NEW d \in Depth, NEW n \in Nat
  PROVE  PopN(d, n) \in Depth /\ PushN(d, n) \in Depth
BY CapAssumption DEF PopN, PushN, Depth

\* NewLocals fills exactly the locals its procedure declares.
LEMMA NewLocalsType ==
  ASSUME NEW q \in Proc, NEW args \in Args
  PROVE  NewLocals(q, args) \in Seq(Word) /\ Len(NewLocals(q, args)) = Len(LocalInit[q])
<1>1. LocalInit[q] \in Seq(Word) /\ Len(LocalInit[q]) \in Nat
  BY ProcAssumption
<1>2. PICK n \in 0 .. MaxArgs : args \in [1 .. n -> Word]
  BY DEF Args
<1>3. n \in Nat /\ Len(args) = n /\ \A i \in 1 .. n : args[i] \in Word
  BY <1>2, CapAssumption
<1>4. \A i \in 1 .. Len(LocalInit[q]) : LocalInit[q][i] \in Word
  BY <1>1
<1>5. NewLocals(q, args) \in [1 .. Len(LocalInit[q]) -> Word]
  BY <1>1, <1>3, <1>4 DEF NewLocals
<1> QED
  BY <1>1, <1>5

\* An argument list has a length.
LEMMA ArgsLen ==
  ASSUME NEW args \in Args
  PROVE  Len(args) \in Nat
<1>1. PICK n \in 0 .. MaxArgs : args \in [1 .. n -> Word]
  BY DEF Args
<1> QED
  BY <1>1, CapAssumption

\* The words an allocation takes are at least one.
LEMMA TupleWordsPositive ==
  ASSUME NEW n \in Nat
  PROVE  TupleWords(n) \in Nat /\ TupleWords(n) > 0
BY DEF TupleWords

\* The token counter stays a token.
LEMMA TokenTypes ==
  ASSUME TypeOK
  PROVE  FreshToken \in Token /\ Succ(FreshToken) \in Token
BY TokenAssumption DEF TypeOK, FreshToken, Succ, Token

-----------------------------------------------------------------------------
(* Type correctness.                                                        *)

\* TypeOK is not inductive: a return takes the caller's locals from the call
\* stack and a jump takes all of them from a snapshot, so these must have the
\* number of locals their procedures declare as well.
FitsProc(f) == Len(f.locals) = Len(LocalInit[f.proc])

Shaped ==
  /\ \A i \in 1 .. Len(calls) : FitsProc(calls[i])
  /\ \A t \in Token : snaps[t] # NoSnapshot =>
       /\ FitsProc(snaps[t]) /\ Len(snaps[t].calls) <= CallCap
       /\ \A i \in 1 .. Len(snaps[t].calls) : FitsProc(snaps[t].calls[i])

\* The machine starts well typed.
LEMMA InitType == Init => TypeOK
<1> SUFFICES ASSUME Init PROVE TypeOK
  OBVIOUS
<1>1. proc \in Proc /\ pc \in PC /\ locals \in Seq(Word) /\ Len(locals) = Len(LocalInit[proc])
  BY ProcAssumption DEF Init
<1>2. stk \in Depth /\ tuple \in 0 .. TupleCap /\ last_return_word_count \in 0 .. MaxArgs
  BY CapAssumption DEF Init, Depth
<1>3. calls \in Seq(Continuation) /\ Len(calls) <= CallCap
  BY CapAssumption DEF Init
<1>4. next_jump_token \in Token /\ snaps \in [Token -> Snapshot \cup {NoSnapshot}]
  BY TokenAssumption DEF Init, Token
<1> QED
  BY <1>1, <1>2, <1>3, <1>4 DEF Init, TypeOK

\* Instructions of the evaluation and tuple stacks.
LEMMA StackType ==
  ASSUME TypeOK, halted = "no", StackStep
  PROVE  TypeOK'
<1> USE DEF frameVars, jumpVars, HaltIf
<1>1. PICK target \in PC :
        \/ \E pops \in 0 .. MaxPops, pushes \in {0, 1} : Operate(pops, pushes, target)
        \/ Dup(target)
        \/ DiscardReturn(target)
        \/ \E n \in 0 .. MaxPops, fill \in BOOLEAN : AllocTuple(n, fill, target)
        \/ \E n \in 0 .. MaxPops : PopTuple(n, target)
  BY DEF StackStep
<1>2. ASSUME NEW pops \in Nat, NEW pushes \in Nat, Operate(pops, pushes, target)
      PROVE  TypeOK'
  <2>1. stk' \in Depth
    BY <1>2, StackDepths DEF TypeOK, Operate
  <2> QED
    BY <1>2, <2>1 DEF TypeOK, Operate
<1>3. ASSUME Dup(target) PROVE TypeOK'
  <2>1. stk' \in Depth
    BY <1>3, StackDepths DEF TypeOK, Dup
  <2> QED
    BY <1>3, <2>1 DEF TypeOK, Dup
<1>4. ASSUME NEW n \in 0 .. MaxPops, NEW fill \in BOOLEAN, AllocTuple(n, fill, target)
      PROVE  TypeOK'
  <2> n \in Nat
    BY CapAssumption
  <2>1. tuple' \in 0 .. TupleCap
    <3>1. tuple' = IF tuple + TupleWords(n) <= TupleCap THEN tuple + TupleWords(n) ELSE tuple
      BY <1>4, Zenon DEF AllocTuple
    <3>2. tuple \in 0 .. TupleCap
      BY DEF TypeOK
    <3>3. TupleWords(n) \in Nat
      BY TupleWordsPositive
    <3> QED
      BY <3>1, <3>2, <3>3, CapAssumption
  <2>2. stk' \in Depth
    <3> DEFINE pops == IF fill /\ tuple + TupleWords(n) <= TupleCap THEN n + 1 ELSE 1
    <3>1. pops \in Nat
      OBVIOUS
    <3>2. PopN(stk, pops) \in Depth
      BY <3>1, StackDepths DEF TypeOK
    <3>3. stk' = PushN(PopN(stk, pops), 1)
      BY <1>4 DEF AllocTuple
    <3> QED
      BY <3>2, <3>3, StackDepths
  <2>3. halted' \in {"no", "fault", "exit"} /\ pc' = target
    BY <1>4 DEF AllocTuple, TypeOK
  <2> QED
    BY <1>4, <2>1, <2>2, <2>3 DEF TypeOK, AllocTuple
<1>5. ASSUME NEW n \in 0 .. MaxPops, PopTuple(n, target) PROVE TypeOK'
  <2> n \in Nat
    BY CapAssumption
  <2>1. tuple' \in 0 .. TupleCap
    <3>1. tuple' = IF TupleWords(n) > tuple THEN 0 ELSE tuple - TupleWords(n)
      BY <1>5, Zenon DEF PopTuple
    <3>2. tuple \in 0 .. TupleCap
      BY DEF TypeOK
    <3>3. TupleWords(n) \in Nat
      BY TupleWordsPositive
    <3> QED
      BY <3>1, <3>2, <3>3, CapAssumption
  <2>2. stk' \in Depth
    BY <1>5, StackDepths DEF TypeOK, PopTuple
  <2> QED
    BY <1>5, <2>1, <2>2 DEF TypeOK, PopTuple
<1> QED
  BY <1>1, <1>2, <1>3, <1>4, <1>5, CapAssumption DEF DiscardReturn, TypeOK

\* Stores to locals keep their number.
LEMMA LocalType ==
  ASSUME TypeOK, halted = "no", LocalStep
  PROVE  TypeOK'
<1> USE DEF HaltIf, jumpVars
<1>1. PICK target \in PC, i \in 1 .. MaxArgs, w \in Word :
        \/ \E pops \in {0, 1} : StoreLocal(i, w, pops, target)
        \/ StepLocal(i, w, target)
  BY DEF LocalStep
<1>2. ASSUME NEW pops \in {0, 1}, StoreLocal(i, w, pops, target) PROVE TypeOK'
  <2>1. stk' \in Depth
    BY <1>2, StackDepths DEF TypeOK, StoreLocal
  <2>2. locals' \in Seq(Word) /\ Len(locals') = Len(locals)
    BY <1>2 DEF TypeOK, StoreLocal
  <2> QED
    BY <1>2, <2>1, <2>2 DEF TypeOK, StoreLocal
<1>3. ASSUME StepLocal(i, w, target) PROVE TypeOK'
  <2>1. stk' \in Depth
    BY <1>3, StackDepths DEF TypeOK, StepLocal
  <2>2. locals' \in Seq(Word) /\ Len(locals') = Len(locals)
    BY <1>3 DEF TypeOK, StepLocal
  <2> QED
    BY <1>3, <2>1, <2>2 DEF TypeOK, StepLocal
<1> QED
  BY <1>1, <1>2, <1>3

\* Refreshing and releasing entries keep the snapshot table well typed.
LEMMA TableTypes ==
  ASSUME TypeOK
  PROVE  /\ Refresh \in [Token -> Snapshot \cup {NoSnapshot}]
         /\ Release \in [Token -> Snapshot \cup {NoSnapshot}]
<1>1. ASSUME NEW t \in Token, snaps[t] # NoSnapshot
      PROVE  [snaps[t] EXCEPT !.locals = locals] \in Snapshot
  BY <1>1 DEF TypeOK, Snapshot
<1> QED
  BY <1>1 DEF TypeOK, Refresh, Release

\* A call, whichever way its target was found.
LEMMA EnterType ==
  ASSUME TypeOK, halted = "no", NEW q \in Proc, NEW args \in Args, NEW d \in Depth,
         NEW return_pc \in PC, EnterProcedure(q, args, d, return_pc),
         NEW fault \in BOOLEAN, HaltIf(fault)
  PROVE  TypeOK'
<1>1. halted' \in {"no", "fault", "exit"}
  BY DEF HaltIf, TypeOK
<1>2. CASE Len(calls) >= CallCap
  BY <1>1, <1>2 DEF EnterProcedure, TypeOK, frameVars
<1>3. CASE ~(Len(calls) >= CallCap)
  <2> DEFINE cont == [proc |-> proc, pc |-> return_pc, locals |-> locals, depth |-> d]
  <2>1. cont \in Continuation
    BY DEF TypeOK, Continuation
  <2>2. calls' = Append(calls, cont)
    BY <1>3 DEF EnterProcedure
  <2> HIDE DEF cont
  <2>3. calls' \in Seq(Continuation) /\ Len(calls') <= CallCap
    BY <1>3, <2>1, <2>2, CapAssumption DEF TypeOK
  <2>4. proc' = q /\ pc' \in PC /\ locals' = NewLocals(q, args)
    BY <1>3, ProcAssumption DEF EnterProcedure
  <2>5. snaps' \in [Token -> Snapshot \cup {NoSnapshot}]
    BY <1>3, TableTypes DEF EnterProcedure
  <2> QED
    BY <1>1, <2>3, <2>4, <2>5, NewLocalsType DEF EnterProcedure, TypeOK
<1> QED
  BY <1>2, <1>3

\* A call pushes a well-typed continuation.
LEMMA CallType ==
  ASSUME TypeOK, halted = "no", CallStep
  PROVE  TypeOK'
<1>1. PICK q \in Proc, args \in Args, indirect \in {0, 1}, return_pc \in PC :
        NearCall(q, args, indirect, return_pc) \/ FarCall(q, args, indirect, return_pc)
  BY DEF CallStep
<1> DEFINE d == PopN(stk, Len(args) + indirect)
           fault == Underflows(stk, Len(args) + indirect) \/ Len(calls) >= CallCap
<1>2. Len(args) + indirect \in Nat
  BY ArgsLen
<1>3. d \in Depth /\ fault \in BOOLEAN
  BY <1>2, StackDepths DEF TypeOK, Underflows
<1>4. EnterProcedure(q, args, d, return_pc) /\ HaltIf(fault)
  BY <1>1 DEF NearCall, FarCall
<1> QED
  BY <1>3, <1>4, EnterType

\* Stopping instructions.
LEMMA StopType ==
  ASSUME TypeOK, halted = "no", StopStep
  PROVE  TypeOK'
<1> USE DEF frameVars, jumpVars
<1>1. ASSUME Halt PROVE TypeOK'
  BY <1>1 DEF Halt, TypeOK
<1>5. ASSUME NEW pops \in 0 .. MaxPops, Fault(pops) PROVE TypeOK'
  <2>1. stk' \in Depth
    BY <1>5, StackDepths, CapAssumption DEF Fault, TypeOK
  <2> QED
    BY <1>5, <2>1 DEF Fault, TypeOK
<1>2. ASSUME NEW argc \in 0 .. MaxArgs, FarCallInvalid(argc) PROVE TypeOK'
  <2>1. stk' \in Depth
    BY <1>2, StackDepths, CapAssumption DEF FarCallInvalid, TypeOK
  <2> QED
    BY <1>2, <2>1 DEF FarCallInvalid, TypeOK
<1>3. ASSUME SetJmpTableFull PROVE TypeOK'
  BY <1>3, TokenTypes DEF SetJmpTableFull, TypeOK
<1>4. ASSUME NEW t \in Token, NEW n \in {0, 1}, LongJmpUnknown(t, n) PROVE TypeOK'
  <2>1. stk' \in Depth
    BY <1>4, StackDepths DEF LongJmpUnknown, TypeOK
  <2> QED
    BY <1>4, <2>1 DEF LongJmpUnknown, TypeOK
<1> QED
  BY <1>1, <1>2, <1>3, <1>4, <1>5 DEF StopStep

\* Returning from the entry procedure stops the machine; from any other it
\* restores a continuation of the call stack.  The second needs the locals of
\* a continuation to be as many as its procedure declares.
LEMMA ReturnType ==
  ASSUME TypeOK, Shaped, halted = "no", NEW n \in 0 .. MaxArgs, NEW pops \in Nat, Return(n, pops)
  PROVE  TypeOK'
<1>1. /\ snaps' \in [Token -> Snapshot \cup {NoSnapshot}]
      /\ live' \subseteq Record
      /\ last_return_word_count' \in 0 .. MaxArgs
      /\ tuple' = tuple /\ next_jump_token' = next_jump_token
  BY TableTypes DEF Return, TypeOK
<1>2. CASE calls = <<>>
  <2>1. stk' \in Depth
    BY <1>2, StackDepths DEF Return, TypeOK
  <2> QED
    BY <1>1, <1>2, <2>1 DEF Return, TypeOK, frameVars
<1>3. CASE calls # <<>>
  <2> DEFINE cont == calls[Len(calls)]
  <2>1. Len(calls) \in 1 .. CallCap /\ cont \in Continuation
    BY <1>3, CapAssumption DEF TypeOK
  <2>2. calls' \in Seq(Continuation) /\ Len(calls') <= CallCap
    <3>1. calls' = SubSeq(calls, 1, Len(calls) - 1)
      BY <1>3 DEF Return
    <3> QED
      BY <2>1, <3>1, CapAssumption DEF TypeOK
  <2>3. /\ proc' = cont.proc /\ pc' = cont.pc /\ locals' = cont.locals
        /\ stk' = PushN(cont.depth, n)
        /\ HaltIf(Underflows(stk, pops) \/ Overflows(cont.depth, n))
    BY <1>3 DEF Return
  <2>4. Len(cont.locals) = Len(LocalInit[cont.proc])
    BY <2>1 DEF Shaped, FitsProc
  <2>5. cont.depth \in Depth /\ cont.proc \in Proc /\ cont.pc \in PC /\ cont.locals \in Seq(Word)
    BY <2>1 DEF Continuation
  <2>6. stk' \in Depth
    BY <2>3, <2>5, StackDepths, CapAssumption
  <2>7. halted' \in {"no", "fault", "exit"}
    BY <2>3 DEF HaltIf, TypeOK
  <2> QED
    BY <1>1, <2>2, <2>3, <2>4, <2>5, <2>6, <2>7 DEF TypeOK
<1> QED
  BY <1>2, <1>3

\* The entry SETJMP writes.
NewEntry(longjmp, longjmpr) ==
  [proc |-> proc, locals |-> locals, calls |-> calls, stk |-> stk,
   tuple |-> tuple, longjmp |-> longjmp, longjmpr |-> longjmpr]

\* SETJMP makes a well-typed entry.
LEMMA NewEntryType ==
  ASSUME TypeOK, NEW a \in PC, NEW b \in PC
  PROVE  NewEntry(a, b) \in Snapshot
BY DEF TypeOK, NewEntry, Snapshot

\* SETJMP with room in the table.
LEMMA SetJmpType ==
  ASSUME TypeOK, halted = "no", NEW a \in PC, NEW b \in PC, NEW target \in PC,
         SetJmp(a, b, target)
  PROVE  TypeOK'
<1>1. snaps' = [snaps EXCEPT ![FreshToken] = NewEntry(a, b)]
  BY DEF SetJmp, NewEntry
<1>2. snaps' \in [Token -> Snapshot \cup {NoSnapshot}]
  BY <1>1, NewEntryType, TokenTypes DEF TypeOK
<1>3. live' \subseteq Record
  <2>1. [token |-> FreshToken, level |-> Len(calls), stk |-> stk,
         tuple |-> tuple, longjmp |-> a, longjmpr |-> b] \in Record
    BY TokenTypes DEF TypeOK, Record
  <2> QED
    BY <2>1 DEF SetJmp, TypeOK
<1>4. stk' \in Depth /\ halted' \in {"no", "fault", "exit"}
  <2>1. stk' = PushN(stk, 1) /\ HaltIf(Overflows(stk, 1))
    BY DEF SetJmp
  <2> QED
    BY <2>1, StackDepths DEF TypeOK, HaltIf
<1>5. next_jump_token' \in Token /\ pc' = target
  BY TokenTypes DEF SetJmp
<1>6. UNCHANGED <<proc, locals, calls, tuple, last_return_word_count>>
  BY DEF SetJmp, frameVars
<1> QED
  BY <1>2, <1>3, <1>4, <1>5, <1>6 DEF TypeOK

\* LONGJMP to an entry of the table.
LEMMA LongJmpType ==
  ASSUME TypeOK, Shaped, halted = "no", NEW t \in Token, NEW n \in {0, 1}, LongJmp(t, n)
  PROVE  TypeOK'
<1> DEFINE s == snaps[t]
<1>1. /\ s \in Snapshot /\ s # NoSnapshot
      /\ proc' = s.proc /\ locals' = s.locals /\ calls' = s.calls /\ tuple' = s.tuple
      /\ pc' = Landing(s, n)
      /\ stk' = PushN(s.stk, n)
      /\ HaltIf(Underflows(stk, n + 1) \/ Overflows(s.stk, n))
      /\ snaps' = [snaps EXCEPT ![t] = NoSnapshot]
      /\ live' \subseteq live
      /\ UNCHANGED <<next_jump_token, last_return_word_count>>
  BY DEF LongJmp, TypeOK
<1>2. FitsProc(s) /\ Len(s.calls) <= CallCap
  BY <1>1 DEF Shaped
<1>3. stk' \in Depth
  BY <1>1, StackDepths DEF Snapshot
<1>4. /\ proc' \in Proc /\ locals' \in Seq(Word) /\ calls' \in Seq(Continuation)
      /\ tuple' \in 0 .. TupleCap /\ pc' \in PC
  BY <1>1 DEF Snapshot, Landing
<1>5. snaps' \in [Token -> Snapshot \cup {NoSnapshot}]
  BY <1>1 DEF TypeOK
<1>6. halted' \in {"no", "fault", "exit"}
  BY <1>1 DEF HaltIf, TypeOK
<1> QED
  BY <1>1, <1>2, <1>3, <1>4, <1>5, <1>6 DEF TypeOK, FitsProc

-----------------------------------------------------------------------------
(* Shaped is preserved.                                                     *)

\* What every step except a call, a return, a SETJMP and a LONGJMP leaves alone.
LEMMA QuietSteps ==
  ASSUME TypeOK, StackStep \/ LocalStep \/ StopStep
  PROVE  /\ proc' = proc /\ calls' = calls /\ snaps' = snaps /\ live' = live
         /\ \/ next_jump_token' = next_jump_token
            \/ next_jump_token < MaxJumpToken /\ next_jump_token' = Succ(FreshToken)
<1> USE DEF frameVars, jumpVars
<1> DEFINE Quiet == UNCHANGED <<proc, calls, snaps, live, next_jump_token>>
<1>1. ASSUME StackStep PROVE Quiet
  <2>1. PICK target \in PC :
        \/ \E pops \in 0 .. MaxPops, pushes \in {0, 1} : Operate(pops, pushes, target)
        \/ Dup(target)
        \/ DiscardReturn(target)
        \/ \E n \in 0 .. MaxPops, fill \in BOOLEAN : AllocTuple(n, fill, target)
        \/ \E n \in 0 .. MaxPops : PopTuple(n, target)
    BY <1>1 DEF StackStep
  <2>2. ASSUME NEW pops, NEW pushes, Operate(pops, pushes, target) PROVE Quiet
    BY <2>2 DEF Operate
  <2>3. ASSUME Dup(target) PROVE Quiet
    BY <2>3 DEF Dup
  <2>4. ASSUME NEW n, NEW fill, AllocTuple(n, fill, target) PROVE Quiet
    BY <2>4 DEF AllocTuple
  <2>5. ASSUME NEW n, PopTuple(n, target) PROVE Quiet
    BY <2>5 DEF PopTuple
  <2> HIDE DEF Quiet
  <2> QED
    BY <2>1, <2>2, <2>3, <2>4, <2>5 DEF DiscardReturn
<1>2. ASSUME LocalStep PROVE Quiet
  <2>1. PICK target, i, w : \/ \E pops \in {0, 1} : StoreLocal(i, w, pops, target)
                            \/ StepLocal(i, w, target)
    BY <1>2 DEF LocalStep
  <2>2. ASSUME NEW pops, StoreLocal(i, w, pops, target) PROVE Quiet
    BY <2>2 DEF StoreLocal
  <2>3. ASSUME StepLocal(i, w, target) PROVE Quiet
    BY <2>3 DEF StepLocal
  <2> HIDE DEF Quiet
  <2> QED
    BY <2>1, <2>2, <2>3
<1>3. ASSUME Halt \/ \E pops \in 0 .. MaxPops : Fault(pops)
      PROVE  Quiet
  BY <1>3 DEF Halt, Fault
<1>4. ASSUME NEW argc \in 0 .. MaxArgs, FarCallInvalid(argc)
      PROVE  Quiet
  BY <1>4 DEF FarCallInvalid
<1>5. ASSUME SetJmpTableFull
      PROVE  /\ UNCHANGED <<proc, calls, snaps, live>>
             /\ next_jump_token < MaxJumpToken /\ next_jump_token' = Succ(FreshToken)
  BY <1>5 DEF SetJmpTableFull
<1>6. ASSUME NEW t \in Token, NEW n \in {0, 1}, LongJmpUnknown(t, n)
      PROVE  Quiet
  BY <1>6 DEF LongJmpUnknown
<1>7. CASE Quiet
  BY <1>7
<1> HIDE DEF Quiet
<1>8. CASE SetJmpTableFull
  BY <1>5, <1>8
<1>9. ASSUME StopStep PROVE Quiet \/ SetJmpTableFull
  BY <1>3, <1>4, <1>6, <1>9, Zenon DEF StopStep
<1> QED
  BY <1>1, <1>2, <1>7, <1>8, <1>9

\* What a call does to the frames, when it does anything.
LEMMA CallEffect ==
  ASSUME TypeOK, CallStep
  PROVE  /\ live' = live /\ next_jump_token' = next_jump_token
         /\ \/ proc' = proc /\ calls' = calls /\ snaps' = snaps /\ locals' = locals
            \/ /\ Len(calls) < CallCap
               /\ snaps' = Refresh
               /\ \E r \in PC, d \in Depth :
                    calls' = Append(calls, [proc |-> proc, pc |-> r, locals |-> locals, depth |-> d])
<1>1. PICK q \in Proc, args \in Args, indirect \in {0, 1}, return_pc \in PC :
        EnterProcedure(q, args, PopN(stk, Len(args) + indirect), return_pc)
  BY DEF CallStep, NearCall, FarCall
<1>2. PopN(stk, Len(args) + indirect) \in Depth
  BY ArgsLen, StackDepths DEF TypeOK
<1>3. live' = live /\ next_jump_token' = next_jump_token
  BY <1>1 DEF EnterProcedure
<1>4. CASE Len(calls) >= CallCap
  BY <1>1, <1>3, <1>4 DEF EnterProcedure, frameVars
<1>5. CASE ~(Len(calls) >= CallCap)
  <2>1. Len(calls) < CallCap
    BY <1>5, CapAssumption DEF TypeOK
  <2> QED
    BY <1>1, <1>2, <1>3, <1>5, <2>1 DEF EnterProcedure
<1> QED
  BY <1>4, <1>5

\* At the start there is nothing to restore.
LEMMA ShapedInit == Init => Shaped
BY DEF Init, Shaped

\* Every step keeps what a return or a jump will restore in shape.
LEMMA ShapedStep ==
  ASSUME TypeOK, Shaped, halted = "no",
         Straight \/ (\E t \in Token, n \in {0, 1} : LongJmp(t, n))
  PROVE  Shaped'
<1> USE DEF FitsProc
<1>1. CASE StackStep \/ LocalStep \/ StopStep
  BY <1>1, QuietSteps DEF Shaped
<1>2. CASE CallStep
  <2>1. CASE proc' = proc /\ calls' = calls /\ snaps' = snaps
    BY <2>1 DEF Shaped
  <2>2. ASSUME snaps' = Refresh, NEW r \in PC, NEW d \in Depth,
               calls' = Append(calls, [proc |-> proc, pc |-> r, locals |-> locals, depth |-> d])
        PROVE  Shaped'
    <3> DEFINE c == [proc |-> proc, pc |-> r, locals |-> locals, depth |-> d]
    <3>1. Len(c.locals) = Len(LocalInit[c.proc])
      BY DEF TypeOK
    <3>2. calls \in Seq(Continuation) /\ c \in Continuation
      BY DEF TypeOK, Continuation
    <3> HIDE DEF c
    <3>3. \A i \in 1 .. Len(calls') : FitsProc(calls'[i])
      BY <2>2, <3>1, <3>2 DEF Shaped, c
    <3>4. ASSUME NEW t \in Token, snaps'[t] # NoSnapshot
          PROVE  /\ FitsProc(snaps'[t]) /\ Len(snaps'[t].calls) <= CallCap
                 /\ \A i \in 1 .. Len(snaps'[t].calls) : FitsProc(snaps'[t].calls[i])
      <4>1. snaps[t] # NoSnapshot
        BY <2>2, <3>4 DEF Refresh
      <4>2. snaps[t] \in Snapshot
        BY <4>1 DEF TypeOK
      <4>3. CASE SameFrame(snaps[t])
        <5>1. snaps'[t] = [snaps[t] EXCEPT !.locals = locals]
          BY <2>2, <4>1, <4>3 DEF Refresh
        <5>2. /\ snaps'[t].proc = proc /\ snaps'[t].locals = locals
              /\ snaps'[t].calls = snaps[t].calls
          BY <4>2, <4>3, <5>1 DEF SameFrame, Snapshot
        <5> QED
          BY <4>1, <5>2 DEF Shaped, TypeOK
      <4>4. CASE ~SameFrame(snaps[t])
        BY <2>2, <4>1, <4>4 DEF Refresh, Shaped
      <4> QED
        BY <4>3, <4>4
    <3> QED
      BY <3>3, <3>4 DEF Shaped
  <2> QED
    BY <1>2, <2>1, <2>2, CallEffect
<1>3. ASSUME NEW n \in 0 .. MaxArgs, NEW pops \in Nat, Return(n, pops) PROVE Shaped'
  <2>1. snaps' = Release
    BY <1>3 DEF Return
  <2>2. calls' = calls \/ (calls # <<>> /\ calls' = SubSeq(calls, 1, Len(calls) - 1))
    BY <1>3 DEF Return, frameVars
  <2>3. \A i \in 1 .. Len(calls') : FitsProc(calls'[i])
    BY <2>2 DEF Shaped, TypeOK
  <2>4. ASSUME NEW t \in Token, snaps'[t] # NoSnapshot
        PROVE  snaps'[t] = snaps[t]
    BY <2>1, <2>4 DEF Release
  <2>5. ASSUME NEW u \in Token, snaps'[u] # NoSnapshot
        PROVE  /\ FitsProc(snaps'[u]) /\ Len(snaps'[u].calls) <= CallCap
               /\ \A i \in 1 .. Len(snaps'[u].calls) : FitsProc(snaps'[u].calls[i])
    <3>1. snaps'[u] = snaps[u] /\ snaps[u] # NoSnapshot
      BY <2>4, <2>5
    <3> QED
      BY <3>1, Zenon DEF Shaped
  <2> QED
    BY <2>3, <2>5, Zenon DEF Shaped
<1>4. ASSUME NEW a \in PC, NEW b \in PC, NEW target \in PC, SetJmp(a, b, target)
      PROVE  Shaped'
  <2>1. snaps' = [snaps EXCEPT ![FreshToken] = NewEntry(a, b)] /\ calls' = calls
    BY <1>4 DEF SetJmp, NewEntry, frameVars
  <2>2. FitsProc(NewEntry(a, b)) /\ NewEntry(a, b).calls = calls
    BY DEF NewEntry, TypeOK
  <2>3. ASSUME NEW u \in Token, snaps'[u] # NoSnapshot
        PROVE  /\ FitsProc(snaps'[u]) /\ Len(snaps'[u].calls) <= CallCap
               /\ \A i \in 1 .. Len(snaps'[u].calls) : FitsProc(snaps'[u].calls[i])
    <3>1. CASE u = FreshToken
      <4>1. snaps'[u] = NewEntry(a, b)
        BY <2>1, <3>1, TokenTypes DEF TypeOK
      <4> QED
        BY <2>2, <4>1 DEF Shaped, TypeOK
    <3>2. CASE u # FreshToken
      <4>1. snaps'[u] = snaps[u] /\ snaps[u] # NoSnapshot
        BY <2>1, <2>3, <3>2 DEF TypeOK
      <4> QED
        BY <4>1, Zenon DEF Shaped
    <3> QED
      BY <3>1, <3>2
  <2>4. \A i \in 1 .. Len(calls') : FitsProc(calls'[i])
    BY <2>1, Zenon DEF Shaped
  <2> QED
    BY <2>3, <2>4, Zenon DEF Shaped
<1>5. ASSUME NEW t \in Token, NEW n \in {0, 1}, LongJmp(t, n) PROVE Shaped'
  <2>1. /\ snaps[t] # NoSnapshot /\ calls' = snaps[t].calls
        /\ snaps' = [snaps EXCEPT ![t] = NoSnapshot]
    BY <1>5 DEF LongJmp
  <2>2. \A i \in 1 .. Len(calls') : FitsProc(calls'[i])
    BY <2>1 DEF Shaped
  <2>3. ASSUME NEW u \in Token, snaps'[u] # NoSnapshot
        PROVE  snaps'[u] = snaps[u]
    BY <2>1, <2>3 DEF TypeOK
  <2>4. ASSUME NEW u \in Token, snaps'[u] # NoSnapshot
        PROVE  /\ FitsProc(snaps'[u]) /\ Len(snaps'[u].calls) <= CallCap
               /\ \A i \in 1 .. Len(snaps'[u].calls) : FitsProc(snaps'[u].calls[i])
    <3>1. snaps'[u] = snaps[u] /\ snaps[u] # NoSnapshot
      BY <2>3, <2>4
    <3> QED
      BY <3>1, Zenon DEF Shaped
  <2> QED
    BY <2>2, <2>4, Zenon DEF Shaped
<1>6. CASE ReturnStep
  <2>1. PICK n \in 0 .. MaxArgs : Return(n, n) \/ Return(n, 0)
    BY <1>6 DEF ReturnStep
  <2>2. n \in Nat /\ 0 \in Nat
    BY CapAssumption
  <2> QED
    BY <1>3, <2>1, <2>2
<1> QED
  BY <1>1, <1>2, <1>4, <1>5, <1>6 DEF Straight, SetJmpStep

-----------------------------------------------------------------------------
(* The invariant of types.                                                  *)

TInv == TypeOK /\ Shaped

\* Every step keeps the types.
LEMMA TypeStep ==
  ASSUME TInv, [Next]_vars
  PROVE  TInv'
<1>1. CASE UNCHANGED vars
  BY <1>1 DEF TInv, vars, TypeOK, Shaped, FitsProc
<1>2. CASE Next
  <2>1. TypeOK /\ Shaped /\ halted = "no"
    BY <1>2 DEF TInv, Next
  <2>2. Shaped'
    BY <1>2, <2>1, ShapedStep DEF Next
  <2>3. CASE ReturnStep
    <3>1. PICK n \in 0 .. MaxArgs : Return(n, n) \/ Return(n, 0)
      BY <2>3 DEF ReturnStep
    <3>2. n \in Nat /\ 0 \in Nat
      BY CapAssumption
    <3> QED
      BY <2>1, <2>2, <3>1, <3>2, ReturnType DEF TInv
  <2>4. CASE SetJmpStep
    BY <2>1, <2>2, <2>4, SetJmpType DEF TInv, SetJmpStep
  <2>5. CASE StackStep \/ LocalStep \/ CallStep \/ StopStep
    BY <2>1, <2>2, <2>5, StackType, LocalType, CallType, StopType DEF TInv
  <2>6. CASE \E t \in Token, n \in {0, 1} : LongJmp(t, n)
    BY <2>1, <2>2, <2>6, LongJmpType DEF TInv
  <2> QED
    BY <1>2, <2>3, <2>4, <2>5, <2>6 DEF Next, Straight
<1> QED
  BY <1>1, <1>2

\* The types and shapes hold at the start.
LEMMA InitTInv == Init => TInv
BY InitType, ShapedInit DEF TInv

\* Every word of the machine's control state stays within its type and its
\* capacity, whatever the program does (lpst_exec.h, lpst_run_runtime.c).
THEOREM TypeCorrect == Spec => []TypeOK
<1>1. TInv => TypeOK
  BY DEF TInv
<1> QED
  BY InitTInv, TypeStep, <1>1, PTL DEF Spec

-----------------------------------------------------------------------------
(* Facts about prefixes of the call stack.                                  *)

\* The first n elements of a sequence, and how many they are.
LEMMA PrefixProperties ==
  ASSUME NEW S, NEW s \in Seq(S), NEW n \in 0 .. Len(s)
  PROVE  /\ SubSeq(s, 1, n) \in Seq(S) /\ Len(SubSeq(s, 1, n)) = n
         /\ \A i \in 1 .. n : SubSeq(s, 1, n)[i] = s[i]
BY SubSeqProperties

\* Sequences that agree on their first n elements have the same prefix.
LEMMA PrefixAgree ==
  ASSUME NEW S, NEW s \in Seq(S), NEW t \in Seq(S), NEW n \in Nat,
         n <= Len(s), n <= Len(t), \A i \in 1 .. n : s[i] = t[i]
  PROVE  SubSeq(s, 1, n) = SubSeq(t, 1, n)
<1>1. /\ SubSeq(s, 1, n) \in Seq(S) /\ Len(SubSeq(s, 1, n)) = n
      /\ \A i \in 1 .. n : SubSeq(s, 1, n)[i] = s[i]
  BY PrefixProperties
<1>2. /\ SubSeq(t, 1, n) \in Seq(S) /\ Len(SubSeq(t, 1, n)) = n
      /\ \A i \in 1 .. n : SubSeq(t, 1, n)[i] = t[i]
  BY PrefixProperties
<1> DEFINE u == SubSeq(s, 1, n)  v == SubSeq(t, 1, n)
<1>3. u \in Seq(S) /\ v \in Seq(S) /\ Len(u) = Len(v) /\ \A i \in 1 .. Len(u) : u[i] = v[i]
  BY <1>1, <1>2
<1> HIDE DEF u, v
<1>4. u = v
  BY <1>3, SeqEqual
<1> QED
  BY <1>4 DEF u, v

-----------------------------------------------------------------------------
(* A valid token keeps its snapshot.                                        *)

\* The counter does not come round again within the run.
NoWrap == MaxJumpToken + 1 < TokenMod

\* Tokens already given out lie below the counter, so a new one is new.
TokensBelow == \A a \in live : a.token < next_jump_token

LInv == TInv /\ LiveRecordsIntact /\ TokensBelow

\* Without wrapping, both the new token and the counter after it are larger
\* than the counter was.
LEMMA FreshAbove ==
  ASSUME TypeOK, NoWrap, next_jump_token < MaxJumpToken
  PROVE  FreshToken >= next_jump_token /\ Succ(FreshToken) > FreshToken
<1>1. next_jump_token \in Nat /\ TokenMod \in Nat /\ MaxJumpToken \in Nat
  BY TokenAssumption DEF TypeOK, Token
<1>2. ASSUME NEW t \in Nat, t + 1 < TokenMod PROVE Succ(t) = t + 1
  BY <1>1, <1>2 DEF Succ
<1>3. Succ(next_jump_token) = next_jump_token + 1
  BY <1>1, <1>2 DEF NoWrap
<1>4. FreshToken \in {next_jump_token, next_jump_token + 1}
  BY <1>3 DEF FreshToken
<1>5. Succ(FreshToken) = FreshToken + 1
  BY <1>1, <1>2, <1>4 DEF NoWrap
<1> QED
  BY <1>1, <1>4, <1>5

\* The snapshot of a valid record, and its callers.
LEMMA FaithfulFacts ==
  ASSUME TypeOK, NEW a \in live, Faithful(a)
  PROVE  /\ a \in Record /\ a.level \in 0 .. Len(calls)
         /\ snaps[a.token] \in Snapshot /\ snaps[a.token] # NoSnapshot
         /\ Len(snaps[a.token].calls) = a.level
<1>1. a \in Record /\ a.level \in 0 .. Len(calls)
  BY DEF TypeOK, Record, Faithful
<1>2. snaps[a.token] \in Snapshot /\ snaps[a.token] # NoSnapshot
  BY <1>1 DEF TypeOK, Record, Faithful
<1>3. Len(snaps[a.token].calls) = a.level
  BY <1>1, PrefixProperties DEF Faithful, TypeOK
<1> QED
  BY <1>1, <1>2, <1>3

\* A call refreshes the entries of its frame and leaves the others alone.
LEMMA FaithfulCall ==
  ASSUME TypeOK, snaps' = Refresh, NEW r \in PC, NEW d \in Depth,
         calls' = Append(calls, [proc |-> proc, pc |-> r, locals |-> locals, depth |-> d]),
         NEW a \in live, Faithful(a)
  PROVE  Faithful(a)'
<1> DEFINE c == [proc |-> proc, pc |-> r, locals |-> locals, depth |-> d]
           s == snaps[a.token]
<1>1. c \in Continuation /\ c.proc = proc /\ c.locals = locals
  BY DEF TypeOK, Continuation
<1>2. calls \in Seq(Continuation) /\ Len(calls) \in Nat
  BY DEF TypeOK
<1> HIDE DEF c
<1>3. /\ calls' \in Seq(Continuation) /\ Len(calls') = Len(calls) + 1
      /\ \A i \in 1 .. Len(calls) : calls'[i] = calls[i]
      /\ calls'[Len(calls) + 1] = c
  BY <1>1, <1>2, AppendProperties DEF c
<1>4. /\ a.level \in 0 .. Len(calls) /\ a.token \in Token
      /\ s \in Snapshot /\ s # NoSnapshot /\ Len(s.calls) = a.level
  BY FaithfulFacts DEF Record
<1>5. SubSeq(calls', 1, a.level) = SubSeq(calls, 1, a.level)
  BY <1>2, <1>3, <1>4, PrefixAgree
<1>6. ProcAt(a.level)' = ProcAt(a.level)
  BY <1>1, <1>2, <1>3, <1>4 DEF ProcAt
<1>7. CASE a.level = Len(calls)
  <2>1. SameFrame(s)
    BY <1>4, <1>7 DEF SameFrame, Faithful, ProcAt
  <2>2. snaps'[a.token] = [s EXCEPT !.locals = locals]
    BY <1>4, <2>1 DEF Refresh
  <2>3. /\ snaps'[a.token] \in Snapshot /\ snaps'[a.token].locals = locals
        /\ snaps'[a.token].proc = s.proc /\ snaps'[a.token].calls = s.calls
        /\ snaps'[a.token].stk = s.stk /\ snaps'[a.token].tuple = s.tuple
        /\ snaps'[a.token].longjmp = s.longjmp /\ snaps'[a.token].longjmpr = s.longjmpr
    BY <1>4, <2>2 DEF Snapshot, TypeOK
  <2>4. LocalsAt(a.level)' = locals
    BY <1>1, <1>2, <1>3, <1>7 DEF LocalsAt
  <2>5. a.level <= Len(calls')
    BY <1>2, <1>3, <1>7
  <2>6. snaps'[a.token] # NoSnapshot
    BY <2>3, NoSnapshotAssumption
  <2> QED
    BY <1>5, <1>6, <2>3, <2>4, <2>5, <2>6 DEF Faithful
<1>8. CASE a.level # Len(calls)
  <2>1. snaps'[a.token] = s
    BY <1>4, <1>8 DEF Refresh, SameFrame
  <2>2. LocalsAt(a.level)' = LocalsAt(a.level) /\ a.level < Len(calls) /\ a.level <= Len(calls')
    BY <1>2, <1>3, <1>4, <1>8 DEF LocalsAt
  <2> QED
    BY <1>5, <1>6, <2>1, <2>2 DEF Faithful
<1> QED
  BY <1>7, <1>8

\* A return releases entries of its own depth only.
LEMMA FaithfulReturn ==
  ASSUME TypeOK, NEW n, NEW pops, Return(n, pops), NEW a \in live,
         Faithful(a), a.level < Len(calls)
  PROVE  Faithful(a)'
<1> DEFINE L == Len(calls)
           s == snaps[a.token]
<1>1. calls \in Seq(Continuation) /\ L \in Nat
  BY DEF TypeOK
<1>2. /\ a.level \in 0 .. L /\ a.token \in Token
      /\ s \in Snapshot /\ s # NoSnapshot /\ Len(s.calls) = a.level
  BY FaithfulFacts DEF Record
<1>3. calls # <<>> /\ L >= 1 /\ a.level <= L - 1
  BY <1>1, <1>2
<1>4. calls' = SubSeq(calls, 1, L - 1) /\ proc' = calls[L].proc /\ snaps' = Release
  BY <1>3 DEF Return
<1>5. /\ calls' \in Seq(Continuation) /\ Len(calls') = L - 1
      /\ \A i \in 1 .. L - 1 : calls'[i] = calls[i]
  <2>1. L - 1 \in 0 .. Len(calls)
    BY <1>1, <1>3
  <2> HIDE DEF L
  <2> QED
    BY <1>1, <1>4, <2>1, PrefixProperties
<1>6. SubSeq(calls', 1, a.level) = SubSeq(calls, 1, a.level)
  BY <1>1, <1>2, <1>3, <1>5, PrefixAgree
<1>7. snaps'[a.token] = s
  BY <1>2, <1>4 DEF Release, SameFrame
<1>8. ProcAt(a.level)' = ProcAt(a.level)
  BY <1>1, <1>2, <1>3, <1>4, <1>5 DEF ProcAt
<1>9. a.level < Len(calls') => LocalsAt(a.level)' = LocalsAt(a.level)
  BY <1>1, <1>2, <1>3, <1>5 DEF LocalsAt
<1>10. a.level <= Len(calls')
  BY <1>3, <1>5
<1> QED
  BY <1>6, <1>7, <1>8, <1>9, <1>10 DEF Faithful

\* SETJMP writes an entry no valid record uses.
LEMMA FaithfulSetJmp ==
  ASSUME LInv, NoWrap, NEW x \in PC, NEW y \in PC, NEW target \in PC, SetJmp(x, y, target)
  PROVE  LiveRecordsIntact' /\ TokensBelow'
<1> DEFINE new == [token |-> FreshToken, level |-> Len(calls), stk |-> stk,
                   tuple |-> tuple, longjmp |-> x, longjmpr |-> y]
<1>1. TypeOK /\ LiveRecordsIntact /\ TokensBelow
  BY DEF LInv, TInv
<1>2. /\ snaps' = [snaps EXCEPT ![FreshToken] = NewEntry(x, y)]
      /\ live' = live \cup {new}
      /\ next_jump_token < MaxJumpToken /\ next_jump_token' = Succ(FreshToken)
      /\ UNCHANGED <<proc, locals, calls>>
  BY DEF SetJmp, NewEntry, frameVars
<1>3. /\ FreshToken \in Token /\ FreshToken \in Nat /\ Succ(FreshToken) \in Nat
      /\ FreshToken >= next_jump_token /\ Succ(FreshToken) > FreshToken
  BY <1>1, <1>2, FreshAbove, TokenTypes DEF Token
<1>4. ASSUME NEW a \in live PROVE Faithful(a)' /\ a.token < next_jump_token'
  <2>1. Faithful(a) /\ a.token < next_jump_token /\ a.token \in Token
    BY <1>1 DEF LiveRecordsIntact, TokensBelow, TypeOK, Record
  <2>2. a.token # FreshToken /\ a.token < next_jump_token'
    BY <1>1, <1>2, <1>3, <2>1 DEF TypeOK, Token
  <2>3. snaps'[a.token] = snaps[a.token]
    BY <1>1, <1>2, <2>1, <2>2 DEF TypeOK
  <2> QED
    BY <1>2, <2>1, <2>2, <2>3 DEF Faithful, ProcAt, LocalsAt
<1>5. ASSUME NEW a, a = new
      PROVE  Faithful(a)' /\ a.token < next_jump_token'
  <2>1. snaps'[FreshToken] = NewEntry(x, y)
    BY <1>1, <1>2, <1>3 DEF TypeOK
  <2>2. NewEntry(x, y) # NoSnapshot
    BY <1>1, NewEntryType, NoSnapshotAssumption
  <2>3. calls \in Seq(Continuation) /\ Len(calls) \in Nat
    BY <1>1 DEF TypeOK
  <2>4. calls = SubSeq(calls, 1, Len(calls))
    BY <2>3, SubSeqFull
  <2>5. ~(Len(calls) < Len(calls)) /\ Len(calls) <= Len(calls)
    BY <2>3
  <2>6. /\ a.token = FreshToken /\ a.level = Len(calls) /\ a.stk = stk
        /\ a.tuple = tuple /\ a.longjmp = x /\ a.longjmpr = y
    BY <1>5
  <2>7. a.token < next_jump_token'
    BY <1>2, <1>3, <2>6
  <2>8. Faithful(a)'
    BY <1>2, <2>1, <2>2, <2>4, <2>5, <2>6 DEF Faithful, ProcAt, NewEntry
  <2> QED
    BY <2>7, <2>8
<1> HIDE DEF new
<1>6. \A a \in live' : Faithful(a)' /\ a.token < next_jump_token'
  BY <1>2, <1>4, <1>5
<1> QED
  BY <1>6 DEF LiveRecordsIntact, TokensBelow

\* A jump puts back the callers the jump's own record vouches for.
LEMMA FaithfulLongJmp ==
  ASSUME LInv, NEW t \in Token, NEW n \in {0, 1}, LongJmp(t, n)
  PROVE  LiveRecordsIntact' /\ TokensBelow'
<1>1. TypeOK /\ LiveRecordsIntact /\ TokensBelow
  BY DEF LInv, TInv
<1>2. live' \subseteq live /\ next_jump_token' = next_jump_token
  BY DEF LongJmp
<1>3. TokensBelow'
  BY <1>1, <1>2 DEF TokensBelow
<1>4. CASE ~ \E a \in live : a.token = t
  BY <1>3, <1>4 DEF LongJmp, LiveRecordsIntact
<1>5. ASSUME NEW a \in live, a.token = t, NEW b \in live'
      PROVE  Faithful(b)'
  <2> DEFINE s == snaps[t]  u == snaps[b.token]
  <2>1. /\ proc' = s.proc /\ calls' = s.calls /\ snaps' = [snaps EXCEPT ![t] = NoSnapshot]
        /\ b \in live /\ b.level <= Len(s.calls) /\ b.token # t
    BY <1>5 DEF LongJmp
  <2>2. Faithful(a) /\ Faithful(b)
    BY <1>1, <2>1 DEF LiveRecordsIntact
  <2>3. /\ a.level \in 0 .. Len(calls) /\ Len(s.calls) = a.level
        /\ s \in Snapshot /\ s.calls \in Seq(Continuation)
    BY <1>1, <1>5, <2>2, FaithfulFacts DEF Snapshot
  <2>4. b.level \in 0 .. a.level /\ b.token \in Token /\ u # NoSnapshot
    BY <1>1, <2>1, <2>2, <2>3, FaithfulFacts DEF Record
  <2>5. snaps'[b.token] = u
    BY <1>1, <2>1, <2>4 DEF TypeOK
  <2>6. calls \in Seq(Continuation) /\ Len(calls) \in Nat /\ s.calls = SubSeq(calls, 1, a.level)
    BY <1>1, <1>5, <2>2 DEF TypeOK, Faithful
  <2>7. \A i \in 1 .. a.level : s.calls[i] = calls[i]
    BY <2>3, <2>6, PrefixProperties
  <2>8. SubSeq(calls', 1, b.level) = SubSeq(calls, 1, b.level)
    BY <2>1, <2>3, <2>4, <2>6, <2>7, PrefixAgree
  <2>9. ProcAt(b.level)' = ProcAt(b.level)
    BY <1>5, <2>1, <2>2, <2>3, <2>4, <2>6, <2>7 DEF ProcAt, Faithful
  <2>10. b.level < Len(calls') => b.level < Len(calls) /\ LocalsAt(b.level)' = LocalsAt(b.level)
    BY <2>1, <2>3, <2>4, <2>6, <2>7 DEF LocalsAt
  <2>11. b.level <= Len(calls')
    BY <2>1
  <2> QED
    BY <2>2, <2>4, <2>5, <2>8, <2>9, <2>10, <2>11 DEF Faithful
<1> QED
  BY <1>3, <1>4, <1>5 DEF LiveRecordsIntact

\* Every step keeps valid records faithful.
LEMMA LiveStep ==
  ASSUME LInv, NoWrap, [Next]_vars
  PROVE  LInv'
<1>1. TInv' /\ TypeOK /\ LiveRecordsIntact /\ TokensBelow
  BY TypeStep DEF LInv, TInv
<1>2. CASE UNCHANGED vars
  BY <1>1, <1>2 DEF LInv, vars, LiveRecordsIntact, Faithful, ProcAt, LocalsAt, TokensBelow
<1>3. CASE StackStep \/ LocalStep \/ StopStep
  <2>1. /\ proc' = proc /\ calls' = calls /\ snaps' = snaps /\ live' = live
        /\ \/ next_jump_token' = next_jump_token
           \/ next_jump_token < MaxJumpToken /\ next_jump_token' = Succ(FreshToken)
    BY <1>1, <1>3, QuietSteps
  <2>2. LiveRecordsIntact'
    BY <1>1, <2>1 DEF LiveRecordsIntact, Faithful, ProcAt, LocalsAt
  <2>3. next_jump_token' >= next_jump_token
    BY <1>1, <2>1, FreshAbove, TokenTypes DEF TypeOK, Token
  <2>4. TokensBelow'
    BY <1>1, <2>1, <2>3 DEF TokensBelow, TypeOK, Record, Token, TInv
  <2> QED
    BY <1>1, <2>2, <2>4 DEF LInv
<1>4. CASE CallStep
  <2>1. TokensBelow' /\ live' = live
    BY <1>1, <1>4, CallEffect DEF TokensBelow
  <2>2. CASE proc' = proc /\ calls' = calls /\ snaps' = snaps /\ locals' = locals
    BY <1>1, <2>1, <2>2 DEF LInv, LiveRecordsIntact, Faithful, ProcAt, LocalsAt
  <2>3. ASSUME snaps' = Refresh, NEW r \in PC, NEW d \in Depth,
               calls' = Append(calls, [proc |-> proc, pc |-> r, locals |-> locals, depth |-> d])
        PROVE  LInv'
    <3>1. \A a \in live : Faithful(a)'
      BY <1>1, <2>3, FaithfulCall DEF LiveRecordsIntact
    <3> QED
      BY <1>1, <2>1, <3>1 DEF LInv, LiveRecordsIntact
  <2> QED
    BY <1>1, <1>4, <2>2, <2>3, CallEffect
<1>5. CASE ReturnStep
  <2>1. PICK n, pops : Return(n, pops)
    BY <1>5 DEF ReturnStep
  <2>2. live' = {a \in live : a.level < Len(calls)} /\ next_jump_token' = next_jump_token
    BY <2>1 DEF Return
  <2>3. \A a \in live' : Faithful(a)'
    BY <1>1, <2>1, <2>2, FaithfulReturn DEF LiveRecordsIntact
  <2> QED
    BY <1>1, <2>2, <2>3 DEF LInv, LiveRecordsIntact, TokensBelow
<1>6. CASE SetJmpStep
  BY <1>1, <1>6, FaithfulSetJmp DEF LInv, SetJmpStep
<1>7. CASE \E t \in Token, n \in {0, 1} : LongJmp(t, n)
  BY <1>1, <1>7, FaithfulLongJmp DEF LInv
<1> QED
  BY <1>2, <1>3, <1>4, <1>5, <1>6, <1>7 DEF Next, Straight

\* A token keeps a faithful snapshot until its procedure returns, for every
\* image and every interleaving of calls, returns, SETJMPs and LONGJMPs, as
\* long as the 16-bit counter has not come round (lpst_run_runtime.c,
\* save_jump_snapshot to do_return).
THEOREM TokensStayGood == ASSUME NoWrap PROVE Spec => []LiveRecordsIntact
<1>1. Init => LInv
  BY InitTInv DEF Init, LInv, LiveRecordsIntact, TokensBelow
<1>2. LInv /\ [Next]_vars => LInv'
  BY LiveStep
<1>3. LInv => LiveRecordsIntact
  BY DEF LInv
<1> QED
  BY <1>1, <1>2, <1>3, PTL DEF Spec

-----------------------------------------------------------------------------
(* The machine implements Activations for programs that keep to the rules.  *)

Frame == [proc : Proc, locals : Seq(Word), pc : PC, stk : Depth]

\* The frame a continuation on the call stack stands for.
Suspended(i) == [proc |-> calls[i].proc, locals |-> calls[i].locals,
                 pc |-> calls[i].pc, stk |-> calls[i].depth]
Running == [proc |-> proc, locals |-> locals, pc |-> pc, stk |-> stk]

FramesShape ==
  /\ Frames \in Seq(Frame) /\ Len(Frames) = Len(calls) + 1
  /\ \A i \in 1 .. Len(calls) : Frames[i] = Suspended(i)
  /\ Frames[Len(calls) + 1] = Running
  /\ calls \in Seq(Continuation) /\ Len(calls) \in Nat

\* A frame whose stack depth and address change.
LEMMA FrameExcept ==
  ASSUME NEW f \in Frame, NEW d, NEW p
  PROVE  [f EXCEPT !.stk = d, !.pc = p] = [proc |-> f.proc, locals |-> f.locals, pc |-> p, stk |-> d]
<1> DEFINE g == [f EXCEPT !.stk = d]
<1>1. f = [proc |-> f.proc, locals |-> f.locals, pc |-> f.pc, stk |-> f.stk]
  BY DEF Frame
<1>2. g = [proc |-> f.proc, locals |-> f.locals, pc |-> f.pc, stk |-> d]
  BY <1>1
<1>3. [f EXCEPT !.stk = d, !.pc = p] = [g EXCEPT !.pc = p]
  OBVIOUS
<1> HIDE DEF g
<1>4. [g EXCEPT !.pc = p] = [proc |-> f.proc, locals |-> f.locals, pc |-> p, stk |-> d]
  BY <1>2
<1> QED
  BY <1>3, <1>4

\* The mapped state is a stack of activations.
LEMMA FramesType == TypeOK => FramesShape
<1> SUFFICES ASSUME TypeOK PROVE FramesShape
  OBVIOUS
<1>1. calls \in Seq(Continuation) /\ Len(calls) \in Nat
  BY DEF TypeOK
<1>2. Running \in Frame
  BY DEF TypeOK, Running, Frame
<1>3. ASSUME NEW i \in 1 .. Len(calls) PROVE Suspended(i) \in Frame
  <2>1. calls[i] \in Continuation
    BY <1>1
  <2> QED
    BY <2>1 DEF Suspended, Frame, Continuation
<1>4. Frames = [i \in 1 .. Len(calls) + 1 |-> IF i <= Len(calls) THEN Suspended(i) ELSE Running]
  BY DEF Frames, Suspended, Running
<1>5. Frames \in [1 .. Len(calls) + 1 -> Frame]
  <2>1. \A i \in 1 .. Len(calls) + 1 : i <= Len(calls) => i \in 1 .. Len(calls)
    BY <1>1
  <2> QED
    BY <1>2, <1>3, <1>4, <2>1
<1>6. Frames \in Seq(Frame) /\ Len(Frames) = Len(calls) + 1
  BY <1>1, <1>5
<1>7. \A i \in 1 .. Len(calls) : Frames[i] = Suspended(i)
  BY <1>1, <1>4
<1>8. Frames[Len(calls) + 1] = Running
  BY <1>1, <1>4
<1> QED
  BY <1>1, <1>6, <1>7, <1>8 DEF FramesShape

\* A machine that starts has the entry procedure's activation alone.
LEMMA InitRefines == Init => Promise!Init
<1> SUFFICES ASSUME Init PROVE Promise!Init
  OBVIOUS
<1>1. FramesShape
  BY InitType, FramesType
<1>2. calls = <<>> /\ Len(calls) = 0 /\ tuple = 0 /\ live = {} /\ Status = "running"
  BY DEF Init, Status
<1>3. Running = [proc |-> Main, locals |-> LocalInit[Main], pc |-> Entry[Main], stk |-> 0]
  BY DEF Init, Running
<1>4. Frames \in Seq(Frame) /\ Len(Frames) = 1 /\ Frames[1] = Running
  BY <1>1, <1>2 DEF FramesShape
<1>5. Frames = <<Running>>
  BY <1>4
<1> QED
  BY <1>2, <1>3, <1>5 DEF Promise!Init

\* A step after which the machine has stopped is allowed whatever it does.
LEMMA StopRefines ==
  ASSUME halted = "no", halted' # "no"
  PROVE  Promise!Next
BY DEF Promise!Next, Status

\* Instructions within the running activation.
LEMMA WorkRefines ==
  ASSUME TypeOK, TypeOK', StackStep \/ LocalStep \/ StopStep
  PROVE  Promise!Work
<1>1. FramesShape /\ FramesShape'
  BY FramesType, PTL
<1>2. UNCHANGED <<proc, calls, live>>
  BY QuietSteps
<1>3. ASSUME NEW i \in 1 .. Len(calls) PROVE Suspended(i)' = Suspended(i)
  BY <1>2 DEF Suspended
<1>4. /\ Frames \in Seq(Frame) /\ Frames' \in Seq(Frame)
      /\ Len(Frames) = Len(calls) + 1 /\ Len(Frames') = Len(calls) + 1
      /\ Len(calls) \in Nat
      /\ \A i \in 1 .. Len(calls) : Frames'[i] = Frames[i]
      /\ Frames[Len(calls) + 1].proc = proc /\ Frames'[Len(calls) + 1].proc = proc
  BY <1>1, <1>2, <1>3 DEF FramesShape, Running
<1>5. SubSeq(Frames', 1, Len(Frames) - 1) = SubSeq(Frames, 1, Len(Frames) - 1)
  <2>1. Len(Frames) - 1 = Len(calls) /\ Len(calls) <= Len(Frames) /\ Len(calls) <= Len(Frames')
    BY <1>4
  <2>2. SubSeq(Frames', 1, Len(calls)) = SubSeq(Frames, 1, Len(calls))
    BY <1>4, <2>1, PrefixAgree
  <2> QED
    BY <2>1, <2>2
<1> QED
  BY <1>2, <1>4, <1>5 DEF Promise!Work, Promise!Below, Promise!Top


\* A call suspends the running activation and starts another.
LEMMA CallRefines ==
  ASSUME TypeOK, TypeOK', halted = "no", halted' = "no",
         NEW q \in Proc, NEW args \in Args, NEW indirect \in {0, 1}, NEW return_pc \in PC,
         NearCall(q, args, indirect, return_pc) \/ FarCall(q, args, indirect, return_pc)
  PROVE  Promise!Call(q, args)
<1>0. PICK L \in Nat : L = Len(calls)
  BY DEF TypeOK
<1> DEFINE c == [proc |-> proc, pc |-> return_pc, locals |-> locals, depth |-> stk']
<1>1. FramesShape /\ FramesShape'
  BY FramesType, PTL
<1>2. calls \in Seq(Continuation) /\ L \in Nat /\ CallCap \in Nat
  BY <1>0, CapAssumption DEF TypeOK
<1>3. ~(L >= CallCap)
  <2>1. HaltIf(Underflows(stk, Len(args) + indirect) \/ Len(calls) >= CallCap)
    BY DEF NearCall, FarCall
  <2> QED
    BY <1>0, <2>1 DEF HaltIf
<1>4. /\ calls' = Append(calls, c) /\ proc' = q /\ pc' = Entry[q]
      /\ locals' = NewLocals(q, args)
      /\ UNCHANGED <<live, tuple>>
  BY <1>0, <1>3 DEF NearCall, FarCall, EnterProcedure
<1>5. L < CallCap /\ L + 1 # L
  BY <1>2, <1>3
<1>6. c \in Continuation /\ c.proc = proc /\ c.depth = stk' /\ c.locals = locals /\ c.pc = return_pc
  BY DEF TypeOK, Continuation
<1> HIDE DEF c
<1>7. /\ Len(calls') = L + 1 /\ \A i \in 1 .. L : calls'[i] = calls[i]
      /\ calls'[L + 1] = c
  BY <1>0, <1>2, <1>4, <1>6, AppendProperties
<1>9. ASSUME NEW i \in 1 .. L PROVE Suspended(i)' = Suspended(i)
  BY <1>7 DEF Suspended
<1>10. Suspended(L + 1)' = [proc |-> proc, locals |-> locals, pc |-> return_pc, stk |-> stk']
  BY <1>6, <1>7 DEF Suspended
<1>11. /\ Frames \in Seq(Frame) /\ Frames' \in Seq(Frame)
       /\ Len(Frames) = L + 1 /\ Len(Frames') = L + 2
       /\ \A i \in 1 .. L : Frames'[i] = Frames[i]
       /\ Frames[L + 1] = Running
       /\ Frames'[L + 1] = [proc |-> proc, locals |-> locals, pc |-> return_pc, stk |-> stk']
       /\ Frames'[L + 2] = Running'
  <2>1. L + 1 \in 1 .. Len(calls') /\ Len(calls') + 1 = L + 2
    BY <1>2, <1>7
  <2>2. \A i \in 1 .. L : i \in 1 .. Len(calls')
    BY <1>2, <1>7
  <2> QED
    BY <1>0, <1>1, <1>9, <1>10, <2>1, <2>2 DEF FramesShape
<1>12. SubSeq(Frames', 1, Len(Frames) - 1) = SubSeq(Frames, 1, Len(Frames) - 1)
  <2>1. Len(Frames) - 1 = L /\ L <= Len(Frames) /\ L <= Len(Frames')
    BY <1>2, <1>11
  <2>2. SubSeq(Frames', 1, L) = SubSeq(Frames, 1, L)
    BY <1>2, <1>11, <2>1, PrefixAgree
  <2> QED
    BY <2>1, <2>2
<1>13. Running' = [proc |-> q, locals |-> NewLocals(q, args), pc |-> Entry[q], stk |-> stk']
  BY <1>4 DEF Running
<1>14. Promise!Locals(q, args) = NewLocals(q, args)
  BY DEF Promise!Locals, NewLocals
<1>15. Len(Frames') = Len(Frames) + 1 /\ Len(Frames) = L + 1 /\ Len(Frames) + 1 = L + 2
  BY <1>2, <1>11
<1> DEFINE caller == Frames'[L + 1]
<1>16. /\ caller.proc = proc /\ caller.locals = locals /\ caller.stk = stk'
       /\ Frames[L + 1].proc = proc /\ Frames[L + 1].locals = locals
  BY <1>11 DEF Running
<1> QED
  BY <1>4, <1>11, <1>12, <1>13, <1>14, <1>15, <1>16
     DEF Promise!Call, Promise!Below, Promise!Top

\* A return to a caller that runs on resumes it with the results on its stack.
LEMMA ReturnRefines ==
  ASSUME TypeOK, TypeOK', halted = "no", halted' = "no",
         NEW n \in 0 .. MaxArgs, NEW pops \in Nat, Return(n, pops)
  PROVE  Promise!Return(n)
<1>0. PICK L \in Nat : L = Len(calls)
  BY DEF TypeOK
<1>1. FramesShape /\ FramesShape'
  BY FramesType, PTL
<1>2. calls \in Seq(Continuation) /\ calls # <<>> /\ L >= 1
  BY <1>0 DEF TypeOK, Return
<1>3. PICK cont \in Continuation : cont = calls[L]
  BY <1>0, <1>2
<1>4. /\ live' = {a \in live : a.level < L} /\ tuple' = tuple
      /\ calls' = SubSeq(calls, 1, L - 1) /\ proc' = cont.proc /\ pc' = cont.pc
      /\ locals' = cont.locals /\ stk' = PushN(cont.depth, n)
      /\ HaltIf(Underflows(stk, pops) \/ Overflows(cont.depth, n))
  BY <1>0, <1>2, <1>3 DEF Return
<1>6. stk' = cont.depth + n
  BY <1>4 DEF PushN, HaltIf, Overflows
<1>7. /\ calls' \in Seq(Continuation) /\ Len(calls') = L - 1
      /\ \A i \in 1 .. L - 1 : calls'[i] = calls[i]
  <2>1. L - 1 \in 0 .. Len(calls)
    BY <1>0, <1>2
  <2> QED
    BY <1>2, <1>4, <2>1, PrefixProperties
<1>8. ASSUME NEW i \in 1 .. L - 1 PROVE Suspended(i)' = Suspended(i)
  BY <1>7 DEF Suspended
<1>9. Suspended(L) = [proc |-> cont.proc, locals |-> locals', pc |-> cont.pc, stk |-> cont.depth]
  BY <1>3, <1>4 DEF Suspended
<1>10. Running' = [proc |-> cont.proc, locals |-> locals', pc |-> cont.pc, stk |-> cont.depth + n]
  BY <1>4, <1>6 DEF Running
<1>11. /\ Frames \in Seq(Frame) /\ Frames' \in Seq(Frame)
       /\ Len(Frames) = L + 1 /\ Len(Frames') = L
       /\ \A i \in 1 .. L - 1 : Frames'[i] = Frames[i]
       /\ Frames[L] = Suspended(L) /\ Frames'[L] = Running'
  <2>1. Len(calls') + 1 = L /\ L \in 1 .. L
    BY <1>2, <1>7
  <2>2. \A i \in 1 .. L - 1 : i \in 1 .. L
    OBVIOUS
  <2> QED
    BY <1>0, <1>1, <1>7, <1>8, <2>1, <2>2 DEF FramesShape
<1> DEFINE B == SubSeq(Frames, 1, L)
           new == [B EXCEPT ![L].stk = @ + n]
<1>12. B \in Seq(Frame) /\ Len(B) = L /\ \A i \in 1 .. L : B[i] = Frames[i]
  <2>1. L \in 0 .. Len(Frames)
    BY <1>11
  <2> QED
    BY <1>11, <2>1, PrefixProperties
<1>13. B[L] = [proc |-> cont.proc, locals |-> locals', pc |-> cont.pc, stk |-> cont.depth]
  BY <1>2, <1>9, <1>11, <1>12
<1> HIDE DEF B
<1>14. new[L] = Frames'[L]
  <2>1. new[L] = [B[L] EXCEPT !.stk = @ + n]
    BY <1>2, <1>12
  <2> QED
    BY <1>10, <1>11, <1>13, <2>1
<1>15. \A i \in 1 .. L : new[i] = Frames'[i]
  <2>1. ASSUME NEW i \in 1 .. L PROVE new[i] = Frames'[i]
    <3>1. CASE i = L
      BY <1>14, <3>1
    <3>2. CASE i # L
      <4>1. i \in 1 .. L - 1
        BY <3>2
      <4>2. new[i] = B[i]
        BY <1>12, <3>2
      <4> QED
        BY <1>11, <1>12, <4>1, <4>2
    <3> QED
      BY <3>1, <3>2
  <2> QED
    BY <2>1
<1>16. new \in Seq(Frame) /\ Len(new) = L
  <2>1. B \in [1 .. L -> Frame]
    BY <1>12
  <2>2. DOMAIN new = 1 .. L
    BY <2>1
  <2>3. new \in [1 .. L -> Frame]
    <3>1. \A i \in 1 .. L : Frames'[i] \in Frame
      BY <1>11
    <3>2. new = [i \in 1 .. L |-> new[i]]
      BY <2>2
    <3> HIDE DEF new
    <3> QED
      BY <1>15, <3>1, <3>2
  <2> HIDE DEF new
  <2> QED
    BY <2>3
<1> HIDE DEF new
<1>17. Frames' = new
  BY <1>11, <1>15, <1>16, SeqEqual
<1>18. Promise!Below = B /\ Len(Promise!Below) = L
  <2>1. Len(Frames) - 1 = L
    BY <1>11
  <2> QED
    BY <1>12, <2>1 DEF Promise!Below, B
<1>19. Frames' = [Promise!Below EXCEPT ![Len(Promise!Below)].stk = @ + n]
  BY <1>17, <1>18 DEF new
<1>20. Len(Frames) > 1 /\ Len(Frames) - 1 = L
  BY <1>2, <1>11
<1> QED
  BY <1>4, <1>19, <1>20 DEF Promise!Return

\* SETJMP makes a record no valid record can be taken for.
LEMMA SetJmpRefines ==
  ASSUME LInv, NoWrap, TypeOK', halted = "no", halted' = "no",
         NEW x \in PC, NEW y \in PC, NEW target \in PC, SetJmp(x, y, target)
  PROVE  \E a \in live' : Promise!SetJmp(a)
<1> DEFINE new == [token |-> FreshToken, level |-> Len(calls), stk |-> stk,
                   tuple |-> tuple, longjmp |-> x, longjmpr |-> y]
<1>0. PICK L \in Nat : L = Len(calls)
  BY DEF LInv, TInv, TypeOK
<1>1. TypeOK /\ FramesShape /\ FramesShape'
  <2>1. TypeOK
    BY DEF LInv, TInv
  <2> QED
    BY <2>1, FramesType, PTL
<1>2. /\ live' = live \cup {new} /\ pc' = target /\ stk' = PushN(stk, 1)
      /\ UNCHANGED <<proc, locals, calls, tuple>>
  BY DEF SetJmp, frameVars
<1>3. ~(stk + 1 > EvalCap)
  BY DEF SetJmp, HaltIf, Overflows
<1>4. stk' = stk + 1
  BY <1>2, <1>3 DEF PushN
<1>6. FreshToken \notin {b.token : b \in live}
  <2>1. FreshToken >= next_jump_token /\ FreshToken \in Nat /\ next_jump_token \in Nat
    BY <1>1, FreshAbove, TokenTypes DEF SetJmp, Token, TypeOK
  <2>2. \A b \in live : b.token < next_jump_token /\ b.token \in Nat
    BY <1>1 DEF LInv, TokensBelow, TypeOK, Record, Token
  <2> QED
    BY <2>1, <2>2
<1>7. ASSUME NEW i \in 1 .. L PROVE Suspended(i)' = Suspended(i)
  BY <1>2 DEF Suspended
<1>8. Running = [proc |-> proc, locals |-> locals, pc |-> pc, stk |-> stk]
      /\ Running' = [proc |-> proc, locals |-> locals, pc |-> target, stk |-> stk + 1]
  BY <1>2, <1>4 DEF Running
<1>9. /\ Frames \in Seq(Frame) /\ Frames' \in Seq(Frame)
      /\ Len(Frames) = L + 1 /\ Len(Frames') = L + 1
      /\ \A i \in 1 .. L : Frames'[i] = Frames[i]
      /\ Frames[L + 1] = Running /\ Frames'[L + 1] = Running'
  BY <1>0, <1>1, <1>2, <1>7 DEF FramesShape
<1> DEFINE B == SubSeq(Frames, 1, L)
           top == [Running EXCEPT !.stk = @ + 1, !.pc = target]
<1>10. B \in Seq(Frame) /\ Len(B) = L /\ \A i \in 1 .. L : B[i] = Frames[i]
  <2>1. L \in 0 .. Len(Frames)
    BY <1>9
  <2> QED
    BY <1>9, <2>1, PrefixProperties
<1>11. top = Running' /\ top \in Frame
  <2>1. top = Running'
    <3>1. Running \in Frame
      BY <1>9
    <3>2. top = [Running EXCEPT !.stk = Running.stk + 1, !.pc = target]
      OBVIOUS
    <3>3. top = [proc |-> Running.proc, locals |-> Running.locals, pc |-> target,
                 stk |-> Running.stk + 1]
      BY <3>1, <3>2, FrameExcept
    <3>4. Running.proc = proc /\ Running.locals = locals /\ Running.stk = stk
      BY DEF Running
    <3> HIDE DEF top
    <3> QED
      BY <1>8, <3>3, <3>4
  <2>2. Running' \in Frame
    BY <1>9
  <2> QED
    BY <2>1, <2>2
<1> HIDE DEF B, top
<1>12. Frames' = Append(B, top)
  <2> DEFINE A == Append(B, top)
  <2>1. /\ A \in Seq(Frame) /\ Len(A) = L + 1
        /\ \A i \in 1 .. L : A[i] = B[i]
        /\ A[L + 1] = top
    BY <1>10, <1>11, AppendProperties
  <2> HIDE DEF A
  <2>2. \A i \in 1 .. L + 1 : A[i] = Frames'[i]
    <3>1. \A i \in 1 .. L + 1 : i \in 1 .. L \/ i = L + 1
      OBVIOUS
    <3> QED
      BY <1>9, <1>10, <1>11, <2>1, <3>1
  <2>3. A = Frames'
    BY <1>9, <2>1, <2>2, SeqEqual
  <2> QED
    BY <2>3 DEF A
<1>13. Promise!Top = Running /\ Promise!Below = B /\ Len(Frames) - 1 = L
  <2>1. Len(Frames) - 1 = L
    BY <1>9
  <2> QED
    BY <1>9, <2>1 DEF Promise!Top, Promise!Below, B
<1>14. Frames'[Len(Frames)].pc = target
  BY <1>8, <1>9
<1>15. Frames' = Append(Promise!Below, [Promise!Top EXCEPT !.stk = @ + 1, !.pc = Frames'[Len(Frames)].pc])
  BY <1>12, <1>13, <1>14 DEF top
<1>16. new \in live' /\ new.token = FreshToken /\ new.level = L /\ new.stk = stk /\ new.tuple = tuple
  BY <1>0, <1>2
<1> HIDE DEF new
<1>17. Promise!SetJmp(new)
  <2>1. new.stk = Promise!Top.stk
    BY <1>8, <1>13, <1>16
  <2>2. live' = live \cup {new}
    BY <1>2
  <2> QED
    BY <1>2, <1>6, <1>13, <1>15, <1>16, <2>1, <2>2 DEF Promise!SetJmp
<1> QED
  BY <1>16, <1>17

\* A record is known by its token.
LEMMA OneRecordPerToken ==
  ASSUME LInv, NEW a \in live, NEW b \in live, a.token = b.token
  PROVE  a = b
<1>1. TypeOK /\ Faithful(a) /\ Faithful(b)
  BY DEF LInv, TInv, LiveRecordsIntact
<1>2. a \in Record /\ b \in Record /\ a.level = b.level
  BY <1>1, FaithfulFacts
<1>3. a.stk = b.stk /\ a.tuple = b.tuple /\ a.longjmp = b.longjmp /\ a.longjmpr = b.longjmpr
  BY <1>1 DEF Faithful
<1> QED
  BY <1>2, <1>3 DEF Record

\* A jump cuts the stack of activations to the one its record names.
LEMMA LongJmpRefines ==
  ASSUME LInv, TypeOK', halted = "no", halted' = "no",
         NEW t \in Token, NEW n \in {0, 1}, Usable(t), LongJmp(t, n)
  PROVE  \E a \in live : Promise!LongJmp(a, n)
<1>1. PICK a \in live : a.token = t /\ (a.level < Len(calls) \/ snaps[t].locals = locals)
  BY DEF Usable
<1>2. TypeOK /\ FramesShape /\ FramesShape' /\ Faithful(a)
  <2>1. TypeOK /\ Faithful(a)
    BY DEF LInv, TInv, LiveRecordsIntact
  <2>2. FramesShape /\ FramesShape'
    BY <2>1, FramesType, PTL
  <2> QED
    BY <2>1, <2>2
<1>3. PICK s \in Snapshot : s = snaps[t]
  BY <1>1, <1>2, FaithfulFacts
<1>4. /\ proc' = s.proc /\ locals' = s.locals /\ calls' = s.calls /\ tuple' = s.tuple
      /\ pc' = Landing(s, n)
      /\ stk' = PushN(s.stk, n)
      /\ live' = {b \in live : b.level <= Len(s.calls) /\ b.token # t}
  BY <1>1, <1>3 DEF LongJmp
<1>5. stk' = s.stk + n
  <2>1. ~(s.stk + n > EvalCap)
    BY <1>3 DEF LongJmp, HaltIf, Overflows
  <2> QED
    BY <1>4, <2>1 DEF PushN
<1>6. PICK l \in Nat : l = a.level
  BY <1>2, FaithfulFacts
<1>7. PICK L \in Nat : L = Len(calls)
  BY <1>2 DEF TypeOK
<1>8. /\ l <= L /\ s.calls \in Seq(Continuation) /\ Len(s.calls) = l
      /\ \A i \in 1 .. l : s.calls[i] = calls[i]
      /\ s.proc = ProcAt(l)
      /\ s.stk = a.stk /\ s.tuple = a.tuple /\ s.longjmp = a.longjmp /\ s.longjmpr = a.longjmpr
  <2>1. /\ a.level \in 0 .. Len(calls) /\ Len(s.calls) = a.level
        /\ calls \in Seq(Continuation) /\ s.calls \in Seq(Continuation)
    BY <1>1, <1>2, <1>3, FaithfulFacts DEF TypeOK, Snapshot
  <2>2. s.calls = SubSeq(calls, 1, a.level)
    BY <1>1, <1>2, <1>3 DEF Faithful
  <2>3. \A i \in 1 .. a.level : s.calls[i] = calls[i]
    BY <2>1, <2>2, PrefixProperties
  <2> QED
    BY <1>1, <1>2, <1>3, <1>6, <1>7, <2>1, <2>3 DEF Faithful
<1>9. ASSUME NEW i \in 1 .. l PROVE Suspended(i)' = Suspended(i)
  BY <1>4, <1>8 DEF Suspended
<1>10. PICK f \in Frame : f = Frames[l + 1]
  BY <1>2, <1>7, <1>8 DEF FramesShape
<1>11. f.proc = s.proc /\ f.locals = s.locals
  <2>1. CASE l = L
    <3>1. f = Running
      BY <1>2, <1>7, <1>10, <2>1 DEF FramesShape
    <3>2. ProcAt(l) = proc /\ s.locals = locals
      BY <1>1, <1>3, <1>6, <1>7, <2>1 DEF ProcAt
    <3> QED
      BY <1>8, <3>1, <3>2 DEF Running
  <2>2. CASE l < L
    <3>1. l + 1 \in 1 .. Len(calls)
      BY <1>7, <2>2
    <3>2. f = Suspended(l + 1)
      BY <1>2, <1>10, <3>1 DEF FramesShape
    <3>3. ProcAt(l) = calls[l + 1].proc /\ LocalsAt(l) = calls[l + 1].locals
      BY <1>7, <2>2 DEF ProcAt, LocalsAt
    <3>4. s.locals = LocalsAt(l)
      BY <1>2, <1>1, <1>3, <1>6, <1>7, <2>2 DEF Faithful
    <3> QED
      BY <1>8, <3>2, <3>3, <3>4 DEF Suspended
  <2> QED
    BY <1>8, <2>1, <2>2
<1> DEFINE landing == IF n = 1 THEN a.longjmpr ELSE a.longjmp
           top == [f EXCEPT !.stk = a.stk + n, !.pc = landing]
           B == SubSeq(Frames, 1, l + 1)
           new == [B EXCEPT ![l + 1].stk = a.stk + n, ![l + 1].pc = landing]
<1>12. top = Running'
  <2>1. Running' = [proc |-> s.proc, locals |-> s.locals, pc |-> landing, stk |-> a.stk + n]
    BY <1>4, <1>5, <1>8 DEF Running, Landing
  <2>2. top = [proc |-> f.proc, locals |-> f.locals, pc |-> landing, stk |-> a.stk + n]
    BY FrameExcept
  <2> QED
    BY <1>11, <2>1, <2>2
<1>13. /\ Frames \in Seq(Frame) /\ Frames' \in Seq(Frame)
       /\ Len(Frames) = L + 1 /\ Len(Frames') = l + 1
       /\ \A i \in 1 .. l : Frames'[i] = Frames[i]
       /\ Frames'[l + 1] = Running'
  <2>1. Len(calls') = l /\ \A i \in 1 .. l : i \in 1 .. L
    BY <1>4, <1>8
  <2> QED
    BY <1>2, <1>7, <1>9, <2>1 DEF FramesShape
<1>14. B \in Seq(Frame) /\ Len(B) = l + 1 /\ \A i \in 1 .. l + 1 : B[i] = Frames[i]
  <2>1. l + 1 \in 0 .. Len(Frames)
    BY <1>8, <1>13
  <2> QED
    BY <1>13, <2>1, PrefixProperties
<1> HIDE DEF landing, B
<1>15. B \in [1 .. l + 1 -> Frame] /\ l + 1 \in 1 .. l + 1 /\ B[l + 1] = f
  BY <1>10, <1>14
<1>16. new = [B EXCEPT ![l + 1] = top]
  BY <1>15
<1> HIDE DEF top
<1>17. new \in [1 .. l + 1 -> Frame]
  <2>1. top \in Frame
    BY <1>12, <1>13
  <2> HIDE DEF new
  <2> QED
    BY <1>15, <1>16, <2>1
<1>18. \A i \in 1 .. l + 1 : new[i] = Frames'[i]
  <2> HIDE DEF new
  <2>1. ASSUME NEW i \in 1 .. l + 1 PROVE new[i] = Frames'[i]
    <3>1. CASE i = l + 1
      BY <1>12, <1>13, <1>15, <1>16, <3>1
    <3>2. CASE i # l + 1
      <4>1. i \in 1 .. l
        BY <3>2
      <4> QED
        BY <1>13, <1>14, <1>15, <1>16, <3>2, <4>1
    <3> QED
      BY <3>1, <3>2
  <2> QED
    BY <2>1
<1> HIDE DEF new
<1>19. Frames' = new
  <2>1. new \in Seq(Frame) /\ Len(new) = l + 1
    BY <1>17
  <2> QED
    BY <1>13, <1>18, <2>1, SeqEqual
<1>20. live' = {b \in live \ {a} : b.level <= l}
  <2>1. \A b \in live : b.token = t => b = a
    BY <1>1, OneRecordPerToken
  <2> QED
    BY <1>1, <1>4, <1>8, <2>1
<1>21. Frames' = [SubSeq(Frames, 1, a.level + 1) EXCEPT
                    ![a.level + 1].stk = a.stk + n,
                    ![a.level + 1].pc = IF n = 1 THEN a.longjmpr ELSE a.longjmp]
  BY <1>6, <1>19 DEF new, B, landing
<1>22. tuple' = a.tuple
  BY <1>4, <1>8
<1>23. Promise!LongJmp(a, n)
  BY <1>6, <1>20, <1>21, <1>22 DEF Promise!LongJmp
<1> QED
  BY <1>23

\* Every step of such a program is one of a stack of activations.
LEMMA StepRefines ==
  ASSUME LInv, NoWrap, [DisciplinedNext]_vars
  PROVE  [Promise!Next]_(Promise!vars)
<1>0. [Next]_vars
  BY DEF DisciplinedNext, Next
<1>1. TypeOK /\ TypeOK'
  <2>1. LInv'
    BY <1>0, LiveStep
  <2> QED
    BY <2>1 DEF LInv, TInv
<1>2. CASE UNCHANGED vars
  <2>1. Frames' = Frames
    BY <1>2 DEF vars, Frames
  <2>2. Status' = Status /\ live' = live /\ tuple' = tuple
    BY <1>2 DEF vars, Status
  <2> QED
    BY <2>1, <2>2 DEF Promise!vars
<1>3. CASE DisciplinedNext /\ halted' # "no"
  BY <1>3, StopRefines DEF DisciplinedNext
<1>4. CASE DisciplinedNext /\ halted' = "no"
  <2>1. halted = "no" /\ Status = "running" /\ Status' = "running"
    BY <1>4 DEF DisciplinedNext, Status
  <2>2. ASSUME StackStep \/ LocalStep \/ StopStep PROVE Promise!Next
    BY <1>1, <2>1, <2>2, WorkRefines DEF Promise!Next
  <2>3. ASSUME CallStep PROVE Promise!Next
    <3>1. PICK q \in Proc, args \in Args, indirect \in {0, 1}, return_pc \in PC :
            NearCall(q, args, indirect, return_pc) \/ FarCall(q, args, indirect, return_pc)
      BY <2>3 DEF CallStep
    <3>2. Promise!Call(q, args)
      BY <1>1, <1>4, <2>1, <3>1, CallRefines
    <3> QED
      BY <2>1, <3>2 DEF Promise!Next
  <2>4. ASSUME ReturnStep PROVE Promise!Next
    <3>1. PICK n \in 0 .. MaxArgs : Return(n, n) \/ Return(n, 0)
      BY <2>4 DEF ReturnStep
    <3>2. n \in Nat /\ 0 \in Nat
      BY CapAssumption
    <3>3. Promise!Return(n)
      BY <1>1, <1>4, <2>1, <3>1, <3>2, ReturnRefines
    <3> QED
      BY <2>1, <3>3 DEF Promise!Next
  <2>5. ASSUME SetJmpStep PROVE Promise!Next
    <3>1. PICK x \in PC, y \in PC, target \in PC : SetJmp(x, y, target)
      BY <2>5 DEF SetJmpStep
    <3>2. \E a \in live' : Promise!SetJmp(a)
      BY <1>1, <1>4, <2>1, <3>1, SetJmpRefines
    <3> QED
      BY <2>1, <3>2 DEF Promise!Next
  <2>6. ASSUME NEW t \in Token, NEW n \in {0, 1}, Usable(t), LongJmp(t, n) PROVE Promise!Next
    <3>1. \E a \in live : Promise!LongJmp(a, n)
      BY <1>1, <1>4, <2>1, <2>6, LongJmpRefines
    <3> QED
      BY <2>1, <3>1 DEF Promise!Next
  <2> QED
    BY <1>4, <2>2, <2>3, <2>4, <2>5, <2>6 DEF DisciplinedNext, Straight
<1> QED
  BY <1>2, <1>3, <1>4

\* Calls, returns and jumps of LinchpinST are those of a stack of activations,
\* for every image and every capacity, in programs that keep to section 6.7
\* of doc/vm-specification.md and as long as the token counter has not come
\* round (lpst_run_runtime.c, enter_procedure to restore_jump_snapshot).
THEOREM KeepsActivations == ASSUME NoWrap PROVE DisciplinedSpec => ImplementsActivations
<1>1. Init => LInv
  BY InitTInv DEF Init, LInv, LiveRecordsIntact, TokensBelow
<1>2. LInv /\ [DisciplinedNext]_vars => LInv'
  <2>1. [DisciplinedNext]_vars => [Next]_vars
    BY DEF DisciplinedNext, Next
  <2> QED
    BY <2>1, LiveStep
<1>3. Init => Promise!Init
  BY InitRefines
<1>4. LInv /\ [DisciplinedNext]_vars => [Promise!Next]_(Promise!vars)
  BY StepRefines
<1> QED
  BY <1>1, <1>2, <1>3, <1>4, PTL DEF DisciplinedSpec, ImplementsActivations, Promise!Spec
=============================================================================
