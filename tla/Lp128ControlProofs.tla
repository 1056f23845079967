------------------------- MODULE Lp128ControlProofs -------------------------
(***************************************************************************)
(* Proofs about Lp128Control for every bundle and every capacity: type     *)
(* correctness, and that a slot of SETJMP holds the activation it was      *)
(* taken in for as long as that has not returned.  No bound on the number  *)
(* of jumps is assumed: a token is never given out while its slot is valid.*)
(***************************************************************************)
EXTENDS Lp128Control, SequenceTheorems, FiniteSetTheorems, WellFoundedInduction, TLAPS

-----------------------------------------------------------------------------
(* The helpers stay within their types.                                     *)

\* Popping and pushing keep the stack depth between 0 and its capacity.
LEMMA StackDepths ==
  ASSUME NEW d \in Depth, NEW n \in Nat
  PROVE  PopN(d, n) \in Depth /\ PushN(d, n) \in Depth
BY CapAssumption DEF PopN, PushN, Depth

\* NewLocals fills exactly the locals its procedure declares.
LEMMA NewLocalsType ==
  ASSUME NEW q \in Proc, NEW args \in Args
  PROVE  NewLocals(q, args) \in Seq(Word) /\ Len(NewLocals(q, args)) = Len(LocalInit[q])
<1>1. LocalInit[q] \in Seq(Word) /\ Len(LocalInit[q]) \in Nat
  BY ProcAssumption
<1>2. PICK n \in 0 .. MaxArgs : args \in [1 .. n -> Word]
  BY DEF Args
<1>3. n \in Nat /\ Len(args) = n /\ \A i \in 1 .. n : args[i] \in Word
  BY <1>2, CapAssumption
<1>4. \A i \in 1 .. Len(LocalInit[q]) : LocalInit[q][i] \in Word
  BY <1>1
<1>5. NewLocals(q, args) \in [1 .. Len(LocalInit[q]) -> Word]
  BY <1>1, <1>3, <1>4 DEF NewLocals
<1> QED
  BY <1>1, <1>5

\* An argument list has a length.
LEMMA ArgsLen ==
  ASSUME NEW args \in Args
  PROVE  Len(args) \in Nat
<1>1. PICK n \in 0 .. MaxArgs : args \in [1 .. n -> Word]
  BY DEF Args
<1> QED
  BY <1>1, CapAssumption

\* The words an allocation takes are at least one.
LEMMA TupleWordsPositive ==
  ASSUME NEW n \in Nat
  PROVE  TupleWords(n) \in Nat /\ TupleWords(n) > 0
BY DEF TupleWords

-----------------------------------------------------------------------------
(* The token of a SETJMP.                                                   *)

Fit == {t \in Token : t # FalseToken /\ t \notin InUse}

\* A set of numbers has a least one.
LEMMA LeastNat ==
  ASSUME NEW T \in SUBSET Nat, T # {}
  PROVE  \E x \in T : \A y \in T : x <= y
<1>1. PICK x \in T : \A y \in T : ~ (<<y, x>> \in OpToRel(<, Nat))
  BY NatLessThanWellFounded, WFMin
<1>2. \A y \in T : ~ (y < x)
  BY <1>1 DEF OpToRel
<1> QED
  BY <1>2

\* With fewer slots than tokens some token names no valid slot.
LEMMA SomeTokenFits ==
  ASSUME Cardinality(InUse) < SnapshotCap
  PROVE  Fit # {}
<1>1. IsFiniteSet(Token) /\ Cardinality(Token) = TokenMod
  <2>1. IsFiniteSet(0 .. TokenMod - 1) /\ Cardinality(0 .. TokenMod - 1) = TokenMod
    BY CapAssumption, FS_Interval
  <2> QED
    BY <2>1 DEF Token
<1>2. IsFiniteSet(InUse) /\ Cardinality(InUse) \in Nat
  BY <1>1, FS_Subset, FS_CardinalityType DEF InUse
<1>3. /\ IsFiniteSet(InUse \cup {FalseToken})
      /\ Cardinality(InUse \cup {FalseToken}) <= Cardinality(InUse) + 1
      /\ Cardinality(InUse \cup {FalseToken}) \in Nat
  BY <1>2, FS_AddElement, FS_CardinalityType
<1>4. ASSUME Fit = {} PROVE FALSE
  <2>1. Token \subseteq InUse \cup {FalseToken}
    BY <1>4 DEF Fit
  <2>2. Cardinality(Token) <= Cardinality(InUse \cup {FalseToken})
    BY <1>3, <2>1, FS_Subset
  <2> QED
    BY <1>1, <1>2, <1>3, <2>2, CapAssumption
<1> QED
  BY <1>4

\* The token a SETJMP gives out names no valid slot and is not FALSE.
LEMMA FreshTokenFits ==
  ASSUME TypeOK, Cardinality(InUse) < SnapshotCap
  PROVE  FreshToken \in Token /\ FreshToken # FalseToken /\ FreshToken \notin InUse
<1> DEFINE Distance(t) == (t + TokenMod - next_jump_token) % TokenMod
           distances == {Distance(t) : t \in Fit}
<1>1. TokenMod \in Nat /\ TokenMod > 0 /\ next_jump_token \in 0 .. TokenMod - 1
  BY CapAssumption DEF TypeOK, Token
<1>2. \A t \in Fit : t \in Nat /\ Distance(t) \in Nat
  BY <1>1 DEF Fit, Token
<1>3. distances \in SUBSET Nat /\ distances # {}
  BY <1>2, SomeTokenFits
<1>4. PICK x \in distances : \A y \in distances : x <= y
  BY <1>3, LeastNat
<1>5. \E t \in Fit : \A u \in Fit : Distance(t) <= Distance(u)
  BY <1>4
<1>6. FreshToken = CHOOSE t \in Fit : \A u \in Fit : Distance(t) <= Distance(u)
  BY DEF FreshToken, Fit
<1>7. FreshToken \in Fit
  BY <1>5, <1>6
<1> QED
  BY <1>7 DEF Fit

-----------------------------------------------------------------------------
(* Type correctness, step by step.                                          *)

\* The machine starts well typed, with no record.
LEMMA InitInv == Init => TypeOK /\ LiveSlotsIntact
<1> SUFFICES ASSUME Init PROVE TypeOK /\ LiveSlotsIntact
  OBVIOUS
<1>1. proc \in Proc /\ pc \in PC /\ locals \in Seq(Word) /\ Len(locals) = Len(LocalInit[proc])
  BY ProcAssumption DEF Init
<1>2. stk \in Depth /\ tuple \in 0 .. TupleCap /\ last_return_word_count \in 0 .. MaxArgs
  BY CapAssumption DEF Init, Depth
<1>3. calls \in Seq(Continuation) /\ Len(calls) = 0
  BY DEF Init
<1>4. spill \in [1 .. CallCap -> Seq(Word)]
  BY DEF Init
<1>5. next_jump_token \in Token /\ snaps \in [Token -> Snapshot \cup {NoSnapshot}]
  BY CapAssumption DEF Init, Token
<1>6. halted = "no" /\ live = {}
  BY DEF Init
<1>7. Len(calls) <= CallCap
  BY <1>3, CapAssumption
<1>8. TypeOK
  BY <1>1, <1>2, <1>3, <1>4, <1>5, <1>6, <1>7 DEF TypeOK
<1> QED
  BY <1>6, <1>8 DEF LiveSlotsIntact

\* The steps that leave activations and slots alone, and the locals but for
\* the value of one: what is left to show of them is small.
Modest ==
  /\ UNCHANGED <<proc, calls, spill, jumpVars>>
  /\ locals' \in Seq(Word) /\ Len(locals') = Len(locals)
  /\ pc' \in PC /\ stk' \in Depth /\ tuple' \in 0 .. TupleCap
  /\ halted' \in {"no", "fault", "exit"}
  /\ last_return_word_count' = last_return_word_count

\* A modest step keeps the types and the slots.
LEMMA ModestStep ==
  ASSUME TypeOK, LiveSlotsIntact, Modest
  PROVE  TypeOK' /\ LiveSlotsIntact'
<1>1. TypeOK'
  BY DEF TypeOK, Modest, jumpVars
<1>2. LiveSlotsIntact'
  BY DEF LiveSlotsIntact, Modest, jumpVars, ProcAt
<1> QED
  BY <1>1, <1>2

\* Instructions of the evaluation stack are modest.
LEMMA OperateModest ==
  ASSUME TypeOK, NEW target \in PC, NEW pops \in Nat, NEW pushes \in Nat,
         Operate(pops, pushes, target)
  PROVE  Modest
<1>1. stk' \in Depth
  BY StackDepths DEF TypeOK, Operate
<1> QED
  BY <1>1 DEF TypeOK, Operate, Modest, HaltIf, frameVars

\* So are stores to the locals, which keep their number.
LEMMA StoreModest ==
  ASSUME TypeOK, NEW target \in PC, NEW i \in 1 .. MaxArgs, NEW w \in Word,
         NEW pops \in {0, 1}, StoreLocal(i, w, pops, target)
  PROVE  Modest
<1>1. stk' \in Depth
  BY StackDepths DEF TypeOK, StoreLocal
<1>2. locals' \in Seq(Word) /\ Len(locals') = Len(locals)
  BY DEF TypeOK, StoreLocal
<1> QED
  BY <1>1, <1>2 DEF TypeOK, StoreLocal, Modest, HaltIf

\* Freeing tuples keeps the tuple stack within its bounds.
LEMMA FreeTupleModest ==
  ASSUME TypeOK, NEW target \in PC, NEW n \in Nat, FreeTuple(n, target)
  PROVE  Modest
<1>1. tuple' \in 0 .. TupleCap
  <2>1. tuple' = IF TupleWords(n) > tuple THEN 0 ELSE tuple - TupleWords(n)
    BY Zenon DEF FreeTuple
  <2>2. tuple \in 0 .. TupleCap /\ TupleWords(n) \in Nat
    BY TupleWordsPositive DEF TypeOK
  <2> QED
    BY <2>1, <2>2, CapAssumption
<1>2. stk' \in Depth
  BY StackDepths DEF TypeOK, FreeTuple
<1> QED
  BY <1>1, <1>2 DEF TypeOK, FreeTuple, Modest, HaltIf, frameVars

\* So does allocating one.
LEMMA AllocTupleModest ==
  ASSUME TypeOK, NEW target \in PC, NEW n \in Nat, NEW fill \in BOOLEAN,
         AllocTuple(n, fill, target)
  PROVE  Modest
<1>1. tuple' \in 0 .. TupleCap
  <2>1. tuple' = IF tuple + TupleWords(n) <= TupleCap THEN tuple + TupleWords(n) ELSE tuple
    BY Zenon DEF AllocTuple
  <2>2. tuple \in 0 .. TupleCap /\ TupleWords(n) \in Nat
    BY TupleWordsPositive DEF TypeOK
  <2> QED
    BY <2>1, <2>2, CapAssumption
<1>2. stk' \in Depth
  <2> DEFINE pops == IF fill /\ tuple + TupleWords(n) <= TupleCap THEN n + 1 ELSE 1
  <2>1. pops \in Nat
    OBVIOUS
  <2>2. PopN(stk, pops) \in Depth
    BY <2>1, StackDepths DEF TypeOK
  <2>3. stk' = PushN(PopN(stk, pops), 1)
    BY DEF AllocTuple
  <2> QED
    BY <2>2, <2>3, StackDepths
<1>3. halted' \in {"no", "fault", "exit"} /\ pc' = target
  BY DEF AllocTuple, TypeOK, HaltIf
<1> QED
  BY <1>1, <1>2, <1>3 DEF TypeOK, AllocTuple, Modest, frameVars

\* Instructions that fault.
LEMMA FaultModest ==
  ASSUME TypeOK, NEW pops \in Nat, Fault(pops)
  PROVE  Modest
<1>1. stk' \in Depth
  BY StackDepths DEF TypeOK, Fault
<1> QED
  BY <1>1 DEF TypeOK, Fault, Modest, frameVars

\* Halting and a SETJMP without a slot.
LEMMA StopModest ==
  ASSUME TypeOK, Halt \/ SetJmpTableFull
  PROVE  Modest
<1>1. CASE Halt
  BY <1>1 DEF TypeOK, Halt, Modest, frameVars
<1>2. CASE SetJmpTableFull
  BY <1>2 DEF TypeOK, SetJmpTableFull, Modest, frameVars
<1> QED
  BY <1>1, <1>2

-----------------------------------------------------------------------------
(* Facts about prefixes of the call stack.                                  *)

\* The first n elements of a sequence, and how many they are.
LEMMA PrefixProperties ==
  ASSUME NEW S, NEW s \in Seq(S), NEW n \in 0 .. Len(s)
  PROVE  /\ SubSeq(s, 1, n) \in Seq(S) /\ Len(SubSeq(s, 1, n)) = n
         /\ \A i \in 1 .. n : SubSeq(s, 1, n)[i] = s[i]
BY SubSeqProperties

\* Sequences that agree on their first n elements have the same prefix.
LEMMA PrefixAgree ==
  ASSUME NEW S, NEW s \in Seq(S), NEW t \in Seq(S), NEW n \in Nat,
         n <= Len(s), n <= Len(t), \A i \in 1 .. n : s[i] = t[i]
  PROVE  SubSeq(s, 1, n) = SubSeq(t, 1, n)
<1> DEFINE u == SubSeq(s, 1, n)  v == SubSeq(t, 1, n)
<1>1. /\ u \in Seq(S) /\ Len(u) = n /\ \A i \in 1 .. n : u[i] = s[i]
      /\ v \in Seq(S) /\ Len(v) = n /\ \A i \in 1 .. n : v[i] = t[i]
  BY PrefixProperties
<1>2. \A i \in 1 .. Len(u) : u[i] = v[i]
  BY <1>1
<1> HIDE DEF u, v
<1>3. u = v
  BY <1>1, <1>2, SeqEqual
<1> QED
  BY <1>3 DEF u, v

\* What LiveSlotsIntact says of one record.
Intact(a) ==
  /\ snaps[a.token] # NoSnapshot /\ a.level <= Len(calls)
  /\ snaps[a.token].proc = ProcAt(a.level)
  /\ snaps[a.token].calls = SubSeq(calls, 1, a.level)
  /\ <<snaps[a.token].stk, snaps[a.token].tuple, snaps[a.token].longjmp, snaps[a.token].longjmpr>>
       = <<a.stk, a.tuple, a.longjmp, a.longjmpr>>

\* LiveSlotsIntact, record by record.
LEMMA IntactRecords == LiveSlotsIntact <=> \A a \in live : Intact(a)
BY DEF LiveSlotsIntact, Intact

\* The slot of a valid record, and the callers in it.
LEMMA IntactFacts ==
  ASSUME TypeOK, NEW a \in live, Intact(a)
  PROVE  /\ a \in Record /\ a.token \in Token /\ a.level \in 0 .. Len(calls)
         /\ snaps[a.token] \in Snapshot /\ snaps[a.token] # NoSnapshot
         /\ snaps[a.token].calls \in Seq(Continuation)
         /\ Len(snaps[a.token].calls) = a.level
         /\ \A i \in 1 .. a.level : snaps[a.token].calls[i] = calls[i]
<1>1. a \in Record /\ a.token \in Token /\ a.level \in 0 .. Len(calls)
  BY DEF TypeOK, Record, Intact
<1>2. snaps[a.token] \in Snapshot /\ snaps[a.token] # NoSnapshot
  BY <1>1 DEF TypeOK, Intact
<1>3. /\ snaps[a.token].calls \in Seq(Continuation)
      /\ Len(snaps[a.token].calls) = a.level
      /\ \A i \in 1 .. a.level : snaps[a.token].calls[i] = calls[i]
  BY <1>1, PrefixProperties DEF Intact, TypeOK
<1> QED
  BY <1>1, <1>2, <1>3

-----------------------------------------------------------------------------
(* Calls and returns.                                                       *)

\* The caller's locals go above every spill area that is in use.
LEMMA SpilledType ==
  ASSUME TypeOK, Len(calls) < CallCap
  PROVE  /\ Spilled \in [1 .. CallCap -> Seq(Word)]
         /\ \A i \in 1 .. Len(calls) : Spilled[i] = spill[i]
         /\ locals # <<>> => Spilled[Len(calls) + 1] = locals
<1>1. calls \in Seq(Continuation) /\ Len(calls) \in Nat /\ locals \in Seq(Word)
      /\ spill \in [1 .. CallCap -> Seq(Word)]
  BY DEF TypeOK
<1>2. Len(calls) + 1 \in 1 .. CallCap
  BY <1>1, CapAssumption
<1> QED
  BY <1>1, <1>2 DEF Spilled

\* A call with room on the call stack, of a procedure that does not exit.
LEMMA EnterStep ==
  ASSUME TypeOK, LiveSlotsIntact, NEW q \in Proc, NEW args \in Args,
         NEW indirect \in {0, 1}, NEW return_pc \in PC,
         Enter(q, args, indirect, return_pc)
  PROVE  TypeOK' /\ LiveSlotsIntact'
<1>1. stk' \in Depth
  <2>1. Len(args) \in Nat
    BY ArgsLen
  <2>2. indirect + Len(args) \in Nat /\ indirect \in Nat
    BY <2>1
  <2>3. stk' = PopN(stk, IF Len(calls) >= CallCap THEN indirect ELSE indirect + Len(args))
    BY DEF Enter
  <2> QED
    BY <2>2, <2>3, StackDepths DEF TypeOK
<1>2. halted' \in {"no", "fault", "exit"}
  BY DEF Enter, TypeOK
<1>3. UNCHANGED <<snaps, next_jump_token, live, tuple, last_return_word_count>>
  BY DEF Enter, jumpVars
<1>4. calls \in Seq(Continuation) /\ Len(calls) \in Nat
  BY DEF TypeOK
<1>5. CASE Len(calls) >= CallCap
  <2>1. UNCHANGED <<proc, pc, locals, calls, spill>>
    BY <1>5 DEF Enter
  <2>2. Modest
    BY <1>1, <1>2, <1>3, <2>1 DEF Modest, TypeOK, jumpVars
  <2> QED
    BY <2>2, ModestStep
<1>6. CASE Len(calls) < CallCap
  <2>1. spill' = Spilled /\ ~(Len(calls) >= CallCap)
    BY <1>4, <1>6, CapAssumption DEF Enter
  <2>2. CASE q = ExitProc
    <3>1. UNCHANGED <<proc, pc, locals, calls>>
      BY <2>1, <2>2 DEF Enter
    <3>2. \A i \in 1 .. Len(calls) : spill'[i] = spill[i]
      BY <1>6, <2>1, SpilledType
    <3>3. spill' \in [1 .. CallCap -> Seq(Word)]
      BY <1>6, <2>1, SpilledType
    <3>4. TypeOK'
      BY <1>1, <1>2, <1>3, <3>1, <3>2, <3>3 DEF TypeOK
    <3>5. LiveSlotsIntact'
      BY <1>3, <3>1 DEF LiveSlotsIntact, ProcAt
    <3> QED
      BY <3>4, <3>5
  <2>3. CASE q # ExitProc
    <3> DEFINE c == [proc |-> proc, pc |-> return_pc, depth |-> stk']
    <3>1. /\ calls' = Append(calls, c) /\ proc' = q /\ pc' = Entry[q]
          /\ locals' = NewLocals(q, args)
      BY <2>1, <2>3 DEF Enter
    <3>2. c \in Continuation /\ c.proc = proc
      BY <1>1 DEF TypeOK, Continuation
    <3> HIDE DEF c
    <3>3. /\ calls' \in Seq(Continuation) /\ Len(calls') = Len(calls) + 1
          /\ \A i \in 1 .. Len(calls) : calls'[i] = calls[i]
          /\ calls'[Len(calls) + 1] = c
      BY <1>4, <3>1, <3>2, AppendProperties
    <3>4. Len(calls') <= CallCap
      BY <1>4, <1>6, <3>3, CapAssumption
    <3>5. /\ spill' \in [1 .. CallCap -> Seq(Word)]
          /\ \A i \in 1 .. Len(calls) : spill'[i] = spill[i]
          /\ locals # <<>> => spill'[Len(calls) + 1] = locals
      BY <1>6, <2>1, SpilledType
    <3>6. ASSUME NEW i \in 1 .. Len(calls'), LocalInit[calls'[i].proc] # <<>>
          PROVE  Len(spill'[i]) = Len(LocalInit[calls'[i].proc])
      <4>1. CASE i \in 1 .. Len(calls)
        BY <3>3, <3>5, <3>6, <4>1 DEF TypeOK
      <4>2. CASE i = Len(calls) + 1
        <5>1. calls'[i].proc = proc
          BY <3>2, <3>3, <4>2
        <5>2. Len(locals) = Len(LocalInit[proc]) /\ LocalInit[proc] # <<>>
              /\ locals \in Seq(Word) /\ LocalInit[proc] \in Seq(Word)
          BY <3>6, <5>1, ProcAssumption DEF TypeOK
        <5>3. locals # <<>>
          BY <5>2
        <5> QED
          BY <3>5, <4>2, <5>1, <5>2, <5>3
      <4>3. i \in 1 .. Len(calls) \/ i = Len(calls) + 1
        BY <1>4, <3>3
      <4> QED
        BY <4>1, <4>2, <4>3
    <3>7. pc' \in PC /\ locals' \in Seq(Word) /\ Len(locals') = Len(LocalInit[proc'])
      BY <3>1, NewLocalsType, ProcAssumption
    <3>8. TypeOK'
      BY <1>1, <1>2, <1>3, <3>1, <3>3, <3>4, <3>5, <3>6, <3>7 DEF TypeOK
    <3>9. ASSUME NEW a \in live PROVE Intact(a)'
      <4>1. Intact(a)
        BY IntactRecords
      <4>2. a.level \in 0 .. Len(calls) /\ a.level <= Len(calls')
        BY <1>4, <3>3, <4>1, IntactFacts
      <4>3. SubSeq(calls', 1, a.level) = SubSeq(calls, 1, a.level)
        BY <1>4, <3>3, <4>2, PrefixAgree
      <4>4. ProcAt(a.level)' = ProcAt(a.level)
        BY <1>4, <3>2, <3>3, <4>2 DEF ProcAt
      <4> QED
        BY <1>3, <4>1, <4>2, <4>3, <4>4 DEF Intact
    <3>10. LiveSlotsIntact'
      BY <1>3, <3>9, IntactRecords DEF LiveSlotsIntact, Intact
    <3> QED
      BY <3>8, <3>10
  <2> QED
    BY <2>2, <2>3
<1> QED
  BY <1>4, <1>5, <1>6, CapAssumption

\* A return: from the entry procedure it stops the machine, from any other it
\* resumes the caller with the locals of the spill area.
LEMMA ReturnStep ==
  ASSUME TypeOK, LiveSlotsIntact, NEW n \in 0 .. MaxArgs, NEW pops \in Nat, Return(n, pops)
  PROVE  TypeOK' /\ LiveSlotsIntact'
<1> DEFINE L == Len(calls)
<1>1. calls \in Seq(Continuation) /\ L \in Nat /\ L <= CallCap
  BY DEF TypeOK
<1>2. /\ UNCHANGED <<spill, tuple, snaps, next_jump_token>>
      /\ last_return_word_count' = n /\ live' = {a \in live : a.level < L}
  BY DEF Return
<1>3. live' \subseteq Record
  BY <1>2 DEF TypeOK
<1>4. CASE calls = <<>>
  <2>1. UNCHANGED <<proc, pc, locals, calls>> /\ halted' = "exit" /\ stk' = PopN(stk, pops)
    BY <1>4 DEF Return
  <2>2. stk' \in Depth
    BY <2>1, StackDepths DEF TypeOK
  <2>3. TypeOK'
    BY <1>2, <1>3, <2>1, <2>2 DEF TypeOK
  <2>4. LiveSlotsIntact'
    BY <1>2, <2>1 DEF LiveSlotsIntact, ProcAt
  <2> QED
    BY <2>3, <2>4
<1>5. CASE calls # <<>>
  <2> DEFINE cont == calls[L]
             exits == ModuleOf[cont.proc] = ModuleOf[ExitProc] /\ cont.pc \in ExitPc
  <2>1. L \in 1 .. CallCap /\ cont \in Continuation
    BY <1>1, <1>5, CapAssumption
  <2>2. cont.depth \in Depth /\ cont.proc \in Proc /\ cont.pc \in PC
    BY <2>1 DEF Continuation
  <2>3. /\ calls' = SubSeq(calls, 1, L - 1) /\ proc' = cont.proc /\ pc' = cont.pc
        /\ locals' = IF LocalInit[cont.proc] = <<>> THEN <<>> ELSE spill[L]
        /\ stk' = IF exits THEN cont.depth ELSE PushN(cont.depth, n)
        /\ halted' \in {"exit", "fault", halted}
    BY <1>5, Zenon DEF Return
  <2>4. /\ calls' \in Seq(Continuation) /\ Len(calls') = L - 1
        /\ \A i \in 1 .. L - 1 : calls'[i] = calls[i]
    <3>1. L - 1 \in 0 .. Len(calls)
      BY <2>1
    <3> QED
      BY <1>1, <2>3, <3>1, PrefixProperties
  <2>5. stk' \in Depth
    <3>1. n \in Nat
      BY CapAssumption
    <3> QED
      BY <2>2, <2>3, <3>1, StackDepths
  <2>6. locals' \in Seq(Word) /\ Len(locals') = Len(LocalInit[proc'])
    <3>1. CASE LocalInit[cont.proc] = <<>>
      BY <2>3, <3>1
    <3>2. CASE LocalInit[cont.proc] # <<>>
      <4>1. L \in 1 .. Len(calls)
        BY <2>1
      <4>2. Len(spill[L]) = Len(LocalInit[cont.proc]) /\ spill[L] \in Seq(Word)
        BY <2>1, <3>2, <4>1 DEF TypeOK
      <4> QED
        BY <2>3, <3>2, <4>2
    <3> QED
      BY <3>1, <3>2
  <2>7. \A i \in 1 .. Len(calls') : LocalInit[calls'[i].proc] # <<>> =>
          Len(spill'[i]) = Len(LocalInit[calls'[i].proc])
    <3>1. ASSUME NEW i \in 1 .. Len(calls')
          PROVE  i \in 1 .. L /\ calls'[i] = calls[i] /\ spill'[i] = spill[i]
      BY <1>2, <2>1, <2>4
    <3> QED
      BY <3>1 DEF TypeOK
  <2>8. Len(calls') <= CallCap /\ halted' \in {"no", "fault", "exit"}
    BY <2>1, <2>3, <2>4, CapAssumption DEF TypeOK
  <2>9. TypeOK'
    BY <1>2, <1>3, <2>2, <2>3, <2>4, <2>5, <2>6, <2>7, <2>8 DEF TypeOK
  <2>10. ASSUME NEW a \in live' PROVE Intact(a)'
    <3>1. a \in live /\ a.level < L /\ Intact(a)
      BY <1>2, IntactRecords
    <3>2. a.level \in 0 .. L /\ a.level <= Len(calls')
      BY <1>1, <2>1, <2>4, <3>1, IntactFacts
    <3>3. SubSeq(calls', 1, a.level) = SubSeq(calls, 1, a.level)
      BY <1>1, <2>4, <3>1, <3>2, PrefixAgree
    <3>4. ProcAt(a.level)' = ProcAt(a.level)
      BY <1>1, <2>1, <2>3, <2>4, <3>1, <3>2 DEF ProcAt
    <3> QED
      BY <1>2, <3>1, <3>2, <3>3, <3>4 DEF Intact
  <2>11. LiveSlotsIntact'
    BY <2>10 DEF LiveSlotsIntact, Intact
  <2> QED
    BY <2>9, <2>11
<1> QED
  BY <1>4, <1>5

-----------------------------------------------------------------------------
(* SETJMP and the jumps.                                                    *)

\* A slot taken by SETJMP is not one a valid record names.
LEMMA SetJmpStep ==
  ASSUME TypeOK, LiveSlotsIntact, NEW x \in PC, NEW y \in PC, NEW target \in PC,
         SetJmp(x, y, target)
  PROVE  TypeOK' /\ LiveSlotsIntact'
<1> DEFINE slot == [proc |-> proc, locals |-> locals, calls |-> calls, stk |-> stk,
                    tuple |-> tuple, longjmp |-> x, longjmpr |-> y]
           new == [token |-> FreshToken, level |-> Len(calls), stk |-> stk,
                   tuple |-> tuple, longjmp |-> x, longjmpr |-> y]
<1>1. /\ snaps' = [snaps EXCEPT ![FreshToken] = slot] /\ live' = live \cup {new}
      /\ next_jump_token' = (FreshToken + 1) % TokenMod /\ pc' = target
      /\ stk' = PushN(stk, 1) /\ halted' \in {"fault", halted}
      /\ UNCHANGED <<proc, locals, calls, spill, tuple, last_return_word_count>>
  BY DEF SetJmp, frameVars, HaltIf
<1>2. FreshToken \in Token /\ FreshToken \notin InUse
  BY FreshTokenFits DEF SetJmp
<1>3. slot \in Snapshot /\ slot # NoSnapshot
  <2>1. slot \in Snapshot
    BY DEF TypeOK, Snapshot
  <2> QED
    BY <2>1, NoSnapshotAssumption
<1>4. new \in Record
  BY <1>2 DEF TypeOK, Record
<1>5. /\ slot.proc = proc /\ slot.calls = calls /\ slot.stk = stk /\ slot.tuple = tuple
      /\ slot.longjmp = x /\ slot.longjmpr = y
      /\ new.token = FreshToken /\ new.level = Len(calls) /\ new.stk = stk
      /\ new.tuple = tuple /\ new.longjmp = x /\ new.longjmpr = y
  OBVIOUS
<1> HIDE DEF slot, new
<1>6. stk' \in Depth
  BY <1>1, StackDepths DEF TypeOK
<1>7. next_jump_token' \in Token
  <2>1. FreshToken \in Nat /\ TokenMod \in Nat /\ TokenMod > 0
    BY <1>2, CapAssumption DEF Token
  <2> QED
    BY <1>1, <2>1 DEF Token
<1>8. snaps' \in [Token -> Snapshot \cup {NoSnapshot}] /\ snaps'[FreshToken] = slot
  BY <1>1, <1>2, <1>3 DEF TypeOK
<1>9. live' \subseteq Record
  BY <1>1, <1>4 DEF TypeOK
<1>10. TypeOK'
  BY <1>1, <1>6, <1>7, <1>8, <1>9 DEF TypeOK
<1>11. ASSUME NEW a \in live PROVE Intact(a)'
  <2>1. Intact(a) /\ a.token \in Token /\ snaps[a.token] # NoSnapshot
    BY IntactRecords, IntactFacts
  <2>2. a.token # FreshToken
    BY <1>2, <2>1 DEF InUse
  <2>3. snaps'[a.token] = snaps[a.token]
    BY <1>1, <2>1, <2>2 DEF TypeOK
  <2> QED
    BY <1>1, <2>1, <2>3 DEF Intact, ProcAt
<1>12. ASSUME NEW a, a = new PROVE Intact(a)'
  <2>1. calls \in Seq(Continuation) /\ Len(calls) \in Nat
    BY DEF TypeOK
  <2>2. SubSeq(calls, 1, Len(calls)) = calls /\ ~(Len(calls) < Len(calls))
    BY <2>1, SubSeqFull
  <2>3. /\ a.token = FreshToken /\ a.level = Len(calls) /\ a.stk = stk
        /\ a.tuple = tuple /\ a.longjmp = x /\ a.longjmpr = y
    BY <1>5, <1>12
  <2> QED
    BY <1>1, <1>3, <1>5, <1>8, <2>1, <2>2, <2>3 DEF Intact, ProcAt
<1>13. LiveSlotsIntact'
  <2>1. \A a \in live' : Intact(a)'
    BY <1>1, <1>11, <1>12
  <2> QED
    BY <2>1 DEF LiveSlotsIntact, Intact
<1> QED
  BY <1>10, <1>13

\* A jump to a usable token goes back to the activation of its record, with
\* the locals that activation has now, and cuts the call stack to it.
LEMMA LongJmpStep ==
  ASSUME TypeOK, LiveSlotsIntact, NEW t \in Token, NEW n \in {0, 1}, Usable(t), LongJmp(t, n)
  PROVE  TypeOK' /\ LiveSlotsIntact'
<1>1. PICK a \in live : a.token = t /\ snaps[t].locals = LocalsAt(a.level)
  BY DEF Usable
<1> DEFINE s == snaps[t]
<1>2. /\ proc' = s.proc /\ locals' = s.locals /\ calls' = s.calls /\ tuple' = s.tuple
      /\ pc' = IF n = 1 THEN s.longjmpr ELSE s.longjmp
      /\ stk' = PushN(s.stk, n) /\ halted' \in {"fault", halted}
      /\ snaps' = [snaps EXCEPT ![t] = NoSnapshot]
      /\ UNCHANGED <<spill, next_jump_token, last_return_word_count>>
  BY DEF LongJmp, HaltIf
<1>3. live' = {b \in live : b.level <= Len(s.calls) /\ b.token # t}
  BY <1>1 DEF LongJmp
<1>4. /\ Intact(a) /\ a.level \in 0 .. Len(calls)
      /\ s \in Snapshot /\ s.calls \in Seq(Continuation) /\ Len(s.calls) = a.level
      /\ \A i \in 1 .. a.level : s.calls[i] = calls[i]
  BY <1>1, IntactRecords, IntactFacts
<1>5. s.proc = ProcAt(a.level) /\ s.locals = LocalsAt(a.level)
  BY <1>1, <1>4 DEF Intact
<1>6. calls \in Seq(Continuation) /\ Len(calls) \in Nat /\ Len(calls) <= CallCap
  BY DEF TypeOK
<1>7. /\ s.proc \in Proc /\ s.locals \in Seq(Word) /\ s.stk \in Depth
      /\ s.tuple \in 0 .. TupleCap /\ s.longjmp \in PC /\ s.longjmpr \in PC
  BY <1>4 DEF Snapshot
<1> HIDE DEF s
<1>8. Len(s.locals) = Len(LocalInit[s.proc])
  <2>1. CASE a.level = Len(calls)
    <3>1. s.locals = locals /\ s.proc = proc
      BY <1>5, <1>6, <2>1 DEF LocalsAt, ProcAt
    <3> QED
      BY <3>1 DEF TypeOK
  <2>2. CASE a.level < Len(calls)
    <3> DEFINE i == a.level + 1
    <3>1. i \in 1 .. Len(calls) /\ a.level # Len(calls)
      BY <1>4, <1>6, <2>2
    <3>2. s.proc = calls[i].proc
      BY <1>5, <2>2 DEF ProcAt
    <3>3. s.locals = IF LocalInit[calls[i].proc] = <<>> THEN <<>> ELSE spill[i]
      BY <1>5, <3>1 DEF LocalsAt
    <3> HIDE DEF i
    <3>4. LocalInit[calls[i].proc] # <<>> => Len(spill[i]) = Len(LocalInit[calls[i].proc])
      BY <3>1 DEF TypeOK
    <3> QED
      BY <3>2, <3>3, <3>4
  <2> QED
    BY <1>4, <1>6, <2>1, <2>2
<1>9. stk' \in Depth
  BY <1>2, <1>7, StackDepths
<1>10. snaps' \in [Token -> Snapshot \cup {NoSnapshot}]
  BY <1>2 DEF TypeOK
<1>11. \A i \in 1 .. Len(calls') : LocalInit[calls'[i].proc] # <<>> =>
         Len(spill'[i]) = Len(LocalInit[calls'[i].proc])
  <2>1. ASSUME NEW i \in 1 .. Len(calls')
        PROVE  i \in 1 .. Len(calls) /\ calls'[i] = calls[i] /\ spill'[i] = spill[i]
    BY <1>2, <1>4, <1>6
  <2> QED
    BY <2>1 DEF TypeOK
<1>12. TypeOK'
  <2>1. calls' \in Seq(Continuation) /\ Len(calls') <= CallCap
    BY <1>2, <1>4, <1>6, CapAssumption
  <2>2. proc' \in Proc /\ pc' \in PC /\ locals' \in Seq(Word) /\ tuple' \in 0 .. TupleCap
        /\ Len(locals') = Len(LocalInit[proc'])
    BY <1>2, <1>7, <1>8
  <2>3. live' \subseteq Record
    BY <1>3 DEF TypeOK
  <2> QED
    BY <1>2, <1>9, <1>10, <1>11, <2>1, <2>2, <2>3 DEF TypeOK
<1>13. ASSUME NEW b \in live' PROVE Intact(b)'
  <2>1. b \in live /\ b.level <= a.level /\ b.token # t /\ Intact(b)
    BY <1>3, <1>4, IntactRecords
  <2>2. b.token \in Token /\ b.level \in 0 .. a.level
    BY <1>4, <2>1, IntactFacts
  <2>3. snaps'[b.token] = snaps[b.token]
    BY <1>2, <2>1, <2>2 DEF TypeOK
  <2>4. SubSeq(calls', 1, b.level) = SubSeq(calls, 1, b.level)
    BY <1>2, <1>4, <1>6, <2>2, PrefixAgree
  <2>5. ProcAt(b.level)' = ProcAt(b.level)
    BY <1>2, <1>4, <1>5, <1>6, <2>2 DEF ProcAt
  <2> QED
    BY <1>2, <1>4, <2>1, <2>2, <2>3, <2>4, <2>5 DEF Intact
<1>14. LiveSlotsIntact'
  BY <1>13 DEF LiveSlotsIntact, Intact
<1> QED
  BY <1>12, <1>14

-----------------------------------------------------------------------------
(* The theorems.                                                            *)

\* TypeOK alone is not inductive: that a jump restores as many locals as the
\* procedure declares needs the slot to be that of a live activation.
Inv == TypeOK /\ LiveSlotsIntact

\* The steps that are not modest.
Calls ==
  \E q \in Proc, args \in Args, indirect \in {0, 1}, return_pc \in ReturnPC :
    NearCall(q, args, indirect, return_pc) \/ FarCall(q, args, indirect, return_pc)
Returns == \E n \in 0 .. MaxArgs : Return(n, n) \/ Return(n, 0)
SetJmps == \E at \in Landing, target \in Target : SetJmp(at[1], at[2], target)

\* The rest of the instructions are.
LEMMA StraightSteps ==
  ASSUME TypeOK, Straight
  PROVE  Modest \/ Calls \/ Returns \/ SetJmps
<1>1. ASSUME NEW target \in Target, NEW pops \in 0 .. MaxPops, NEW pushes \in {0, 1},
             Operate(pops, pushes, target)
      PROVE  Modest
  BY <1>1, OperateModest, ProcAssumption, CapAssumption
<1>2. ASSUME NEW target \in Target, DropResults(target) PROVE Modest
  <2>1. last_return_word_count \in Nat /\ target \in PC
    BY CapAssumption, ProcAssumption DEF TypeOK
  <2> QED
    BY <1>2, <2>1, OperateModest DEF DropResults
<1>3. ASSUME NEW target \in Target, NEW i \in 1 .. MaxArgs, NEW w \in Word, NEW pops \in {0, 1},
             StoreLocal(i, w, pops, target)
      PROVE  Modest
  BY <1>3, StoreModest, ProcAssumption
<1>4. ASSUME NEW target \in Target, NEW n \in 0 .. MaxPops, FreeTuple(n, target)
      PROVE  Modest
  BY <1>4, FreeTupleModest, ProcAssumption, CapAssumption
<1>5. ASSUME NEW target \in Target, NEW n \in 0 .. MaxPops, NEW fill \in BOOLEAN,
             AllocTuple(n, fill, target)
      PROVE  Modest
  BY <1>5, AllocTupleModest, ProcAssumption, CapAssumption
<1>6. ASSUME NEW pops \in Nat, Fault(pops) PROVE Modest
  BY <1>6, FaultModest
<1>7. ASSUME SetJmpTableFull \/ Halt PROVE Modest
  BY <1>7, StopModest
<1>8. ASSUME \/ \E indirect \in {0, 1} : FarCallInvalid(indirect)
             \/ \E t \in Token, n \in {0, 1} : LongJmpUnknown(t, n)
             \/ \E pops \in 0 .. MaxPops : Fault(pops)
      PROVE  Modest
  <2>1. \A n \in {0, 1} : n \in Nat /\ n + 1 \in Nat
    OBVIOUS
  <2>2. \A n \in 0 .. MaxPops : n \in Nat
    BY CapAssumption
  <2> QED
    BY <1>6, <1>8, <2>1, <2>2 DEF FarCallInvalid, LongJmpUnknown
<1> QED
  BY <1>1, <1>2, <1>3, <1>4, <1>5, <1>7, <1>8 DEF Straight, Calls, Returns, SetJmps

\* Every step keeps the types and the slots.
LEMMA InvStep ==
  ASSUME Inv, [Next]_vars
  PROVE  Inv'
<1>1. TypeOK /\ LiveSlotsIntact
  BY DEF Inv
<1>2. CASE UNCHANGED vars
  <2>1. TypeOK'
    BY <1>1, <1>2 DEF vars, TypeOK
  <2>2. LiveSlotsIntact'
    BY <1>1, <1>2 DEF vars, LiveSlotsIntact, ProcAt
  <2> QED
    BY <2>1, <2>2 DEF Inv
<1>3. ASSUME Calls PROVE Inv'
  <2>1. PICK q \in Proc, args \in Args, indirect \in {0, 1}, return_pc \in PC :
          Enter(q, args, indirect, return_pc)
    BY <1>3, ProcAssumption DEF Calls, NearCall, FarCall
  <2> QED
    BY <1>1, <2>1, EnterStep DEF Inv
<1>4. ASSUME Returns PROVE Inv'
  <2>1. PICK n \in 0 .. MaxArgs : Return(n, n) \/ Return(n, 0)
    BY <1>4 DEF Returns
  <2>2. n \in Nat /\ 0 \in Nat
    BY CapAssumption
  <2> QED
    BY <1>1, <2>1, <2>2, ReturnStep DEF Inv
<1>5. ASSUME SetJmps PROVE Inv'
  <2>1. PICK x \in PC, y \in PC, target \in PC : SetJmp(x, y, target)
    BY <1>5, ProcAssumption DEF SetJmps
  <2> QED
    BY <1>1, <2>1, SetJmpStep DEF Inv
<1>6. ASSUME NEW t \in Token, NEW n \in {0, 1}, Usable(t), LongJmp(t, n) PROVE Inv'
  BY <1>1, <1>6, LongJmpStep DEF Inv
<1>7. Modest => Inv'
  BY <1>1, ModestStep DEF Inv
<1>8. Straight => Modest \/ Calls \/ Returns \/ SetJmps
  BY <1>1, StraightSteps
<1> QED
  BY <1>2, <1>3, <1>4, <1>5, <1>6, <1>7, <1>8 DEF Next

\* The control state of the C128 build keeps its types whatever the program
\* does: in particular a return or a jump always finds as many locals as the
\* procedure it resumes declares, in the spill area or in the slot
\* (lp128_run.c, enter_procedure to do_return and the long jumps).
THEOREM ControlTypes == Spec => []TypeOK
<1>1. Init => Inv
  BY InitInv DEF Inv
<1>2. Inv /\ [Next]_vars => Inv'
  BY InvStep
<1>3. Inv => TypeOK
  BY DEF Inv
<1> QED
  BY <1>1, <1>2, <1>3, PTL DEF Spec

\* A slot holds the activation its SETJMP ran in until that activation
\* returns, for every bundle and without a bound on how often the 16-bit
\* counter comes round, as create_jump_snapshot steps past valid tokens.
THEOREM SlotsStayIntact == Spec => []LiveSlotsIntact
<1>1. Init => Inv
  BY InitInv DEF Inv
<1>2. Inv /\ [Next]_vars => Inv'
  BY InvStep
<1>3. Inv => LiveSlotsIntact
  BY DEF Inv
<1> QED
  BY <1>1, <1>2, <1>3, PTL DEF Spec


-----------------------------------------------------------------------------
(* The refinement of Activations: the mapping.                               *)

Frame == [proc : Proc, locals : Seq(Word), pc : PC, stk : Depth]

\* The frame a continuation on the call stack stands for.
Suspended(i) == [proc |-> calls[i].proc, locals |-> LocalsAt(i - 1),
                 pc |-> calls[i].pc, stk |-> calls[i].depth]
Running == [proc |-> proc, locals |-> locals, pc |-> pc, stk |-> stk]

FramesShape ==
  /\ Frames \in Seq(Frame) /\ Len(Frames) = Len(calls) + 1
  /\ \A i \in 1 .. Len(calls) : Frames[i] = Suspended(i)
  /\ Frames[Len(calls) + 1] = Running
  /\ calls \in Seq(Continuation) /\ Len(calls) \in Nat

\* A frame whose stack depth and address change.
LEMMA FrameExcept ==
  ASSUME NEW f \in Frame, NEW d, NEW p
  PROVE  [f EXCEPT !.stk = d, !.pc = p] = [proc |-> f.proc, locals |-> f.locals, pc |-> p, stk |-> d]
<1> DEFINE g == [f EXCEPT !.stk = d]
<1>1. f = [proc |-> f.proc, locals |-> f.locals, pc |-> f.pc, stk |-> f.stk]
  BY DEF Frame
<1>2. g = [proc |-> f.proc, locals |-> f.locals, pc |-> f.pc, stk |-> d]
  BY <1>1
<1>3. [f EXCEPT !.stk = d, !.pc = p] = [g EXCEPT !.pc = p]
  OBVIOUS
<1> HIDE DEF g
<1>4. [g EXCEPT !.pc = p] = [proc |-> f.proc, locals |-> f.locals, pc |-> p, stk |-> d]
  BY <1>2
<1> QED
  BY <1>3, <1>4

\* The mapped state is a stack of activations.
LEMMA FramesType == TypeOK => FramesShape
<1> SUFFICES ASSUME TypeOK PROVE FramesShape
  OBVIOUS
<1>1. calls \in Seq(Continuation) /\ Len(calls) \in Nat /\ Len(calls) <= CallCap
  BY DEF TypeOK
<1>2. Running \in Frame
  BY DEF TypeOK, Running, Frame
<1>3. ASSUME NEW i \in 1 .. Len(calls) PROVE Suspended(i) \in Frame
  <2>1. calls[i] \in Continuation /\ i \in 1 .. CallCap
    BY <1>1, CapAssumption
  <2>2. i - 1 # Len(calls) /\ (i - 1) + 1 = i
    BY <1>1
  <2>3. LocalsAt(i - 1) = IF LocalInit[calls[i].proc] = <<>> THEN <<>> ELSE spill[i]
    BY <2>2 DEF LocalsAt
  <2>4. LocalsAt(i - 1) \in Seq(Word)
    <3>1. spill[i] \in Seq(Word) /\ <<>> \in Seq(Word)
      BY <2>1 DEF TypeOK
    <3> QED
      BY <2>3, <3>1, Zenon
  <2> QED
    BY <2>1, <2>4 DEF Suspended, Frame, Continuation
<1>4. Frames = [i \in 1 .. Len(calls) + 1 |-> IF i <= Len(calls) THEN Suspended(i) ELSE Running]
  BY DEF Frames, Suspended, Running
<1>5. Frames \in [1 .. Len(calls) + 1 -> Frame]
  <2>1. \A i \in 1 .. Len(calls) + 1 : i <= Len(calls) => i \in 1 .. Len(calls)
    BY <1>1
  <2> QED
    BY <1>2, <1>3, <1>4, <2>1
<1>6. Frames \in Seq(Frame) /\ Len(Frames) = Len(calls) + 1
  BY <1>1, <1>5
<1>7. \A i \in 1 .. Len(calls) : Frames[i] = Suspended(i)
  BY <1>1, <1>4
<1>8. Frames[Len(calls) + 1] = Running
  BY <1>1, <1>4
<1> QED
  BY <1>1, <1>6, <1>7, <1>8 DEF FramesShape

\* A machine that starts has the entry procedure's activation alone.
LEMMA InitRefines == Init => Promise!Init
<1> SUFFICES ASSUME Init PROVE Promise!Init
  OBVIOUS
<1>1. FramesShape
  BY InitInv, FramesType
<1>2. calls = <<>> /\ Len(calls) = 0 /\ tuple = 0 /\ live = {} /\ Status = "running"
  BY DEF Init, Status
<1>3. Running = [proc |-> Main, locals |-> LocalInit[Main], pc |-> Entry[Main], stk |-> 0]
  BY DEF Init, Running
<1>4. Frames \in Seq(Frame) /\ Len(Frames) = 1 /\ Frames[1] = Running
  BY <1>1, <1>2 DEF FramesShape
<1>5. Frames = <<Running>>
  BY <1>4
<1> QED
  BY <1>2, <1>3, <1>5 DEF Promise!Init

\* A step after which the machine has stopped is allowed whatever it does.
LEMMA StopRefines ==
  ASSUME halted = "no", halted' # "no"
  PROVE  Promise!Next
BY DEF Promise!Next, Status

\* Instructions within the running activation.
LEMMA WorkRefines ==
  ASSUME TypeOK, TypeOK', Modest
  PROVE  Promise!Work
<1>1. FramesShape /\ FramesShape'
  BY FramesType, PTL
<1>2. UNCHANGED <<proc, calls, spill, live>>
  BY DEF Modest, jumpVars
<1>3. ASSUME NEW i \in 1 .. Len(calls) PROVE Suspended(i)' = Suspended(i)
  <2>1. i - 1 # Len(calls)
    BY <1>1 DEF FramesShape
  <2> QED
    BY <1>2, <2>1 DEF Suspended, LocalsAt
<1>4. /\ Frames \in Seq(Frame) /\ Frames' \in Seq(Frame)
      /\ Len(Frames) = Len(calls) + 1 /\ Len(Frames') = Len(calls) + 1
      /\ Len(calls) \in Nat
      /\ \A i \in 1 .. Len(calls) : Frames'[i] = Frames[i]
      /\ Frames[Len(calls) + 1].proc = proc /\ Frames'[Len(calls) + 1].proc = proc
  BY <1>1, <1>2, <1>3 DEF FramesShape, Running
<1>5. SubSeq(Frames', 1, Len(Frames) - 1) = SubSeq(Frames, 1, Len(Frames) - 1)
  <2>1. Len(Frames) - 1 = Len(calls) /\ Len(calls) <= Len(Frames) /\ Len(calls) <= Len(Frames')
    BY <1>4
  <2>2. SubSeq(Frames', 1, Len(calls)) = SubSeq(Frames, 1, Len(calls))
    BY <1>4, <2>1, PrefixAgree
  <2> QED
    BY <2>1, <2>2
<1> QED
  BY <1>2, <1>4, <1>5 DEF Promise!Work, Promise!Below, Promise!Top

\* A call suspends the running activation and starts another.
LEMMA CallRefines ==
  ASSUME TypeOK, TypeOK', halted' = "no", NEW q \in Proc, NEW args \in Args,
         NEW indirect \in {0, 1}, NEW return_pc \in PC, Enter(q, args, indirect, return_pc),
         halted = "no"
  PROVE  Promise!Call(q, args)
<1>0. PICK L \in Nat : L = Len(calls)
  BY DEF TypeOK
<1> DEFINE c == [proc |-> proc, pc |-> return_pc, depth |-> stk']
<1>1. FramesShape /\ FramesShape'
  BY FramesType, PTL
<1>2. calls \in Seq(Continuation) /\ L \in Nat /\ CallCap \in Nat
  BY <1>0, CapAssumption DEF TypeOK
<1>3. ~(L >= CallCap) /\ q # ExitProc
  BY <1>0 DEF Enter
<1>4. /\ calls' = Append(calls, c) /\ proc' = q /\ pc' = Entry[q]
      /\ locals' = NewLocals(q, args) /\ spill' = Spilled
      /\ UNCHANGED <<live, tuple>>
  BY <1>0, <1>3 DEF Enter, jumpVars
<1>5. L < CallCap /\ L + 1 # L
  BY <1>2, <1>3
<1>6. c \in Continuation /\ c.proc = proc /\ c.depth = stk'
  BY DEF TypeOK, Continuation
<1> HIDE DEF c
<1>7. /\ Len(calls') = L + 1 /\ \A i \in 1 .. L : calls'[i] = calls[i]
      /\ calls'[L + 1] = c
  BY <1>0, <1>2, <1>4, <1>6, AppendProperties
<1>8. /\ \A i \in 1 .. L : spill'[i] = spill[i]
      /\ locals # <<>> => spill'[L + 1] = locals
  BY <1>0, <1>4, <1>5, SpilledType
<1>9. ASSUME NEW i \in 1 .. L PROVE Suspended(i)' = Suspended(i)
  <2>1. i - 1 # L /\ i - 1 # L + 1 /\ (i - 1) + 1 = i
    BY <1>2
  <2>2. LocalsAt(i - 1)' = LocalsAt(i - 1)
    BY <1>0, <1>7, <1>8, <2>1 DEF LocalsAt
  <2> QED
    BY <1>7, <2>2 DEF Suspended
<1>10. Suspended(L + 1)' = [proc |-> proc, locals |-> locals, pc |-> c.pc, stk |-> stk']
  <2>1. (L + 1) - 1 = L
    BY <1>2
  <2>2. LocalsAt(L)' = IF LocalInit[proc] = <<>> THEN <<>> ELSE spill'[L + 1]
    BY <1>5, <1>6, <1>7 DEF LocalsAt
  <2>3. locals \in Seq(Word) /\ LocalInit[proc] \in Seq(Word) /\ Len(locals) = Len(LocalInit[proc])
    BY ProcAssumption DEF TypeOK
  <2>4. LocalsAt(L)' = locals
    BY <1>8, <2>2, <2>3
  <2> QED
    BY <1>6, <1>7, <2>1, <2>4 DEF Suspended
<1>11. /\ Frames \in Seq(Frame) /\ Frames' \in Seq(Frame)
       /\ Len(Frames) = L + 1 /\ Len(Frames') = L + 2
       /\ \A i \in 1 .. L : Frames'[i] = Frames[i]
       /\ Frames[L + 1] = Running
       /\ Frames'[L + 1] = [proc |-> proc, locals |-> locals, pc |-> c.pc, stk |-> stk']
       /\ Frames'[L + 2] = Running'
  <2>1. L + 1 \in 1 .. Len(calls') /\ Len(calls') + 1 = L + 2
    BY <1>2, <1>7
  <2>2. \A i \in 1 .. L : i \in 1 .. Len(calls')
    BY <1>2, <1>7
  <2> QED
    BY <1>0, <1>1, <1>9, <1>10, <2>1, <2>2 DEF FramesShape
<1>12. SubSeq(Frames', 1, Len(Frames) - 1) = SubSeq(Frames, 1, Len(Frames) - 1)
  <2>1. Len(Frames) - 1 = L /\ L <= Len(Frames) /\ L <= Len(Frames')
    BY <1>2, <1>11
  <2>2. SubSeq(Frames', 1, L) = SubSeq(Frames, 1, L)
    BY <1>2, <1>11, <2>1, PrefixAgree
  <2> QED
    BY <2>1, <2>2
<1>13. Running' = [proc |-> q, locals |-> NewLocals(q, args), pc |-> Entry[q], stk |-> stk']
  BY <1>4 DEF Running
<1>14. Promise!Locals(q, args) = NewLocals(q, args)
  BY DEF Promise!Locals, NewLocals
<1>15. Len(Frames') = Len(Frames) + 1 /\ Len(Frames) = L + 1 /\ Len(Frames) + 1 = L + 2
  BY <1>2, <1>11
<1> DEFINE caller == Frames'[L + 1]
<1>16. /\ caller.proc = proc /\ caller.locals = locals /\ caller.stk = stk'
       /\ Frames[L + 1].proc = proc /\ Frames[L + 1].locals = locals
  BY <1>11 DEF Running
<1> QED
  BY <1>4, <1>11, <1>12, <1>13, <1>14, <1>15, <1>16
     DEF Promise!Call, Promise!Below, Promise!Top

\* A return to a caller that runs on resumes it with the results on its stack.
LEMMA ReturnRefines ==
  ASSUME TypeOK, TypeOK', halted = "no", halted' = "no",
         NEW n \in 0 .. MaxArgs, NEW pops \in Nat, Return(n, pops)
  PROVE  Promise!Return(n)
<1>0. PICK L \in Nat : L = Len(calls)
  BY DEF TypeOK
<1>1. FramesShape /\ FramesShape'
  BY FramesType, PTL
<1>2. calls \in Seq(Continuation) /\ calls # <<>> /\ L >= 1
  BY <1>0 DEF TypeOK, Return
<1>3. PICK cont \in Continuation : cont = calls[L]
  BY <1>0, <1>2
<1>4. /\ live' = {a \in live : a.level < L} /\ UNCHANGED <<spill, tuple>>
      /\ calls' = SubSeq(calls, 1, L - 1) /\ proc' = cont.proc /\ pc' = cont.pc
      /\ locals' = IF LocalInit[cont.proc] = <<>> THEN <<>> ELSE spill[L]
  BY <1>0, <1>2, <1>3, Zenon DEF Return
<1>5. stk' = PushN(cont.depth, n) /\ ~(cont.depth + n > EvalCap)
  <2> DEFINE exits == ModuleOf[cont.proc] = ModuleOf[ExitProc] /\ cont.pc \in ExitPc
             fault == stk < pops \/ cont.depth + n > EvalCap
  <2>1. /\ stk' = IF exits THEN cont.depth ELSE PushN(cont.depth, n)
        /\ halted' = IF exits THEN "exit" ELSE IF fault THEN "fault" ELSE halted
    BY <1>0, <1>2, <1>3, Zenon DEF Return
  <2> HIDE DEF exits, fault
  <2>2. ~exits /\ ~fault
    BY <2>1
  <2> QED
    BY <2>1, <2>2 DEF fault
<1>6. stk' = cont.depth + n
  BY <1>5 DEF PushN
<1>7. /\ calls' \in Seq(Continuation) /\ Len(calls') = L - 1
      /\ \A i \in 1 .. L - 1 : calls'[i] = calls[i]
  <2>1. L - 1 \in 0 .. Len(calls)
    BY <1>0, <1>2
  <2> QED
    BY <1>2, <1>4, <2>1, PrefixProperties
<1>8. ASSUME NEW i \in 1 .. L - 1 PROVE Suspended(i)' = Suspended(i)
  <2>1. i - 1 # L /\ i - 1 # L - 1 /\ (i - 1) + 1 = i
    OBVIOUS
  <2>2. LocalsAt(i - 1)' = LocalsAt(i - 1)
    BY <1>0, <1>4, <1>7, <2>1 DEF LocalsAt
  <2> QED
    BY <1>7, <2>2 DEF Suspended
<1>9. Suspended(L) = [proc |-> cont.proc, locals |-> locals', pc |-> cont.pc, stk |-> cont.depth]
  <2>1. L - 1 # L /\ (L - 1) + 1 = L
    OBVIOUS
  <2>2. LocalsAt(L - 1) = IF LocalInit[cont.proc] = <<>> THEN <<>> ELSE spill[L]
    BY <1>0, <1>3, <2>1 DEF LocalsAt
  <2> QED
    BY <1>3, <1>4, <2>2 DEF Suspended
<1>10. Running' = [proc |-> cont.proc, locals |-> locals', pc |-> cont.pc, stk |-> cont.depth + n]
  BY <1>4, <1>6 DEF Running
<1>11. /\ Frames \in Seq(Frame) /\ Frames' \in Seq(Frame)
       /\ Len(Frames) = L + 1 /\ Len(Frames') = L
       /\ \A i \in 1 .. L - 1 : Frames'[i] = Frames[i]
       /\ Frames[L] = Suspended(L) /\ Frames'[L] = Running'
  <2>1. Len(calls') + 1 = L /\ L \in 1 .. L
    BY <1>2, <1>7
  <2>2. \A i \in 1 .. L - 1 : i \in 1 .. L
    OBVIOUS
  <2> QED
    BY <1>0, <1>1, <1>7, <1>8, <2>1, <2>2 DEF FramesShape
<1> DEFINE B == SubSeq(Frames, 1, L)
           new == [B EXCEPT ![L].stk = @ + n]
<1>12. B \in Seq(Frame) /\ Len(B) = L /\ \A i \in 1 .. L : B[i] = Frames[i]
  <2>1. L \in 0 .. Len(Frames)
    BY <1>11
  <2> QED
    BY <1>11, <2>1, PrefixProperties
<1>13. B[L] = [proc |-> cont.proc, locals |-> locals', pc |-> cont.pc, stk |-> cont.depth]
  BY <1>2, <1>9, <1>11, <1>12
<1> HIDE DEF B
<1>14. new[L] = Frames'[L]
  <2>1. new[L] = [B[L] EXCEPT !.stk = @ + n]
    BY <1>2, <1>12
  <2> QED
    BY <1>10, <1>11, <1>13, <2>1
<1>15. \A i \in 1 .. L : new[i] = Frames'[i]
  <2>1. ASSUME NEW i \in 1 .. L PROVE new[i] = Frames'[i]
    <3>1. CASE i = L
      BY <1>14, <3>1
    <3>2. CASE i # L
      <4>1. i \in 1 .. L - 1
        BY <3>2
      <4>2. new[i] = B[i]
        BY <1>12, <3>2
      <4> QED
        BY <1>11, <1>12, <4>1, <4>2
    <3> QED
      BY <3>1, <3>2
  <2> QED
    BY <2>1
<1>16. new \in Seq(Frame) /\ Len(new) = L
  <2>1. B \in [1 .. L -> Frame]
    BY <1>12
  <2>2. DOMAIN new = 1 .. L
    BY <2>1
  <2>3. new \in [1 .. L -> Frame]
    <3>1. \A i \in 1 .. L : Frames'[i] \in Frame
      BY <1>11
    <3>2. new = [i \in 1 .. L |-> new[i]]
      BY <2>2
    <3> HIDE DEF new
    <3> QED
      BY <1>15, <3>1, <3>2
  <2> HIDE DEF new
  <2> QED
    BY <2>3
<1> HIDE DEF new
<1>17. Frames' = new
  BY <1>11, <1>15, <1>16, SeqEqual
<1>18. Promise!Below = B /\ Len(Promise!Below) = L
  <2>1. Len(Frames) - 1 = L
    BY <1>11
  <2> QED
    BY <1>12, <2>1 DEF Promise!Below, B
<1>19. Frames' = [Promise!Below EXCEPT ![Len(Promise!Below)].stk = @ + n]
  BY <1>17, <1>18 DEF new
<1>20. Len(Frames) > 1 /\ Len(Frames) - 1 = L
  BY <1>2, <1>11
<1> QED
  BY <1>4, <1>19, <1>20 DEF Promise!Return

\* SETJMP makes a record no valid record can be taken for.
LEMMA SetJmpRefines ==
  ASSUME Inv, TypeOK', halted = "no", halted' = "no",
         NEW x \in PC, NEW y \in PC, NEW target \in PC, SetJmp(x, y, target)
  PROVE  \E a \in live' : Promise!SetJmp(a)
<1> DEFINE new == [token |-> FreshToken, level |-> Len(calls), stk |-> stk,
                   tuple |-> tuple, longjmp |-> x, longjmpr |-> y]
<1>0. PICK L \in Nat : L = Len(calls)
  BY DEF Inv, TypeOK
<1>1. TypeOK /\ LiveSlotsIntact /\ FramesShape /\ FramesShape'
  BY FramesType, PTL DEF Inv
<1>2. /\ live' = live \cup {new} /\ pc' = target /\ stk' = PushN(stk, 1)
      /\ UNCHANGED <<proc, locals, calls, spill, tuple>>
  BY DEF SetJmp, frameVars
<1>3. ~(stk + 1 > EvalCap)
  BY DEF SetJmp, HaltIf
<1>4. stk' = stk + 1
  BY <1>2, <1>3 DEF PushN
<1>5. FreshToken \notin InUse
  BY <1>1, FreshTokenFits DEF SetJmp
<1>6. FreshToken \notin {b.token : b \in live}
  <2>1. ASSUME NEW b \in live PROVE b.token # FreshToken
    <3>1. b.token \in Token /\ snaps[b.token] # NoSnapshot
      BY <1>1, IntactRecords, IntactFacts
    <3> QED
      BY <1>5, <3>1 DEF InUse
  <2> QED
    BY <2>1
<1>7. ASSUME NEW i \in 1 .. L PROVE Suspended(i)' = Suspended(i)
  BY <1>2 DEF Suspended, LocalsAt
<1>8. Running = [proc |-> proc, locals |-> locals, pc |-> pc, stk |-> stk]
      /\ Running' = [proc |-> proc, locals |-> locals, pc |-> target, stk |-> stk + 1]
  BY <1>2, <1>4 DEF Running
<1>9. /\ Frames \in Seq(Frame) /\ Frames' \in Seq(Frame)
      /\ Len(Frames) = L + 1 /\ Len(Frames') = L + 1
      /\ \A i \in 1 .. L : Frames'[i] = Frames[i]
      /\ Frames[L + 1] = Running /\ Frames'[L + 1] = Running'
  BY <1>0, <1>1, <1>2, <1>7 DEF FramesShape
<1> DEFINE B == SubSeq(Frames, 1, L)
           top == [Running EXCEPT !.stk = @ + 1, !.pc = target]
<1>10. B \in Seq(Frame) /\ Len(B) = L /\ \A i \in 1 .. L : B[i] = Frames[i]
  <2>1. L \in 0 .. Len(Frames)
    BY <1>9
  <2> QED
    BY <1>9, <2>1, PrefixProperties
<1>11. top = Running' /\ top \in Frame
  <2>1. top = Running'
    <3>1. Running \in Frame
      BY <1>9
    <3>2. top = [Running EXCEPT !.stk = Running.stk + 1, !.pc = target]
      OBVIOUS
    <3>3. top = [proc |-> Running.proc, locals |-> Running.locals, pc |-> target,
                 stk |-> Running.stk + 1]
      BY <3>1, <3>2, FrameExcept
    <3>4. Running.proc = proc /\ Running.locals = locals /\ Running.stk = stk
      BY DEF Running
    <3> HIDE DEF top
    <3> QED
      BY <1>8, <3>3, <3>4
  <2>2. Running' \in Frame
    BY <1>9
  <2> QED
    BY <2>1, <2>2
<1> HIDE DEF B, top
<1>12. Frames' = Append(B, top)
  <2> DEFINE A == Append(B, top)
  <2>1. /\ A \in Seq(Frame) /\ Len(A) = L + 1
        /\ \A i \in 1 .. L : A[i] = B[i]
        /\ A[L + 1] = top
    BY <1>10, <1>11, AppendProperties
  <2> HIDE DEF A
  <2>2. \A i \in 1 .. L + 1 : A[i] = Frames'[i]
    <3>1. \A i \in 1 .. L + 1 : i \in 1 .. L \/ i = L + 1
      OBVIOUS
    <3> QED
      BY <1>9, <1>10, <1>11, <2>1, <3>1
  <2>3. A = Frames'
    BY <1>9, <2>1, <2>2, SeqEqual
  <2> QED
    BY <2>3 DEF A
<1>13. Promise!Top = Running /\ Promise!Below = B /\ Len(Frames) - 1 = L
  <2>1. Len(Frames) - 1 = L
    BY <1>9
  <2> QED
    BY <1>9, <2>1 DEF Promise!Top, Promise!Below, B
<1>14. Frames'[Len(Frames)].pc = target
  BY <1>8, <1>9
<1>15. Frames' = Append(Promise!Below, [Promise!Top EXCEPT !.stk = @ + 1, !.pc = Frames'[Len(Frames)].pc])
  BY <1>12, <1>13, <1>14 DEF top
<1>16. new \in live' /\ new.token = FreshToken /\ new.level = L /\ new.stk = stk /\ new.tuple = tuple
  BY <1>0, <1>2
<1> HIDE DEF new
<1>17. Promise!SetJmp(new)
  <2>1. new.stk = Promise!Top.stk
    BY <1>8, <1>13, <1>16
  <2>2. live' = live \cup {new}
    BY <1>2
  <2> QED
    BY <1>2, <1>6, <1>13, <1>15, <1>16, <2>1, <2>2 DEF Promise!SetJmp
<1> QED
  BY <1>16, <1>17

\* A record is known by its token.
LEMMA OneRecordPerToken ==
  ASSUME Inv, NEW a \in live, NEW b \in live, a.token = b.token
  PROVE  a = b
<1>1. TypeOK /\ Intact(a) /\ Intact(b)
  BY IntactRecords DEF Inv
<1>2. a \in Record /\ b \in Record /\ a.level = b.level
  BY <1>1, IntactFacts
<1>3. a.stk = b.stk /\ a.tuple = b.tuple /\ a.longjmp = b.longjmp /\ a.longjmpr = b.longjmpr
  BY <1>1 DEF Intact
<1> QED
  BY <1>2, <1>3 DEF Record

\* A jump cuts the stack of activations to the one its record names.
LEMMA LongJmpRefines ==
  ASSUME Inv, TypeOK', halted = "no", halted' = "no",
         NEW t \in Token, NEW n \in {0, 1}, Usable(t), LongJmp(t, n)
  PROVE  \E a \in live : Promise!LongJmp(a, n)
<1>1. PICK a \in live : a.token = t /\ snaps[t].locals = LocalsAt(a.level)
  BY DEF Usable
<1>2. TypeOK /\ LiveSlotsIntact /\ FramesShape /\ FramesShape' /\ Intact(a)
  <2>1. TypeOK /\ LiveSlotsIntact
    BY DEF Inv
  <2>2. FramesShape /\ FramesShape'
    BY <2>1, FramesType, PTL
  <2> QED
    BY <2>1, <2>2, IntactRecords
<1>3. PICK s \in Snapshot : s = snaps[t]
  BY <1>1, <1>2, IntactFacts
<1>4. /\ proc' = s.proc /\ locals' = s.locals /\ calls' = s.calls /\ tuple' = s.tuple
      /\ pc' = IF n = 1 THEN s.longjmpr ELSE s.longjmp
      /\ stk' = PushN(s.stk, n) /\ spill' = spill
      /\ live' = {b \in live : b.level <= Len(s.calls) /\ b.token # t}
  BY <1>1, <1>3 DEF LongJmp
<1>5. stk' = s.stk + n
  <2>1. ~(s.stk + n > EvalCap)
    BY <1>3 DEF LongJmp, HaltIf
  <2> QED
    BY <1>4, <2>1 DEF PushN
<1>6. PICK l \in Nat : l = a.level
  BY <1>2, IntactFacts
<1>7. PICK L \in Nat : L = Len(calls)
  BY <1>2 DEF TypeOK
<1>8. /\ l <= L /\ s.calls \in Seq(Continuation) /\ Len(s.calls) = l
      /\ \A i \in 1 .. l : s.calls[i] = calls[i]
      /\ s.proc = ProcAt(l) /\ s.locals = LocalsAt(l)
      /\ s.stk = a.stk /\ s.tuple = a.tuple /\ s.longjmp = a.longjmp /\ s.longjmpr = a.longjmpr
  <2>1. /\ a.level \in 0 .. Len(calls)
        /\ snaps[a.token].calls \in Seq(Continuation) /\ Len(snaps[a.token].calls) = a.level
        /\ \A i \in 1 .. a.level : snaps[a.token].calls[i] = calls[i]
    BY <1>2, IntactFacts
  <2> QED
    BY <1>1, <1>2, <1>3, <1>6, <1>7, <2>1 DEF Intact
<1>9. ASSUME NEW i \in 1 .. l PROVE Suspended(i)' = Suspended(i)
  <2>1. /\ i - 1 # l /\ i - 1 # L /\ (i - 1) + 1 = i
        /\ Len(calls') = l /\ calls'[i] = calls[i]
    BY <1>4, <1>8
  <2>2. LocalsAt(i - 1)' = LocalsAt(i - 1)
    BY <1>4, <1>7, <2>1 DEF LocalsAt
  <2> QED
    BY <2>1, <2>2 DEF Suspended
<1>10. PICK f \in Frame : f = Frames[l + 1]
  BY <1>2, <1>7, <1>8 DEF FramesShape
<1>11. f.proc = s.proc /\ f.locals = s.locals
  <2>1. CASE l = L
    <3>1. f = Running
      BY <1>2, <1>7, <1>10, <2>1 DEF FramesShape
    <3>2. ProcAt(l) = proc /\ LocalsAt(l) = locals
      BY <1>7, <2>1 DEF ProcAt, LocalsAt
    <3> QED
      BY <1>8, <3>1, <3>2 DEF Running
  <2>2. CASE l < L
    <3>1. l + 1 \in 1 .. Len(calls) /\ (l + 1) - 1 = l
      BY <1>7, <2>2
    <3>2. f = Suspended(l + 1)
      BY <1>2, <1>10, <3>1 DEF FramesShape
    <3>3. ProcAt(l) = calls[l + 1].proc
      BY <1>7, <2>2 DEF ProcAt
    <3>4. f.proc = calls[l + 1].proc /\ f.locals = LocalsAt(l)
      BY <3>1, <3>2 DEF Suspended
    <3> QED
      BY <1>8, <3>3, <3>4
  <2> QED
    BY <1>8, <2>1, <2>2
<1> DEFINE landing == IF n = 1 THEN a.longjmpr ELSE a.longjmp
           top == [f EXCEPT !.stk = a.stk + n, !.pc = landing]
           B == SubSeq(Frames, 1, l + 1)
           new == [B EXCEPT ![l + 1].stk = a.stk + n, ![l + 1].pc = landing]
<1>12. top = Running'
  <2>1. Running' = [proc |-> s.proc, locals |-> s.locals, pc |-> landing, stk |-> a.stk + n]
    BY <1>4, <1>5, <1>8 DEF Running
  <2>2. top = [proc |-> f.proc, locals |-> f.locals, pc |-> landing, stk |-> a.stk + n]
    BY FrameExcept
  <2> QED
    BY <1>11, <2>1, <2>2
<1>13. /\ Frames \in Seq(Frame) /\ Frames' \in Seq(Frame)
       /\ Len(Frames) = L + 1 /\ Len(Frames') = l + 1
       /\ \A i \in 1 .. l : Frames'[i] = Frames[i]
       /\ Frames'[l + 1] = Running'
  <2>1. Len(calls') = l /\ \A i \in 1 .. l : i \in 1 .. L
    BY <1>4, <1>8
  <2> QED
    BY <1>2, <1>7, <1>9, <2>1 DEF FramesShape
<1>14. B \in Seq(Frame) /\ Len(B) = l + 1 /\ \A i \in 1 .. l + 1 : B[i] = Frames[i]
  <2>1. l + 1 \in 0 .. Len(Frames)
    BY <1>8, <1>13
  <2> QED
    BY <1>13, <2>1, PrefixProperties
<1> HIDE DEF landing, B
<1>15. B \in [1 .. l + 1 -> Frame] /\ l + 1 \in 1 .. l + 1 /\ B[l + 1] = f
  BY <1>10, <1>14
<1>16. new = [B EXCEPT ![l + 1] = top]
  BY <1>15
<1> HIDE DEF top
<1>17. new \in [1 .. l + 1 -> Frame]
  <2>1. top \in Frame
    BY <1>12, <1>13
  <2> HIDE DEF new
  <2> QED
    BY <1>15, <1>16, <2>1
<1>18. \A i \in 1 .. l + 1 : new[i] = Frames'[i]
  <2> HIDE DEF new
  <2>1. ASSUME NEW i \in 1 .. l + 1 PROVE new[i] = Frames'[i]
    <3>1. CASE i = l + 1
      BY <1>12, <1>13, <1>15, <1>16, <3>1
    <3>2. CASE i # l + 1
      <4>1. i \in 1 .. l
        BY <3>2
      <4> QED
        BY <1>13, <1>14, <1>15, <1>16, <3>2, <4>1
    <3> QED
      BY <3>1, <3>2
  <2> QED
    BY <2>1
<1> HIDE DEF new
<1>19. Frames' = new
  <2>1. new \in Seq(Frame) /\ Len(new) = l + 1
    BY <1>17
  <2> QED
    BY <1>13, <1>18, <2>1, SeqEqual
<1>20. live' = {b \in live \ {a} : b.level <= l}
  <2>1. \A b \in live : b.token = t => b = a
    BY <1>1, OneRecordPerToken
  <2> QED
    BY <1>1, <1>4, <1>8, <2>1
<1>21. Frames' = [SubSeq(Frames, 1, a.level + 1) EXCEPT
                    ![a.level + 1].stk = a.stk + n,
                    ![a.level + 1].pc = IF n = 1 THEN a.longjmpr ELSE a.longjmp]
  BY <1>6, <1>19 DEF new, B, landing
<1>22. tuple' = a.tuple
  BY <1>4, <1>8
<1>23. Promise!LongJmp(a, n)
  BY <1>6, <1>20, <1>21, <1>22 DEF Promise!LongJmp
<1> QED
  BY <1>23

-----------------------------------------------------------------------------
(* The refinement.                                                          *)

\* Every step is one of a stack of activations.
LEMMA StepRefines ==
  ASSUME Inv, [Next]_vars
  PROVE  [Promise!Next]_(Promise!vars)
<1>1. TypeOK /\ TypeOK' /\ LiveSlotsIntact
  <2>1. Inv'
    BY InvStep
  <2> QED
    BY <2>1 DEF Inv
<1>2. CASE UNCHANGED vars
  <2>1. Frames' = Frames
    BY <1>2 DEF vars, Frames, LocalsAt
  <2>2. Status' = Status /\ live' = live /\ tuple' = tuple
    BY <1>2 DEF vars, Status
  <2> QED
    BY <2>1, <2>2 DEF Promise!vars
<1>3. CASE Next /\ halted' # "no"
  BY <1>3, StopRefines DEF Next
<1>4. CASE Next /\ halted' = "no"
  <2>1. halted = "no" /\ Status = "running" /\ Status' = "running"
    BY <1>4 DEF Next, Status
  <2>2. ASSUME Modest PROVE Promise!Next
    BY <1>1, <2>1, <2>2, WorkRefines DEF Promise!Next
  <2>3. ASSUME Calls PROVE Promise!Next
    <3>1. PICK q \in Proc, args \in Args, indirect \in {0, 1}, return_pc \in PC :
            Enter(q, args, indirect, return_pc)
      BY <2>3, ProcAssumption DEF Calls, NearCall, FarCall
    <3>2. Promise!Call(q, args)
      BY <1>1, <1>4, <2>1, <3>1, CallRefines
    <3> QED
      BY <2>1, <3>2 DEF Promise!Next
  <2>4. ASSUME Returns PROVE Promise!Next
    <3>1. PICK n \in 0 .. MaxArgs : Return(n, n) \/ Return(n, 0)
      BY <2>4 DEF Returns
    <3>2. n \in Nat /\ 0 \in Nat
      BY CapAssumption
    <3>3. Promise!Return(n)
      BY <1>1, <1>4, <2>1, <3>1, <3>2, ReturnRefines
    <3> QED
      BY <2>1, <3>3 DEF Promise!Next
  <2>5. ASSUME SetJmps PROVE Promise!Next
    <3>1. PICK x \in PC, y \in PC, target \in PC : SetJmp(x, y, target)
      BY <2>5, ProcAssumption DEF SetJmps
    <3>2. \E a \in live' : Promise!SetJmp(a)
      BY <1>1, <1>4, <2>1, <3>1, SetJmpRefines
    <3> QED
      BY <2>1, <3>2 DEF Promise!Next
  <2>6. ASSUME NEW t \in Token, NEW n \in {0, 1}, Usable(t), LongJmp(t, n) PROVE Promise!Next
    <3>1. \E a \in live : Promise!LongJmp(a, n)
      BY <1>1, <1>4, <2>1, <2>6, LongJmpRefines
    <3> QED
      BY <2>1, <3>1 DEF Promise!Next
  <2>7. Straight \/ (\E t \in Token, n \in {0, 1} : Usable(t) /\ LongJmp(t, n))
    BY <1>4 DEF Next
  <2>8. Straight => Modest \/ Calls \/ Returns \/ SetJmps
    BY <1>1, StraightSteps
  <2> QED
    BY <2>2, <2>3, <2>4, <2>5, <2>6, <2>7, <2>8
<1> QED
  BY <1>2, <1>3, <1>4

\* Calls, returns and jumps of the C128 build are those of a stack of
\* activations, for every bundle, every capacity and every token counter: the
\* spill area holds the locals of each suspended activation, though jumps
\* restore the call stack and leave the spill area alone (lp128_run.c,
\* spill_frame_locals, do_return and the long jumps).
THEOREM RefinesActivations == Spec => ImplementsActivations
<1>1. Init => Inv
  BY InitInv DEF Inv
<1>2. Inv /\ [Next]_vars => Inv'
  BY InvStep
<1>3. Init => Promise!Init
  BY InitRefines
<1>4. Inv /\ [Next]_vars => [Promise!Next]_(Promise!vars)
  BY StepRefines
<1> QED
  BY <1>1, <1>2, <1>3, <1>4, PTL DEF Spec, ImplementsActivations, Promise!Spec
=============================================================================
