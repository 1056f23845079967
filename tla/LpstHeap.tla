------------------------------ MODULE LpstHeap ------------------------------
(***************************************************************************)
(* The RAM of the LinchpinST virtual machine: the vector allocator with    *)
(* its two bump arenas and its one-block free list per size, and the tuple *)
(* stack that grows down towards the high arena (lpst_run_runtime.c,       *)
(* lpst_vm.c, the VALLOC .. TPOP cases of lpst_run.c).                     *)
(*                                                                         *)
(* Positions are bytes, as in the code; ram is indexed by word because     *)
(* every position is even.  The program keeps to section 4.3 of            *)
(* doc/vm-specification.md: it frees, reads and writes only what it holds, *)
(* and frees a vector with the word count it asked for.                    *)
(***************************************************************************)
EXTENDS Integers, Sequences, FiniteSets

CONSTANTS
  SegmentBytes,   \* LPST_SEGMENT_SIZE_BYTES
  ReserveBytes,   \* LPST_TUPLE_STACK_RESERVE_BYTES
  Buckets,        \* LPST_FREE_LIST_BUCKETS
  ImageBytes,     \* initial_ram_size
  Value, Zero,    \* what a word may hold
  Header,         \* the words lpst_seed_arena writes, and those of the image
  Request,        \* the word counts the program asks for
  MaxSaved,       \* bound on the tuple pointers SETJMP holds
  MaxMarked       \* bound on the words that hold what the program stored

FullBytes == 2 * SegmentBytes
Floor == FullBytes - ReserveBytes   \* tuple_stack_floor_byte

\* lpst_seed_arena refuses an image that leaves no room for its header.
ASSUME LayoutAssumption ==
  /\ SegmentBytes \in Nat /\ SegmentBytes % 2 = 0
  /\ ReserveBytes \in 0 .. SegmentBytes /\ ReserveBytes % 2 = 0
  /\ ImageBytes \in Nat \ {0} /\ 2 * ((ImageBytes + 1) \div 2) + 10 <= SegmentBytes
  /\ Buckets \in Nat /\ Request \subseteq Nat /\ MaxSaved \in Nat
  /\ MaxMarked \in Nat

ASSUME ValueAssumption == Zero \in Value /\ Header \in Value

VARIABLES
  next_low_arena_byte, next_high_arena_byte, tuple_stack_byte,
  free_list,   \* 1 .. Buckets -> position of the freed block, 0 if none
  ram,         \* word number -> contents
  halted,      \* is_halted: a failed allocation sets it
  saved,       \* tuple_stack_byte in the jump snapshots
  vectors,     \* history: [handle, words] of the vectors the program holds
  tuples,      \* history: the same of the tuples it holds
  given        \* history: the initial words the last instruction popped

vars == <<next_low_arena_byte, next_high_arena_byte, tuple_stack_byte,
          free_list, ram, halted, saved, vectors, tuples, given>>

arenaVars == <<next_low_arena_byte, next_high_arena_byte, free_list>>

-----------------------------------------------------------------------------
(* Handles.                                                                 *)

\* The segment bit and the word number in the segment.
EncodeHandle(at) ==
  IF at >= SegmentBytes THEN SegmentBytes \div 2 + (at - SegmentBytes) \div 2
                        ELSE at \div 2

\* handle_to_byte_offset
HandleToByteOffset(h) ==
  IF h >= SegmentBytes \div 2 THEN SegmentBytes + 2 * (h - SegmentBytes \div 2)
                              ELSE 2 * h

\* LPST_FALSE_SENTINEL, 0x8001: also the second word of the high segment.
False == SegmentBytes \div 2 + 1

\* A request for no words takes one.
Words(n) == IF n > 0 THEN n ELSE 1
Size(n) == 2 * Words(n)

Handle == 0 .. SegmentBytes - 1
Aggregate == [handle : Handle, words : Nat]

\* The words of n words at position `at`.
WordsAt(at, n) == at \div 2 .. at \div 2 + Words(n) - 1

\* zero_ram_bytes, and the same left out.
NotZeroed(at, n) == ram

ZeroRamBytes(at, n) == [x \in DOMAIN ram |-> IF x \in WordsAt(at, n) THEN Zero ELSE ram[x]]

\* A block of n words as the program finds it: with the words ws that VALLOCI
\* or TALLOCI popped, or with zeroes.  An aggregate without a handle is zeroed,
\* and its words stay on the evaluation stack.
NewBlock(at, n, ws) ==
  /\ given' = IF EncodeHandle(at) = False THEN <<>> ELSE ws
  /\ ram' = LET zeroed == ZeroRamBytes(at, n) IN
       [x \in DOMAIN ram |-> LET i == x - at \div 2 + 1 IN
          IF i \in DOMAIN given' THEN given'[i] ELSE zeroed[x]]

TypeOK ==
  /\ {next_low_arena_byte, next_high_arena_byte, tuple_stack_byte} \subseteq 0 .. FullBytes
  /\ free_list \in [1 .. Buckets -> 0 .. FullBytes]
  /\ ram \in [0 .. SegmentBytes - 1 -> Value]
  /\ halted \in BOOLEAN
  /\ saved \in Seq(0 .. FullBytes) /\ Len(saved) <= MaxSaved
  /\ vectors \subseteq Aggregate /\ tuples \subseteq Aggregate
  /\ given \in Seq(Value)

LowArena == 2 * ((ImageBytes + 1) \div 2)

\* lpst_seed_arena writes words 0, 1, 3 and 4 of an arena, the first with zero.
SeededRam ==
  [x \in 0 .. SegmentBytes - 1 |->
     IF \/ x < LowArena \div 2
        \/ x \in {at \div 2 + i : at \in {LowArena, SegmentBytes}, i \in {1, 3, 4}}
       THEN Header ELSE Zero]

Init ==
  /\ next_low_arena_byte = LowArena
  /\ next_high_arena_byte = SegmentBytes
  /\ tuple_stack_byte = FullBytes
  /\ free_list = [n \in 1 .. Buckets |-> 0]
  /\ ram = SeededRam
  /\ halted = FALSE
  /\ saved = <<>> /\ vectors = {} /\ tuples = {} /\ given = <<>>

-----------------------------------------------------------------------------
(* Vectors.                                                                 *)

Cached(n) == n \in 1 .. Buckets /\ free_list[n] # 0

FitsLow(n) == next_low_arena_byte + Size(n) <= SegmentBytes

FitsHigh(n) == next_high_arena_byte + Size(n) <= Floor

\* The block that allocate_vector takes, if it takes one.
Position(n) ==
  IF Cached(n) THEN free_list[n]
  ELSE IF FitsLow(n) THEN next_low_arena_byte ELSE next_high_arena_byte

\* The bucket is left holding the block it has just handed out.
NotTaken(n) == UNCHANGED free_list

Taken(n) ==
  free_list' = IF Cached(n) THEN [free_list EXCEPT ![n] = 0] ELSE free_list

\* VALLOC and VALLOCI with their words ws: the program holds the vector unless its handle is
\* FALSE, which halts the machine.
AllocateVector(n, ws) ==
  LET at == Position(n) IN
    /\ Cached(n) \/ FitsLow(n) \/ FitsHigh(n)
    /\ Taken(n)
    /\ next_low_arena_byte' =
         next_low_arena_byte + (IF ~Cached(n) /\ FitsLow(n) THEN Size(n) ELSE 0)
    /\ next_high_arena_byte' =
         next_high_arena_byte + (IF ~Cached(n) /\ ~FitsLow(n) THEN Size(n) ELSE 0)
    /\ NewBlock(at, n, ws)
    /\ halted' = (EncodeHandle(at) = False)
    /\ vectors' = IF EncodeHandle(at) = False THEN vectors
                  ELSE vectors \cup {[handle |-> EncodeHandle(at), words |-> n]}
    /\ UNCHANGED <<tuple_stack_byte, saved, tuples>>

OutOfMemory(n) ==
  /\ ~Cached(n) /\ ~FitsLow(n) /\ ~FitsHigh(n)
  /\ halted' = TRUE
  /\ given' = <<>>
  /\ UNCHANGED <<arenaVars, tuple_stack_byte, ram, saved, vectors, tuples>>

\* VFREE: a block is kept if the bucket of its size is empty, and lost if not.
ReleaseVector(h, n) ==
  /\ [handle |-> h, words |-> n] \in vectors
  /\ vectors' = vectors \ {[handle |-> h, words |-> n]}
  /\ free_list' = IF n \in 1 .. Buckets /\ free_list[n] = 0
                    THEN [free_list EXCEPT ![n] = HandleToByteOffset(h)]
                    ELSE free_list
  /\ given' = <<>>
  /\ UNCHANGED <<next_low_arena_byte, next_high_arena_byte, tuple_stack_byte,
                 ram, halted, saved, tuples>>

-----------------------------------------------------------------------------
(* Tuples.                                                                  *)

FitsTuple(n) == tuple_stack_byte - Size(n) >= Floor

\* TALLOC and TALLOCI
AllocateTuple(n, ws) ==
  LET at == tuple_stack_byte - Size(n) IN
    /\ FitsTuple(n)
    /\ tuple_stack_byte' = at
    /\ NewBlock(at, n, ws)
    /\ halted' = (EncodeHandle(at) = False)
    /\ tuples' = IF EncodeHandle(at) = False THEN tuples
                 ELSE tuples \cup {[handle |-> EncodeHandle(at), words |-> n]}
    /\ UNCHANGED <<arenaVars, saved, vectors>>

TupleOverflow(n) ==
  /\ ~FitsTuple(n)
  /\ halted' = TRUE
  /\ given' = <<>>
  /\ UNCHANGED <<arenaVars, tuple_stack_byte, ram, saved, vectors, tuples>>

\* What is left of the tuples when the pointer moves to `at`.
TuplesAbove(at) == {t \in tuples : HandleToByteOffset(t.handle) >= at}

\* The comparison with the top of RAM left out of TPOP.
Unclamped(at) == at

Clamp(at) == IF at > FullBytes THEN FullBytes ELSE at

\* TPOP: any word count.
PopTuple(n) ==
  /\ tuple_stack_byte' = Clamp(tuple_stack_byte + Size(n))
  /\ tuples' = TuplesAbove(tuple_stack_byte')
  /\ given' = <<>>
  /\ UNCHANGED <<arenaVars, ram, halted, saved, vectors>>

\* SETJMP keeps the pointer in its snapshot.
SaveTuple ==
  /\ Len(saved) < MaxSaved
  /\ saved' = Append(saved, tuple_stack_byte)
  /\ given' = <<>>
  /\ UNCHANGED <<arenaVars, tuple_stack_byte, ram, halted, vectors, tuples>>

\* LONGJMP puts it back, above or below where it is now.
RestoreTuple(i) ==
  /\ tuple_stack_byte' = saved[i]
  /\ tuples' = TuplesAbove(saved[i])
  /\ saved' = SubSeq(saved, 1, i - 1) \o SubSeq(saved, i + 1, Len(saved))
  /\ given' = <<>>
  /\ UNCHANGED <<arenaVars, ram, halted, vectors>>

-----------------------------------------------------------------------------
\* VPUTW and VPUTW_: the word count of an aggregate of no words is one.
WriteAggregateWord(h, i, w) ==
  /\ ram' = [ram EXCEPT ![HandleToByteOffset(h) \div 2 + i - 1] = w]
  /\ given' = <<>>
  /\ UNCHANGED <<arenaVars, tuple_stack_byte, halted, saved, vectors, tuples>>

Marked == {x \in DOMAIN ram : ram[x] \notin {Zero, Header}}

\* No words for VALLOC and TALLOC, n for VALLOCI and TALLOCI.
Popped(n) ==
  {<<>>} \cup {ws \in [1 .. n -> Value \ {Header}] :
               Cardinality({i \in 1 .. n : ws[i] # Zero}) + Cardinality(Marked) <= MaxMarked}

VectorStep ==
  \/ \E n \in Request : OutOfMemory(n) \/ \E ws \in Popped(n) : AllocateVector(n, ws)
  \/ \E v \in vectors : ReleaseVector(v.handle, v.words)

TupleStep ==
  \/ \E n \in Request : \/ TupleOverflow(n) \/ PopTuple(n)
                        \/ \E ws \in Popped(n) : AllocateTuple(n, ws)
  \/ SaveTuple
  \/ \E i \in 1 .. Len(saved) : RestoreTuple(i)

StoreStep ==
  \E a \in vectors \cup tuples, w \in Value \ {Header} :
    /\ w = Zero \/ Cardinality(Marked) < MaxMarked
    /\ \E i \in 1 .. Words(a.words) : WriteAggregateWord(a.handle, i, w)

Next == ~halted /\ (VectorStep \/ TupleStep \/ StoreStep)

Spec == Init /\ [][Next]_vars

-----------------------------------------------------------------------------
(* Safety.                                                                  *)

\* What the positions of a block may be.
Blocks(held) == {[at |-> HandleToByteOffset(a.handle), words |-> a.words] : a \in held}
FreeBlocks == {[at |-> free_list[n], words |-> n] : n \in {m \in 1 .. Buckets : free_list[m] # 0}}
Apart(a, b) == a.at + Size(a.words) <= b.at \/ b.at + Size(b.words) <= a.at

\* Freed blocks and held vectors never overlap, whatever the sizes and the
\* order of VALLOC and VFREE, and each lies within what one arena has handed
\* out, so no vector straddles the segments or reaches the tuple stack:
\* allocate_vector, release_vector and the tuple floor.
VectorsApart ==
  LET blocks == Blocks(vectors) \cup FreeBlocks IN
    /\ \A b \in blocks :
         \/ b.at >= LowArena /\ b.at + Size(b.words) <= next_low_arena_byte
         \/ b.at >= SegmentBytes /\ b.at + Size(b.words) <= next_high_arena_byte
    /\ \A a, b \in blocks : a = b \/ Apart(a, b)
    /\ Blocks(vectors) \cap FreeBlocks = {}
    /\ next_low_arena_byte <= SegmentBytes /\ next_high_arena_byte <= Floor
    /\ Floor <= tuple_stack_byte

\* The tuples the program holds are above the pointer and do not overlap,
\* though TPOP may cut one in two and LONGJMP may move the pointer down.
TuplesApart ==
  /\ \A t \in Blocks(tuples) : t.at >= tuple_stack_byte /\ t.at + Size(t.words) <= FullBytes
  /\ \A s, t \in Blocks(tuples) : s = t \/ Apart(s, t)

Contents(held) ==
  [h \in {a.handle : a \in held} |->
     LET a == CHOOSE b \in held : b.handle = h IN
       [i \in 1 .. Words(a.words) |-> ram[HandleToByteOffset(h) \div 2 + i - 1]]]

Status == IF halted THEN "stopped" ELSE "running"

Promise == INSTANCE Vectors WITH
  vectors <- Contents(vectors), tuples <- Contents(tuples), status <- Status

\* Vectors and tuples keep their words until they are freed or popped, and
\* new ones hold zeroes, across reuse from the free list, TPOP and LONGJMP.
ImplementsVectors == Promise!Spec
=============================================================================
