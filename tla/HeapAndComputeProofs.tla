------------------------ MODULE HeapAndComputeProofs -------------------------
(***************************************************************************)
(* The heap of vectors of LinchpinST: its types, that no two blocks the    *)
(* program holds or has freed overlap, and that it implements Vectors, for *)
(* every size of memory and every request.  And the instructions that      *)
(* compute: arithmetic, jumps, bit fields, text and the comparison of      *)
(* strings, of which MCOperators takes samples at the edges of each width, *)
(* for every operand.                                                      *)
(***************************************************************************)
EXTENDS LpstHeap, Operators, SequenceTheorems, WellFoundedInduction, TLAPS

-----------------------------------------------------------------------------
(* Positions and handles.                                                   *)

\* The layout of memory, as plain inequalities.
LEMMA Layout ==
  /\ SegmentBytes \in Nat /\ Floor \in Nat /\ FullBytes \in Nat /\ LowArena \in Nat
  /\ SegmentBytes % 2 = 0 /\ Floor % 2 = 0 /\ FullBytes % 2 = 0 /\ LowArena % 2 = 0
  /\ 2 <= LowArena /\ LowArena <= SegmentBytes
  /\ SegmentBytes <= Floor /\ Floor <= FullBytes /\ FullBytes = 2 * SegmentBytes
<1>1. SegmentBytes \in Nat /\ SegmentBytes % 2 = 0 /\ ReserveBytes \in Nat
      /\ ReserveBytes <= SegmentBytes /\ ReserveBytes % 2 = 0
      /\ ImageBytes \in Nat /\ ImageBytes >= 1 /\ 2 * ((ImageBytes + 1) \div 2) + 10 <= SegmentBytes
  BY LayoutAssumption
<1>2. FullBytes = 2 * SegmentBytes /\ Floor = 2 * SegmentBytes - ReserveBytes
  BY DEF FullBytes, Floor
<1>3. (ImageBytes + 1) \div 2 \in Nat /\ (ImageBytes + 1) \div 2 >= 1
  BY <1>1
<1>4. LowArena \in Nat /\ LowArena % 2 = 0 /\ 2 <= LowArena /\ LowArena <= SegmentBytes
  BY <1>1, <1>3 DEF LowArena
<1>5. Floor \in Nat /\ Floor % 2 = 0 /\ FullBytes % 2 = 0
  BY <1>1, <1>2
<1> QED
  BY <1>1, <1>2, <1>4, <1>5

\* A block is a positive, even number of bytes.
LEMMA SizeFacts ==
  ASSUME NEW n \in Nat
  PROVE  Size(n) \in Nat /\ Size(n) >= 2 /\ Size(n) % 2 = 0
BY DEF Size, Words

\* Sums of even numbers are even.
LEMMA EvenSum ==
  ASSUME NEW a \in Nat, NEW b \in Nat, a % 2 = 0, b % 2 = 0
  PROVE  (a + b) % 2 = 0
OBVIOUS

\* encode_handle and handle_to_byte_offset are inverse on even positions.
LEMMA RoundTrip ==
  ASSUME NEW at \in Nat, at % 2 = 0, at < FullBytes
  PROVE  EncodeHandle(at) \in Handle /\ HandleToByteOffset(EncodeHandle(at)) = at
<1>1. SegmentBytes \in Nat /\ SegmentBytes % 2 = 0 /\ at < 2 * SegmentBytes
  BY Layout
<1>2. CASE at >= SegmentBytes
  <2>1. EncodeHandle(at) = SegmentBytes \div 2 + (at - SegmentBytes) \div 2
    BY <1>2 DEF EncodeHandle
  <2>2. EncodeHandle(at) \in Nat /\ EncodeHandle(at) >= SegmentBytes \div 2
        /\ EncodeHandle(at) <= SegmentBytes - 1
    BY <1>1, <1>2, <2>1
  <2>3. 2 * ((at - SegmentBytes) \div 2) = at - SegmentBytes
    BY <1>1, <1>2
  <2> QED
    BY <1>1, <1>2, <2>1, <2>2, <2>3 DEF HandleToByteOffset, Handle
<1>3. CASE at < SegmentBytes
  <2>1. EncodeHandle(at) = at \div 2 /\ 2 * (at \div 2) = at
    BY <1>1, <1>3 DEF EncodeHandle
  <2>2. at \div 2 < SegmentBytes \div 2 /\ at \div 2 \in Nat
    BY <1>1, <1>3
  <2> QED
    BY <1>1, <2>1, <2>2 DEF HandleToByteOffset, Handle
<1> QED
  BY <1>1, <1>2, <1>3

\* Every handle names an even position in RAM, and no two the same.
LEMMA Offsets ==
  ASSUME NEW h \in Handle
  PROVE  /\ HandleToByteOffset(h) \in Nat /\ HandleToByteOffset(h) % 2 = 0
         /\ HandleToByteOffset(h) < FullBytes
         /\ \A g \in Handle : HandleToByteOffset(g) = HandleToByteOffset(h) => g = h
<1>1. SegmentBytes \in Nat /\ SegmentBytes % 2 = 0 /\ FullBytes = 2 * SegmentBytes
  BY Layout
<1>2. h \in Nat /\ h < SegmentBytes
  BY <1>1 DEF Handle
<1>3. \A g \in Handle : g \in Nat /\ g < SegmentBytes
  BY <1>1 DEF Handle
<1> QED
  BY <1>1, <1>2, <1>3 DEF HandleToByteOffset

-----------------------------------------------------------------------------
(* Sets of blocks.                                                          *)

Block == [at : Nat, words : Nat]

InArenas(b, low, high) ==
  \/ b.at >= LowArena /\ b.at + Size(b.words) <= low
  \/ b.at >= SegmentBytes /\ b.at + Size(b.words) <= high

\* VectorsApart of any held and free blocks and any ends of the arenas.
Separate(held, free, low, high) ==
  /\ \A b \in held \cup free : InArenas(b, low, high)
  /\ \A a, b \in held \cup free : a = b \/ Apart(a, b)
  /\ held \cap free = {}

\* Blocks that are given up, or that go from one side to the other.
LEMMA Fewer ==
  ASSUME NEW held, NEW free, NEW low, NEW high, Separate(held, free, low, high),
         NEW held2, NEW free2, held2 \cup free2 \subseteq held \cup free,
         held2 \cap free2 = {}
  PROVE  Separate(held2, free2, low, high)
BY DEF Separate

\* A block cut from the low arena.
LEMMA CutLow ==
  ASSUME NEW held \in SUBSET Block, NEW free \in SUBSET Block, NEW low \in Nat, NEW high \in Nat,
         Separate(held, free, low, high), LowArena <= low, SegmentBytes <= high,
         NEW n \in Nat, low + Size(n) <= SegmentBytes
  PROVE  /\ Separate(held \cup {[at |-> low, words |-> n]}, free, low + Size(n), high)
         /\ Separate(held, free, low + Size(n), high)
<1> DEFINE new == [at |-> low, words |-> n]
<1>0. /\ SegmentBytes \in Nat /\ LowArena \in Nat
      /\ \A b \in held \cup free : b.at \in Nat /\ b.words \in Nat
      /\ new.at = low /\ new.words = n
  BY Layout DEF Block
<1>1. \A b \in held \cup free : Size(b.words) \in Nat /\ Size(b.words) >= 2
  BY <1>0, SizeFacts
<1>2. Size(n) \in Nat /\ Size(n) >= 2
  BY SizeFacts
<1> HIDE DEF new
<1>3. \A b \in held \cup free : InArenas(b, low, high)
  BY DEF Separate
<1>4. \A b \in held \cup free : InArenas(b, low + Size(n), high)
  BY <1>0, <1>1, <1>2, <1>3 DEF InArenas
<1>5. InArenas(new, low + Size(n), high)
  BY <1>0, <1>2 DEF InArenas
<1>6. \A b \in held \cup free : Apart(b, new) /\ Apart(new, b) /\ b # new
  BY <1>0, <1>1, <1>2, <1>3 DEF InArenas, Apart
<1>7. Separate(held \cup {new}, free, low + Size(n), high)
  BY <1>4, <1>5, <1>6 DEF Separate
<1> QED
  BY <1>4, <1>7 DEF Separate, new

\* A block cut from the high arena.
LEMMA CutHigh ==
  ASSUME NEW held \in SUBSET Block, NEW free \in SUBSET Block, NEW low \in Nat, NEW high \in Nat,
         Separate(held, free, low, high), low <= SegmentBytes, SegmentBytes <= high,
         NEW n \in Nat
  PROVE  /\ Separate(held \cup {[at |-> high, words |-> n]}, free, low, high + Size(n))
         /\ Separate(held, free, low, high + Size(n))
<1> DEFINE new == [at |-> high, words |-> n]
<1>0. /\ SegmentBytes \in Nat /\ LowArena \in Nat
      /\ \A b \in held \cup free : b.at \in Nat /\ b.words \in Nat
      /\ new.at = high /\ new.words = n
  BY Layout DEF Block
<1>1. \A b \in held \cup free : Size(b.words) \in Nat /\ Size(b.words) >= 2
  BY <1>0, SizeFacts
<1>2. Size(n) \in Nat /\ Size(n) >= 2
  BY SizeFacts
<1> HIDE DEF new
<1>3. \A b \in held \cup free : InArenas(b, low, high)
  BY DEF Separate
<1>4. \A b \in held \cup free : InArenas(b, low, high + Size(n))
  BY <1>0, <1>1, <1>2, <1>3 DEF InArenas
<1>5. InArenas(new, low, high + Size(n))
  BY <1>0, <1>2 DEF InArenas
<1>6. \A b \in held \cup free : Apart(b, new) /\ Apart(new, b) /\ b # new
  BY <1>0, <1>1, <1>2, <1>3 DEF InArenas, Apart
<1>7. Separate(held \cup {new}, free, low, high + Size(n))
  BY <1>4, <1>5, <1>6 DEF Separate
<1> QED
  BY <1>4, <1>7 DEF Separate, new

-----------------------------------------------------------------------------
(* The invariant.                                                           *)

\* Where the tuple pointer may stand.
Pointer == {at \in Floor .. FullBytes : at % 2 = 0}

\* Every position is even, the arenas have only grown, and the pointers that
\* SETJMP saved are still above the floor.
Aligned ==
  /\ next_low_arena_byte % 2 = 0 /\ LowArena <= next_low_arena_byte
  /\ next_high_arena_byte % 2 = 0 /\ SegmentBytes <= next_high_arena_byte
  /\ tuple_stack_byte \in Pointer
  /\ saved \in Seq(Pointer)
  /\ \A n \in 1 .. Buckets : free_list[n] % 2 = 0

HeapInv == TypeOK /\ Aligned /\ VectorsApart /\ TuplesApart

\* VectorsApart in terms of Separate.
LEMMA Parts ==
  VectorsApart <=>
    /\ Separate(Blocks(vectors), FreeBlocks, next_low_arena_byte, next_high_arena_byte)
    /\ next_low_arena_byte <= SegmentBytes /\ next_high_arena_byte <= Floor
    /\ Floor <= tuple_stack_byte
BY DEF VectorsApart, Separate, InArenas

\* An image leaves the heap as the invariant says.
LEMMA InitHeap ==
  Init => HeapInv
<1> SUFFICES ASSUME Init PROVE HeapInv
  OBVIOUS
<1>1. Blocks(vectors) = {} /\ FreeBlocks = {} /\ Blocks(tuples) = {}
  BY DEF Init, Blocks, FreeBlocks
<1>2. Aligned
  BY Layout DEF Init, Aligned, Pointer
<1>3. VectorsApart
  BY <1>1, Layout DEF Init, VectorsApart
<1>4. TuplesApart
  BY <1>1 DEF TuplesApart
<1>5. ram \in [0 .. SegmentBytes - 1 -> Value]
  BY ValueAssumption DEF Init, SeededRam
<1>6. free_list \in [1 .. Buckets -> 0 .. FullBytes]
      /\ {next_low_arena_byte, next_high_arena_byte, tuple_stack_byte} \subseteq 0 .. FullBytes
  BY Layout, LayoutAssumption DEF Init
<1>7. saved \in Seq(0 .. FullBytes) /\ Len(saved) <= MaxSaved /\ given \in Seq(Value)
  BY LayoutAssumption DEF Init
<1>8. TypeOK
  BY <1>5, <1>6, <1>7 DEF Init, TypeOK
<1> QED
  BY <1>2, <1>3, <1>4, <1>8 DEF HeapInv

-----------------------------------------------------------------------------
(* Blocks of the program.                                                   *)

\* An aggregate and the block it names determine one another.
LEMMA NamesOneBlock ==
  ASSUME NEW held \in SUBSET Aggregate, NEW a \in Aggregate
  PROVE  /\ Blocks(held) \subseteq Block
         /\ Blocks(held \cup {a}) =
              Blocks(held) \cup {[at |-> HandleToByteOffset(a.handle), words |-> a.words]}
         /\ Blocks(held \ {a}) =
              Blocks(held) \ {[at |-> HandleToByteOffset(a.handle), words |-> a.words]}
<1>1. \A b \in held \cup {a} : b.handle \in Handle /\ b.words \in Nat
  BY DEF Aggregate
<1>2. \A b \in held \cup {a} : HandleToByteOffset(b.handle) \in Nat
  BY <1>1, Offsets
<1>3. \A b \in held \cup {a} : HandleToByteOffset(b.handle) = HandleToByteOffset(a.handle)
                             /\ b.words = a.words => b = a
  BY <1>1, Offsets DEF Aggregate
<1>4. Blocks(held) \subseteq Block
  BY <1>1, <1>2 DEF Blocks, Block
<1>5. Blocks(held \cup {a}) =
        Blocks(held) \cup {[at |-> HandleToByteOffset(a.handle), words |-> a.words]}
  BY DEF Blocks
<1>6. Blocks(held \ {a}) =
        Blocks(held) \ {[at |-> HandleToByteOffset(a.handle), words |-> a.words]}
  BY <1>3 DEF Blocks
<1> QED
  BY <1>4, <1>5, <1>6

\* The free list holds positions and word counts.
LEMMA FreeBlocksAreBlocks ==
  ASSUME TypeOK
  PROVE  FreeBlocks \subseteq Block
BY LayoutAssumption, Layout DEF FreeBlocks, Block, TypeOK

\* Initial words are words.
LEMMA PoppedWords ==
  ASSUME NEW n \in Nat, NEW ws \in Popped(n)
  PROVE  ws \in Seq(Value)
<1>1. CASE ws = <<>>
  BY <1>1
<1>2. CASE ws \in [1 .. n -> Value \ {Header}]
  BY <1>2
<1> QED
  BY <1>1, <1>2 DEF Popped

\* A new block leaves memory well typed, and its handle names its position.
LEMMA NewBlockTypes ==
  ASSUME TypeOK, NEW at \in Nat, at % 2 = 0, at < FullBytes, NEW n \in Nat,
         NEW ws \in Seq(Value), NewBlock(at, n, ws)
  PROVE  /\ ram' \in [0 .. SegmentBytes - 1 -> Value]
         /\ given' \in Seq(Value)
         /\ [handle |-> EncodeHandle(at), words |-> n] \in Aggregate
         /\ HandleToByteOffset(EncodeHandle(at)) = at
<1>1. given' \in Seq(Value)
  BY DEF NewBlock
<1>2. \A i \in DOMAIN given' : given'[i] \in Value
  BY <1>1
<1>3. DOMAIN ram = 0 .. SegmentBytes - 1 /\ \A x \in DOMAIN ram : ram[x] \in Value
  BY DEF TypeOK
<1>4. \A x \in DOMAIN ram : ZeroRamBytes(at, n)[x] \in Value
  BY <1>3, ValueAssumption DEF ZeroRamBytes
<1>5. ram' \in [0 .. SegmentBytes - 1 -> Value]
  BY <1>2, <1>3, <1>4 DEF NewBlock
<1> QED
  BY <1>1, <1>5, RoundTrip DEF Aggregate

-----------------------------------------------------------------------------
(* Vectors.                                                                 *)

\* What the invariant says of the positions, as numbers.
LEMMA Ends ==
  ASSUME HeapInv
  PROVE  /\ next_low_arena_byte \in Nat /\ next_high_arena_byte \in Nat
         /\ LowArena <= next_low_arena_byte /\ next_low_arena_byte <= SegmentBytes
         /\ SegmentBytes <= next_high_arena_byte /\ next_high_arena_byte <= Floor
         /\ tuple_stack_byte \in Nat /\ Floor <= tuple_stack_byte
         /\ tuple_stack_byte <= FullBytes
         /\ Separate(Blocks(vectors), FreeBlocks, next_low_arena_byte, next_high_arena_byte)
         /\ Blocks(vectors) \subseteq Block /\ FreeBlocks \subseteq Block
         /\ Blocks(tuples) \subseteq Block
<1>1. TypeOK /\ Aligned /\ VectorsApart
  BY DEF HeapInv
<1>2. Blocks(vectors) \subseteq Block /\ Blocks(tuples) \subseteq Block
  <2>1. vectors \in SUBSET Aggregate /\ tuples \in SUBSET Aggregate
    BY <1>1 DEF TypeOK
  <2>2. \A a \in Aggregate : a.words \in Nat /\ HandleToByteOffset(a.handle) \in Nat
    BY Offsets DEF Aggregate
  <2> QED
    BY <2>1, <2>2 DEF Blocks, Block
<1>3. FreeBlocks \subseteq Block
  BY <1>1, FreeBlocksAreBlocks
<1>4. {next_low_arena_byte, next_high_arena_byte, tuple_stack_byte} \subseteq 0 .. FullBytes
  BY <1>1 DEF TypeOK
<1> QED
  BY <1>1, <1>2, <1>3, <1>4, Parts, Layout DEF Aligned

\* A vector comes from a position inside the arenas.
LEMMA PositionInArenas ==
  ASSUME HeapInv, NEW n \in Nat, Cached(n) \/ FitsLow(n) \/ FitsHigh(n)
  PROVE  Position(n) \in Nat /\ Position(n) % 2 = 0 /\ Position(n) < FullBytes
<1>1. Size(n) \in Nat /\ Size(n) >= 2
  BY SizeFacts
<1>2. CASE Cached(n)
  <2>1. Position(n) = free_list[n] /\ n \in 1 .. Buckets /\ free_list[n] # 0
    BY <1>2 DEF Position, Cached
  <2>2. [at |-> free_list[n], words |-> n] \in FreeBlocks
    BY <2>1 DEF FreeBlocks
  <2>3. InArenas([at |-> free_list[n], words |-> n], next_low_arena_byte, next_high_arena_byte)
    BY <2>2, Ends DEF Separate
  <2>4. free_list[n] \in Nat /\ free_list[n] % 2 = 0
    BY <2>1, Layout DEF HeapInv, TypeOK, Aligned
  <2> QED
    BY <1>1, <2>1, <2>3, <2>4, Ends, Layout DEF InArenas
<1>3. CASE ~Cached(n) /\ FitsLow(n)
  <2>1. Position(n) = next_low_arena_byte /\ next_low_arena_byte + Size(n) <= SegmentBytes
    BY <1>3 DEF Position, FitsLow
  <2>2. next_low_arena_byte % 2 = 0
    BY DEF HeapInv, Aligned
  <2> QED
    BY <1>1, <2>1, <2>2, Ends, Layout
<1>4. CASE ~Cached(n) /\ ~FitsLow(n)
  <2>1. Position(n) = next_high_arena_byte /\ next_high_arena_byte + Size(n) <= Floor
    BY <1>4 DEF Position, FitsHigh
  <2>2. next_high_arena_byte % 2 = 0
    BY DEF HeapInv, Aligned
  <2> QED
    BY <1>1, <2>1, <2>2, Ends, Layout
<1> QED
  BY <1>2, <1>3, <1>4

\* A block from the free list changes sides; one from an arena is new.
LEMMA AllocateVectorSeparates ==
  ASSUME HeapInv, NEW n \in Nat, NEW ws \in Seq(Value), AllocateVector(n, ws)
  PROVE  /\ Separate(Blocks(vectors'), FreeBlocks', next_low_arena_byte', next_high_arena_byte')
         /\ next_low_arena_byte' \in Nat /\ next_high_arena_byte' \in Nat
         /\ next_low_arena_byte <= next_low_arena_byte' /\ next_low_arena_byte' <= SegmentBytes
         /\ next_high_arena_byte <= next_high_arena_byte' /\ next_high_arena_byte' <= Floor
         /\ next_low_arena_byte' % 2 = 0 /\ next_high_arena_byte' % 2 = 0
<1> DEFINE new == [at |-> Position(n), words |-> n]
<1>1. Size(n) \in Nat /\ Size(n) >= 2 /\ Size(n) % 2 = 0
  BY SizeFacts
<1>2. Position(n) \in Nat /\ Position(n) % 2 = 0 /\ Position(n) < FullBytes
  BY PositionInArenas DEF AllocateVector
<1>3. TypeOK /\ Aligned
  BY DEF HeapInv
<1>4. vectors \in SUBSET Aggregate
  BY <1>3 DEF TypeOK
<1>5. /\ [handle |-> EncodeHandle(Position(n)), words |-> n] \in Aggregate
      /\ HandleToByteOffset(EncodeHandle(Position(n))) = Position(n)
  BY <1>2, RoundTrip DEF Aggregate
<1>6. Blocks(vectors') \in {Blocks(vectors), Blocks(vectors) \cup {new}}
  <2>1. Blocks(vectors \cup {[handle |-> EncodeHandle(Position(n)), words |-> n]})
          = Blocks(vectors) \cup {new}
    <3> DEFINE a == [handle |-> EncodeHandle(Position(n)), words |-> n]
    <3>1. a \in Aggregate /\ a.words = n /\ HandleToByteOffset(a.handle) = Position(n)
      BY <1>5
    <3> HIDE DEF a
    <3>2. Blocks(vectors \cup {a}) = Blocks(vectors) \cup {new}
      BY <1>4, <3>1, NamesOneBlock
    <3> QED
      BY <3>2 DEF a
  <2>2. \/ vectors' = vectors
        \/ vectors' = vectors \cup {[handle |-> EncodeHandle(Position(n)), words |-> n]}
    BY DEF AllocateVector
  <2> QED
    BY <2>1, <2>2
<1>7. CASE Cached(n)
  <2>1. new \in FreeBlocks /\ FreeBlocks' = FreeBlocks \ {new}
    <3>1. /\ n \in 1 .. Buckets /\ free_list[n] # 0 /\ Position(n) = free_list[n]
          /\ free_list' = [free_list EXCEPT ![n] = 0]
          /\ DOMAIN free_list = 1 .. Buckets
      BY <1>3, <1>7 DEF Cached, Position, AllocateVector, Taken, TypeOK
    <3> QED
      BY <3>1 DEF FreeBlocks
  <2>2. next_low_arena_byte' = next_low_arena_byte /\ next_high_arena_byte' = next_high_arena_byte
    BY <1>7, Ends DEF AllocateVector
  <2>3. Separate(Blocks(vectors), FreeBlocks, next_low_arena_byte, next_high_arena_byte)
    BY Ends
  <2>4. Blocks(vectors') \cup FreeBlocks' \subseteq Blocks(vectors) \cup FreeBlocks
    BY <1>6, <2>1
  <2>5. Blocks(vectors') \cap FreeBlocks' = {}
    BY <1>6, <2>1, <2>3 DEF Separate
  <2>6. Separate(Blocks(vectors'), FreeBlocks', next_low_arena_byte, next_high_arena_byte)
    BY <2>3, <2>4, <2>5, Fewer
  <2> QED
    BY <1>3, <2>2, <2>6, Ends DEF Aligned
<1>8. CASE ~Cached(n)
  <2>1. FreeBlocks' = FreeBlocks
    BY <1>8 DEF AllocateVector, Taken, FreeBlocks
  <2>2. CASE FitsLow(n)
    <3>1. /\ Position(n) = next_low_arena_byte
          /\ next_low_arena_byte' = next_low_arena_byte + Size(n)
          /\ next_high_arena_byte' = next_high_arena_byte
      BY <1>8, <2>2, Ends DEF AllocateVector, Position
    <3>2. next_low_arena_byte + Size(n) <= SegmentBytes
      BY <2>2 DEF FitsLow
    <3>3. Separate(Blocks(vectors'), FreeBlocks', next_low_arena_byte', next_high_arena_byte')
      <4>1. /\ Separate(Blocks(vectors) \cup {new}, FreeBlocks,
                        next_low_arena_byte + Size(n), next_high_arena_byte)
            /\ Separate(Blocks(vectors), FreeBlocks,
                        next_low_arena_byte + Size(n), next_high_arena_byte)
        BY <3>1, <3>2, CutLow, Ends
      <4> QED
        BY <1>6, <2>1, <3>1, <4>1
    <3>4. next_low_arena_byte % 2 = 0 /\ next_high_arena_byte % 2 = 0
      BY <1>3 DEF Aligned
    <3>5. /\ next_low_arena_byte \in Nat /\ next_high_arena_byte \in Nat
          /\ next_low_arena_byte <= SegmentBytes /\ next_high_arena_byte <= Floor
          /\ SegmentBytes \in Nat /\ Floor \in Nat
      BY Ends, Layout
    <3>6. next_low_arena_byte' % 2 = 0
      BY <1>1, <3>1, <3>4, <3>5, EvenSum
    <3> QED
      BY <1>1, <3>1, <3>2, <3>3, <3>4, <3>5, <3>6
  <2>3. CASE ~FitsLow(n)
    <3>1. /\ Position(n) = next_high_arena_byte
          /\ next_low_arena_byte' = next_low_arena_byte
          /\ next_high_arena_byte' = next_high_arena_byte + Size(n)
      BY <1>8, <2>3, Ends DEF AllocateVector, Position
    <3>2. next_high_arena_byte + Size(n) <= Floor
      BY <1>8, <2>3 DEF AllocateVector, FitsHigh
    <3>3. Separate(Blocks(vectors'), FreeBlocks', next_low_arena_byte', next_high_arena_byte')
      <4>1. /\ Separate(Blocks(vectors) \cup {new}, FreeBlocks,
                        next_low_arena_byte, next_high_arena_byte + Size(n))
            /\ Separate(Blocks(vectors), FreeBlocks,
                        next_low_arena_byte, next_high_arena_byte + Size(n))
        BY <3>1, CutHigh, Ends
      <4> QED
        BY <1>6, <2>1, <3>1, <4>1
    <3>4. next_low_arena_byte % 2 = 0 /\ next_high_arena_byte % 2 = 0
      BY <1>3 DEF Aligned
    <3>5. /\ next_low_arena_byte \in Nat /\ next_high_arena_byte \in Nat
          /\ next_low_arena_byte <= SegmentBytes /\ next_high_arena_byte <= Floor
          /\ SegmentBytes \in Nat /\ Floor \in Nat
      BY Ends, Layout
    <3>6. next_high_arena_byte' % 2 = 0
      BY <1>1, <3>1, <3>4, <3>5, EvenSum
    <3> QED
      BY <1>1, <3>1, <3>2, <3>3, <3>4, <3>5, <3>6
  <2> QED
    BY <2>2, <2>3
<1> QED
  BY <1>7, <1>8

\* VALLOC and VALLOCI.
LEMMA AllocateVectorKeeps ==
  ASSUME HeapInv, NEW n \in Request, NEW ws \in Popped(n), AllocateVector(n, ws)
  PROVE  HeapInv'
<1>1. n \in Nat /\ ws \in Seq(Value)
  BY PoppedWords, LayoutAssumption
<1>2. /\ Separate(Blocks(vectors'), FreeBlocks', next_low_arena_byte', next_high_arena_byte')
      /\ next_low_arena_byte' \in Nat /\ next_high_arena_byte' \in Nat
      /\ next_low_arena_byte <= next_low_arena_byte' /\ next_low_arena_byte' <= SegmentBytes
      /\ next_high_arena_byte <= next_high_arena_byte' /\ next_high_arena_byte' <= Floor
      /\ next_low_arena_byte' % 2 = 0 /\ next_high_arena_byte' % 2 = 0
  BY <1>1, AllocateVectorSeparates
<1>3. Position(n) \in Nat /\ Position(n) % 2 = 0 /\ Position(n) < FullBytes
  BY <1>1, PositionInArenas DEF AllocateVector
<1>4. TypeOK /\ Aligned /\ TuplesApart
  BY DEF HeapInv
<1>5. /\ ram' \in [0 .. SegmentBytes - 1 -> Value] /\ given' \in Seq(Value)
      /\ [handle |-> EncodeHandle(Position(n)), words |-> n] \in Aggregate
  <2>1. NewBlock(Position(n), n, ws)
    BY DEF AllocateVector
  <2> QED
    BY <1>1, <1>3, <1>4, <2>1, NewBlockTypes
<1>6. UNCHANGED <<tuple_stack_byte, saved, tuples>>
  BY DEF AllocateVector
<1>7. free_list' \in [1 .. Buckets -> 0 .. FullBytes]
      /\ \A m \in 1 .. Buckets : free_list'[m] % 2 = 0
  <2>1. free_list \in [1 .. Buckets -> 0 .. FullBytes]
        /\ \A m \in 1 .. Buckets : free_list[m] % 2 = 0
    BY <1>4 DEF TypeOK, Aligned
  <2>2. 0 \in 0 .. FullBytes /\ 0 % 2 = 0
    BY Layout
  <2>3. \/ free_list' = free_list
        \/ n \in 1 .. Buckets /\ free_list' = [free_list EXCEPT ![n] = 0]
    BY DEF AllocateVector, Taken, Cached
  <2> QED
    BY <2>1, <2>2, <2>3
<1>8. vectors' \subseteq Aggregate
  BY <1>4, <1>5 DEF AllocateVector, TypeOK
<1>9. halted' \in BOOLEAN
  BY DEF AllocateVector
<1>10. {next_low_arena_byte', next_high_arena_byte', tuple_stack_byte'} \subseteq 0 .. FullBytes
  BY <1>2, <1>6, Ends, Layout
<1>11. TypeOK'
  BY <1>4, <1>5, <1>6, <1>7, <1>8, <1>9, <1>10 DEF TypeOK
<1>12. Aligned'
  <2>1. LowArena <= next_low_arena_byte' /\ SegmentBytes <= next_high_arena_byte'
    BY <1>2, Ends, Layout
  <2> QED
    BY <1>2, <1>4, <1>6, <1>7, <2>1 DEF Aligned
<1>13. VectorsApart'
  BY <1>2, <1>6, Ends DEF VectorsApart, Separate, InArenas
<1>14. TuplesApart'
  BY <1>4, <1>6 DEF TuplesApart, Blocks
<1> QED
  BY <1>11, <1>12, <1>13, <1>14 DEF HeapInv

\* VFREE: the block goes to an empty bucket or is lost.
LEMMA ReleaseVectorKeeps ==
  ASSUME HeapInv, NEW v \in vectors, ReleaseVector(v.handle, v.words)
  PROVE  HeapInv'
<1> DEFINE old == [at |-> HandleToByteOffset(v.handle), words |-> v.words]
<1>1. TypeOK /\ Aligned /\ TuplesApart
  BY DEF HeapInv
<1>2. vectors \in SUBSET Aggregate /\ v \in Aggregate /\ v.handle \in Handle
      /\ v = [handle |-> v.handle, words |-> v.words]
  BY <1>1 DEF TypeOK, Aggregate
<1>3. HandleToByteOffset(v.handle) \in Nat /\ HandleToByteOffset(v.handle) % 2 = 0
      /\ HandleToByteOffset(v.handle) < FullBytes
  BY <1>2, Offsets
<1>4. vectors' = vectors \ {v}
  BY <1>2 DEF ReleaseVector
<1>5. Blocks(vectors') = Blocks(vectors) \ {old} /\ old \in Blocks(vectors)
  BY <1>2, <1>4, NamesOneBlock DEF Blocks
<1>6. /\ free_list' \in [1 .. Buckets -> 0 .. FullBytes]
      /\ \A m \in 1 .. Buckets : free_list'[m] % 2 = 0
  <2>1. free_list \in [1 .. Buckets -> 0 .. FullBytes]
        /\ \A m \in 1 .. Buckets : free_list[m] % 2 = 0
    BY <1>1 DEF TypeOK, Aligned
  <2>2. HandleToByteOffset(v.handle) \in 0 .. FullBytes
    BY <1>3, Layout
  <2>3. \/ free_list' = free_list
        \/ /\ v.words \in 1 .. Buckets
           /\ free_list' = [free_list EXCEPT ![v.words] = HandleToByteOffset(v.handle)]
    BY DEF ReleaseVector
  <2> QED
    BY <1>3, <2>1, <2>2, <2>3
<1>7. FreeBlocks' \subseteq FreeBlocks \cup {old}
  <2>1. \A m \in 1 .. Buckets :
          \/ free_list'[m] = free_list[m]
          \/ m = v.words /\ free_list'[m] = HandleToByteOffset(v.handle)
    BY <1>1 DEF ReleaseVector, TypeOK
  <2> QED
    BY <2>1 DEF FreeBlocks
<1>8. UNCHANGED <<next_low_arena_byte, next_high_arena_byte, tuple_stack_byte,
                  ram, halted, saved, tuples>>
      /\ given' = <<>>
  BY DEF ReleaseVector
<1>9. Separate(Blocks(vectors'), FreeBlocks', next_low_arena_byte, next_high_arena_byte)
  <2>1. Separate(Blocks(vectors), FreeBlocks, next_low_arena_byte, next_high_arena_byte)
    BY Ends
  <2>2. Blocks(vectors') \cup FreeBlocks' \subseteq Blocks(vectors) \cup FreeBlocks
    BY <1>5, <1>7
  <2>3. Blocks(vectors') \cap FreeBlocks' = {}
    BY <1>5, <1>7, <2>1 DEF Separate
  <2> QED
    BY <2>1, <2>2, <2>3, Fewer
<1>10. TypeOK'
  <2>1. given' \in Seq(Value)
    BY <1>8
  <2>2. vectors' \subseteq Aggregate
    BY <1>2, <1>4
  <2> QED
    BY <1>1, <1>6, <1>8, <2>1, <2>2 DEF TypeOK
<1>11. Aligned'
  BY <1>1, <1>6, <1>8 DEF Aligned
<1>12. VectorsApart'
  BY <1>8, <1>9, Ends DEF VectorsApart, Separate, InArenas
<1>13. TuplesApart'
  BY <1>1, <1>8 DEF TuplesApart, Blocks
<1> QED
  BY <1>10, <1>11, <1>12, <1>13 DEF HeapInv

-----------------------------------------------------------------------------
(* Tuples.                                                                  *)

\* A step that moves only the tuple pointer and what depends on it.
LEMMA TupleMoves ==
  ASSUME HeapInv, UNCHANGED <<arenaVars, vectors>>,
         tuple_stack_byte' \in Pointer, saved' \in Seq(Pointer), Len(saved') <= MaxSaved,
         ram' \in [0 .. SegmentBytes - 1 -> Value], given' \in Seq(Value),
         halted' \in BOOLEAN, tuples' \subseteq Aggregate, TuplesApart'
  PROVE  HeapInv'
<1>1. TypeOK /\ Aligned /\ VectorsApart
  BY DEF HeapInv
<1>2. tuple_stack_byte' \in 0 .. FullBytes /\ Floor <= tuple_stack_byte'
  BY Layout DEF Pointer
<1>3. saved' \in Seq(0 .. FullBytes)
  <2>0. Floor \in Nat /\ FullBytes \in Nat
    BY Layout
  <2>1. Pointer \subseteq 0 .. FullBytes
    BY <2>0 DEF Pointer
  <2> QED
    BY <2>1, SeqMonotonic
<1>4. TypeOK'
  BY <1>1, <1>2, <1>3 DEF TypeOK, arenaVars
<1>5. Aligned'
  BY <1>1 DEF Aligned, arenaVars
<1>6. VectorsApart'
  BY <1>1, <1>2 DEF VectorsApart, Blocks, FreeBlocks, arenaVars
<1> QED
  BY <1>4, <1>5, <1>6 DEF HeapInv

\* TALLOC and TALLOCI: the new tuple is below all others.
LEMMA AllocateTupleKeeps ==
  ASSUME HeapInv, NEW n \in Request, NEW ws \in Popped(n), AllocateTuple(n, ws)
  PROVE  HeapInv'
<1> DEFINE at == tuple_stack_byte - Size(n)
           new == [at |-> at, words |-> n]
<1>1. n \in Nat /\ ws \in Seq(Value)
  BY PoppedWords, LayoutAssumption
<1>2. Size(n) \in Nat /\ Size(n) >= 2 /\ Size(n) % 2 = 0
  BY <1>1, SizeFacts
<1>3. TypeOK /\ Aligned /\ TuplesApart
  BY DEF HeapInv
<1>4. at \in Nat /\ at >= Floor /\ at < FullBytes /\ at % 2 = 0 /\ at + Size(n) = tuple_stack_byte
  <2>1. at >= Floor
    BY DEF AllocateTuple, FitsTuple
  <2>2. tuple_stack_byte % 2 = 0
    BY <1>3 DEF Aligned, Pointer
  <2> QED
    BY <1>2, <2>1, <2>2, Ends, Layout
<1>5. NewBlock(at, n, ws)
  BY DEF AllocateTuple
<1>6. at \in Pointer
  BY <1>4, Layout DEF Pointer
<1>7. UNCHANGED <<arenaVars, saved, vectors>> /\ tuple_stack_byte' = at
      /\ halted' \in BOOLEAN
  BY DEF AllocateTuple
<1> HIDE DEF at
<1>8. /\ ram' \in [0 .. SegmentBytes - 1 -> Value] /\ given' \in Seq(Value)
      /\ [handle |-> EncodeHandle(at), words |-> n] \in Aggregate
      /\ HandleToByteOffset(EncodeHandle(at)) = at
  BY <1>1, <1>3, <1>4, <1>5, NewBlockTypes
<1>9. tuples' \in {tuples, tuples \cup {[handle |-> EncodeHandle(at), words |-> n]}}
  BY DEF AllocateTuple, at
<1>10. tuples \in SUBSET Aggregate
  BY <1>3 DEF TypeOK
<1>11. Blocks(tuples') \subseteq Blocks(tuples) \cup {new}
  BY <1>8, <1>9 DEF Blocks
<1>12. \A t \in Blocks(tuples) : t.at \in Nat /\ Size(t.words) \in Nat
                               /\ t.at >= tuple_stack_byte /\ t.at + Size(t.words) <= FullBytes
  BY <1>3, Ends, SizeFacts DEF TuplesApart, Block
<1>13. new.at = at /\ new.words = n
  OBVIOUS
<1> HIDE DEF new
<1>14. \A t \in Blocks(tuples) \cup {new} : t.at >= at /\ t.at + Size(t.words) <= FullBytes
  BY <1>2, <1>4, <1>12, <1>13, Ends, Layout
<1>15. \A t \in Blocks(tuples) : Apart(t, new) /\ Apart(new, t)
  BY <1>4, <1>12, <1>13 DEF Apart
<1>16. \A s, t \in Blocks(tuples) \cup {new} : s = t \/ Apart(s, t)
  BY <1>3, <1>15 DEF TuplesApart
<1>17. TuplesApart'
  BY <1>7, <1>11, <1>14, <1>16 DEF TuplesApart
<1>18. saved' \in Seq(Pointer) /\ Len(saved') <= MaxSaved
  BY <1>3, <1>7 DEF Aligned, TypeOK
<1> QED
  BY <1>6, <1>7, <1>8, <1>9, <1>10, <1>17, <1>18, TupleMoves

\* TPOP and LONGJMP leave the tuples above the pointer.
LEMMA CutTuples ==
  ASSUME HeapInv, tuples' = TuplesAbove(tuple_stack_byte')
  PROVE  tuples' \subseteq Aggregate /\ TuplesApart'
<1>1. tuples' \subseteq tuples
  BY DEF TuplesAbove
<1>2. Blocks(tuples') \subseteq Blocks(tuples)
  BY <1>1 DEF Blocks
<1>3. \A t \in Blocks(tuples') : t.at >= tuple_stack_byte'
  BY DEF Blocks, TuplesAbove
<1> QED
  BY <1>1, <1>2, <1>3 DEF HeapInv, TypeOK, TuplesApart

\* TPOP of any word count.
LEMMA PopTupleKeeps ==
  ASSUME HeapInv, NEW n \in Request, PopTuple(n)
  PROVE  HeapInv'
<1>1. Size(n) \in Nat /\ Size(n) % 2 = 0
  BY SizeFacts, LayoutAssumption
<1>2. TypeOK /\ Aligned
  BY DEF HeapInv
<1>3. tuple_stack_byte' \in Pointer
  <2>1. tuple_stack_byte \in Nat /\ Floor <= tuple_stack_byte /\ tuple_stack_byte % 2 = 0
    BY <1>2, Ends DEF Aligned, Pointer
  <2>2. (tuple_stack_byte + Size(n)) % 2 = 0
    BY <1>1, <2>1, EvenSum
  <2> QED
    BY <1>1, <2>1, <2>2, Layout DEF PopTuple, Clamp, Pointer
<1>4. UNCHANGED <<arenaVars, ram, halted, saved, vectors>> /\ given' = <<>>
      /\ tuples' = TuplesAbove(tuple_stack_byte')
  BY DEF PopTuple
<1>5. tuples' \subseteq Aggregate /\ TuplesApart'
  BY <1>4, CutTuples
<1>6. /\ ram' \in [0 .. SegmentBytes - 1 -> Value] /\ given' \in Seq(Value)
      /\ halted' \in BOOLEAN /\ saved' \in Seq(Pointer) /\ Len(saved') <= MaxSaved
  BY <1>2, <1>4 DEF TypeOK, Aligned
<1> QED
  BY <1>3, <1>4, <1>5, <1>6, TupleMoves

\* SETJMP
LEMMA SaveTupleKeeps ==
  ASSUME HeapInv, SaveTuple
  PROVE  HeapInv'
<1>1. TypeOK /\ Aligned /\ TuplesApart
  BY DEF HeapInv
<1>2. UNCHANGED <<arenaVars, tuple_stack_byte, ram, halted, vectors, tuples>> /\ given' = <<>>
      /\ saved' = Append(saved, tuple_stack_byte) /\ Len(saved) < MaxSaved
  BY DEF SaveTuple
<1>3. saved \in Seq(Pointer) /\ tuple_stack_byte \in Pointer
  BY <1>1 DEF Aligned
<1>4. saved' \in Seq(Pointer) /\ Len(saved') = Len(saved) + 1 /\ Len(saved) \in Nat
  BY <1>2, <1>3, AppendProperties, LenProperties
<1>5. Len(saved') <= MaxSaved
  BY <1>2, <1>4, LayoutAssumption
<1>6. TuplesApart'
  BY <1>1, <1>2 DEF TuplesApart, Blocks
<1>7. /\ ram' \in [0 .. SegmentBytes - 1 -> Value] /\ given' \in Seq(Value)
      /\ halted' \in BOOLEAN /\ tuples' \subseteq Aggregate
  BY <1>1, <1>2 DEF TypeOK
<1> QED
  BY <1>2, <1>3, <1>4, <1>5, <1>6, <1>7, TupleMoves

\* LONGJMP
LEMMA RestoreTupleKeeps ==
  ASSUME HeapInv, NEW i \in 1 .. Len(saved), RestoreTuple(i)
  PROVE  HeapInv'
<1>1. TypeOK /\ Aligned
  BY DEF HeapInv
<1>2. /\ UNCHANGED <<arenaVars, ram, halted, vectors>> /\ given' = <<>>
      /\ tuple_stack_byte' = saved[i] /\ tuples' = TuplesAbove(saved[i])
      /\ saved' = SubSeq(saved, 1, i - 1) \o SubSeq(saved, i + 1, Len(saved))
  BY DEF RestoreTuple
<1>3. saved \in Seq(Pointer) /\ Len(saved) \in Nat
      /\ \A j \in 1 .. Len(saved) : saved[j] \in Pointer
  BY <1>1, LenProperties, ElementOfSeq DEF Aligned
<1> DEFINE below == SubSeq(saved, 1, i - 1)
           above == SubSeq(saved, i + 1, Len(saved))
<1>4. below \in Seq(Pointer) /\ Len(below) = i - 1
  BY <1>3, SubSeqProperties
<1>5. above \in Seq(Pointer) /\ Len(above) = Len(saved) - i
  BY <1>3, SubSeqProperties
<1>a. saved' = below \o above
  BY <1>2
<1> HIDE DEF below, above
<1>6. saved' \in Seq(Pointer) /\ Len(saved') = Len(saved) - 1
  <2>1. /\ saved' \in Seq(Pointer)
        /\ Len(saved') = Len(below) + Len(above)
    BY <1>4, <1>5, <1>a, ConcatProperties, Zenon
  <2> QED
    BY <1>3, <1>4, <1>5, <2>1
<1>7. Len(saved') <= MaxSaved
  BY <1>1, <1>3, <1>6, LayoutAssumption DEF TypeOK
<1>8. tuples' \subseteq Aggregate /\ TuplesApart'
  BY <1>2, CutTuples
<1>9. /\ ram' \in [0 .. SegmentBytes - 1 -> Value] /\ given' \in Seq(Value)
      /\ halted' \in BOOLEAN
  BY <1>1, <1>2 DEF TypeOK
<1>10. tuple_stack_byte' \in Pointer
  BY <1>2, <1>3
<1> QED
  BY <1>2, <1>6, <1>7, <1>8, <1>9, <1>10, TupleMoves

-----------------------------------------------------------------------------
(* Every step.                                                              *)

\* VPUTW and VPUTW_
LEMMA WriteKeeps ==
  ASSUME HeapInv, NEW h, NEW i, NEW w \in Value, WriteAggregateWord(h, i, w)
  PROVE  HeapInv'
<1>1. TypeOK /\ Aligned /\ TuplesApart
  BY DEF HeapInv
<1>2. UNCHANGED <<arenaVars, tuple_stack_byte, halted, saved, vectors, tuples>> /\ given' = <<>>
  BY DEF WriteAggregateWord
<1>3. ram' \in [0 .. SegmentBytes - 1 -> Value]
  BY <1>1 DEF WriteAggregateWord, TypeOK
<1>4. tuple_stack_byte' \in Pointer /\ saved' \in Seq(Pointer) /\ Len(saved') <= MaxSaved
  BY <1>1, <1>2 DEF TypeOK, Aligned
<1>5. given' \in Seq(Value) /\ halted' \in BOOLEAN /\ tuples' \subseteq Aggregate
  BY <1>1, <1>2 DEF TypeOK
<1>6. TuplesApart'
  BY <1>1, <1>2 DEF TuplesApart, Blocks
<1> QED
  BY <1>2, <1>3, <1>4, <1>5, <1>6, TupleMoves

\* A failed allocation changes nothing but the halt flag.
LEMMA FailureKeeps ==
  ASSUME HeapInv, NEW n, OutOfMemory(n) \/ TupleOverflow(n)
  PROVE  HeapInv'
<1>1. TypeOK /\ Aligned /\ TuplesApart
  BY DEF HeapInv
<1>2. /\ UNCHANGED <<arenaVars, tuple_stack_byte, ram, saved, vectors, tuples>>
      /\ given' = <<>> /\ halted' \in BOOLEAN
  BY DEF OutOfMemory, TupleOverflow
<1>3. tuple_stack_byte' \in Pointer /\ saved' \in Seq(Pointer) /\ Len(saved') <= MaxSaved
  BY <1>1, <1>2 DEF TypeOK, Aligned
<1>4. ram' \in [0 .. SegmentBytes - 1 -> Value] /\ given' \in Seq(Value)
      /\ tuples' \subseteq Aggregate
  BY <1>1, <1>2 DEF TypeOK
<1>5. TuplesApart'
  BY <1>1, <1>2 DEF TuplesApart, Blocks
<1> QED
  BY <1>2, <1>3, <1>4, <1>5, TupleMoves

\* Every instruction.
LEMMA StepKeeps ==
  HeapInv /\ [Next]_vars => HeapInv'
<1> SUFFICES ASSUME HeapInv, [Next]_vars PROVE HeapInv'
  OBVIOUS
<1>1. CASE VectorStep
  <2>1. ASSUME NEW n \in Request, OutOfMemory(n) PROVE HeapInv'
    BY <2>1, FailureKeeps
  <2>2. ASSUME NEW n \in Request, NEW ws \in Popped(n), AllocateVector(n, ws) PROVE HeapInv'
    BY <2>2, AllocateVectorKeeps
  <2>3. ASSUME NEW v \in vectors, ReleaseVector(v.handle, v.words) PROVE HeapInv'
    BY <2>3, ReleaseVectorKeeps
  <2> QED
    BY <1>1, <2>1, <2>2, <2>3 DEF VectorStep
<1>2. CASE TupleStep
  <2>1. ASSUME NEW n \in Request, TupleOverflow(n) PROVE HeapInv'
    BY <2>1, FailureKeeps
  <2>2. ASSUME NEW n \in Request, PopTuple(n) PROVE HeapInv'
    BY <2>2, PopTupleKeeps
  <2>3. ASSUME NEW n \in Request, NEW ws \in Popped(n), AllocateTuple(n, ws) PROVE HeapInv'
    BY <2>3, AllocateTupleKeeps
  <2>4. CASE SaveTuple
    BY <2>4, SaveTupleKeeps
  <2>5. ASSUME NEW i \in 1 .. Len(saved), RestoreTuple(i) PROVE HeapInv'
    BY <2>5, RestoreTupleKeeps
  <2> QED
    BY <1>2, <2>1, <2>2, <2>3, <2>4, <2>5 DEF TupleStep
<1>3. CASE StoreStep
  <2>1. PICK a \in vectors \cup tuples, w \in Value \ {Header} :
          \E i \in 1 .. Words(a.words) : WriteAggregateWord(a.handle, i, w)
    BY <1>3 DEF StoreStep
  <2> QED
    BY <2>1, WriteKeeps
<1>4. CASE UNCHANGED vars
  <2>1. FreeBlocks' = FreeBlocks /\ Blocks(vectors)' = Blocks(vectors)
        /\ Blocks(tuples)' = Blocks(tuples)
    BY <1>4 DEF vars, FreeBlocks, Blocks
  <2> QED
    BY <1>4, <2>1 DEF vars, HeapInv, TypeOK, Aligned, VectorsApart, TuplesApart
<1> QED
  BY <1>1, <1>2, <1>3, <1>4 DEF Next

\* The invariant holds in every behaviour of the heap.
THEOREM HeapInvariant == Spec => []HeapInv
<1> QED
  BY InitHeap, StepKeeps, PTL DEF Spec

\* The allocator's positions, pointers and memory keep their types: no arena,
\* bucket or saved pointer leaves RAM, whatever the program allocates, frees,
\* pops and jumps back to.
THEOREM HeapTypes == Spec => []TypeOK
<1>1. HeapInv => TypeOK
  BY DEF HeapInv
<1> QED
  BY <1>1, HeapInvariant, PTL

\* Held vectors and freed blocks never overlap and stay in the arenas, for
\* every size of memory, reserve and number of buckets and every sequence of
\* requests: allocate_vector and release_vector.
THEOREM BlocksApart == Spec => []VectorsApart
<1>1. HeapInv => VectorsApart
  BY DEF HeapInv
<1> QED
  BY <1>1, HeapInvariant, PTL

\* The tuples the program holds never overlap, across TPOP of any size and
\* LONGJMP back to any pointer that SETJMP saved.
THEOREM TuplesStayApart == Spec => []TuplesApart
<1>1. HeapInv => TuplesApart
  BY DEF HeapInv
<1> QED
  BY <1>1, HeapInvariant, PTL

-----------------------------------------------------------------------------
(* What the program finds in its blocks.                                    *)

Place(a) == HandleToByteOffset(a.handle)

\* The bytes of the aggregate are apart from those of n words at position `at`.
ClearOf(a, at, n) == Place(a) + Size(a.words) <= at \/ at + Size(n) <= Place(a)

\* Contents in any memory.
WordsIn(mem, a) ==
  [i \in 1 .. Words(a.words) |-> mem[HandleToByteOffset(a.handle) \div 2 + i - 1]]

ContentsIn(mem, held) ==
  [h \in {a.handle : a \in held} |-> WordsIn(mem, CHOOSE b \in held : b.handle = h)]

OneHandle(held) == \A a, b \in held : a.handle = b.handle => a = b

\* Contents is that of ram, and its handles are those of the set.
LEMMA ContentsOfRam ==
  ASSUME NEW held \in SUBSET Aggregate
  PROVE  Contents(held) = ContentsIn(ram, held)
<1> DEFINE chosen(h) == CHOOSE b \in held : b.handle = h
<1>1. \A h \in {a.handle : a \in held} : chosen(h).handle = h
  OBVIOUS
<1>2. \A h \in {a.handle : a \in held} :
        WordsIn(ram, chosen(h)) =
          [i \in 1 .. Words(chosen(h).words) |-> ram[HandleToByteOffset(h) \div 2 + i - 1]]
  BY <1>1 DEF WordsIn
<1> QED
  BY <1>2 DEF Contents, ContentsIn

\* A handle that one aggregate has finds the words of that aggregate.
LEMMA FindsWords ==
  ASSUME NEW mem, NEW held \in SUBSET Aggregate, OneHandle(held)
  PROVE  /\ DOMAIN ContentsIn(mem, held) = {a.handle : a \in held}
         /\ \A a \in held : ContentsIn(mem, held)[a.handle] = WordsIn(mem, a)
<1>1. \A a \in held : (CHOOSE b \in held : b.handle = a.handle) = a
  BY DEF OneHandle
<1> QED
  BY <1>1 DEF ContentsIn

\* The contents are those words, whatever function they are compared with.
LEMMA SameContents ==
  ASSUME NEW mem, NEW held \in SUBSET Aggregate, OneHandle(held),
         NEW f, f = [h \in DOMAIN f |-> f[h]],
         DOMAIN f = {a.handle : a \in held},
         \A a \in held : f[a.handle] = WordsIn(mem, a)
  PROVE  ContentsIn(mem, held) = f
<1>1. /\ DOMAIN ContentsIn(mem, held) = {a.handle : a \in held}
      /\ \A a \in held : ContentsIn(mem, held)[a.handle] = WordsIn(mem, a)
  BY FindsWords
<1>2. ContentsIn(mem, held) = [h \in DOMAIN ContentsIn(mem, held) |-> ContentsIn(mem, held)[h]]
  BY DEF ContentsIn
<1> QED
  BY <1>1, <1>2

\* Words of blocks that are apart are different words.
LEMMA WordsDiffer ==
  ASSUME NEW at \in Nat, NEW n \in Nat, NEW to \in Nat, NEW m \in Nat,
         at % 2 = 0, to % 2 = 0, at + Size(n) <= to \/ to + Size(m) <= at
  PROVE  \A x \in WordsAt(at, n) : x \notin WordsAt(to, m)
BY DEF WordsAt, Size, Words

\* The words of a block that ends inside RAM are words of RAM.
LEMMA WordsInside ==
  ASSUME NEW at \in Nat, NEW n \in Nat, at % 2 = 0, at + Size(n) <= FullBytes
  PROVE  /\ WordsAt(at, n) \subseteq 0 .. SegmentBytes - 1
         /\ \A i \in 1 .. Words(n) : at \div 2 + i - 1 \in WordsAt(at, n)
<1>1. SegmentBytes \in Nat /\ FullBytes = 2 * SegmentBytes
  BY Layout
<1>2. Words(n) \in Nat /\ Words(n) >= 1 /\ Size(n) = 2 * Words(n)
  BY DEF Words, Size
<1>3. at \div 2 \in Nat /\ at = 2 * (at \div 2)
  OBVIOUS
<1> QED
  BY <1>1, <1>2, <1>3 DEF WordsAt

\* What the invariant says of the aggregates the program holds: each is inside
\* RAM at a position of its own.
LEMMA HeldApart ==
  ASSUME HeapInv
  PROVE  /\ \A a \in vectors \cup tuples :
              /\ a \in Aggregate /\ a.handle \in Handle /\ a.words \in Nat
              /\ Place(a) \in Nat /\ Place(a) % 2 = 0
              /\ Place(a) + Size(a.words) <= FullBytes
         /\ \A a \in vectors : Place(a) + Size(a.words) <= Floor
         /\ \A a \in tuples : tuple_stack_byte <= Place(a)
         /\ \A a, b \in vectors \cup tuples : a = b \/ ClearOf(a, Place(b), b.words)
         /\ OneHandle(vectors \cup tuples)
         /\ vectors \cap tuples = {}
<1>1. \A a \in vectors \cup tuples :
         /\ a \in Aggregate /\ a.handle \in Handle /\ a.words \in Nat
         /\ Place(a) \in Nat /\ Place(a) % 2 = 0
  <2>1. vectors \cup tuples \subseteq Aggregate
    BY DEF HeapInv, TypeOK
  <2>2. \A a \in Aggregate : a.handle \in Handle /\ a.words \in Nat
    BY DEF Aggregate
  <2> QED
    BY <2>1, <2>2, Offsets DEF Place
<1>2. \A a \in vectors \cup tuples : Size(a.words) \in Nat /\ Size(a.words) >= 2
  BY <1>1, SizeFacts
<1>3. \A a \in vectors : Place(a) + Size(a.words) <= Floor
  <2> SUFFICES ASSUME NEW a \in vectors PROVE Place(a) + Size(a.words) <= Floor
    OBVIOUS
  <2>1. [at |-> Place(a), words |-> a.words] \in Blocks(vectors)
    BY DEF Blocks, Place
  <2>2. InArenas([at |-> Place(a), words |-> a.words], next_low_arena_byte, next_high_arena_byte)
    BY <2>1, Ends DEF Separate
  <2> QED
    BY <1>1, <1>2, <2>2, Ends, Layout DEF InArenas
<1>4. \A a \in tuples : tuple_stack_byte <= Place(a) /\ Place(a) + Size(a.words) <= FullBytes
  <2> SUFFICES ASSUME NEW a \in tuples
               PROVE  tuple_stack_byte <= Place(a) /\ Place(a) + Size(a.words) <= FullBytes
    OBVIOUS
  <2>1. [at |-> Place(a), words |-> a.words] \in Blocks(tuples)
    BY DEF Blocks, Place
  <2> QED
    BY <1>1, <1>2, <2>1, Ends, Layout DEF HeapInv, TuplesApart
<1>5. \A a, b \in vectors : a = b \/ ClearOf(a, Place(b), b.words)
  <2> SUFFICES ASSUME NEW a \in vectors, NEW b \in vectors, a # b
               PROVE  ClearOf(a, Place(b), b.words)
    OBVIOUS
  <2> DEFINE s == [at |-> Place(a), words |-> a.words]
             t == [at |-> Place(b), words |-> b.words]
  <2>1. s \in Blocks(vectors) /\ t \in Blocks(vectors)
    BY DEF Blocks, Place
  <2>2. s = t \/ Apart(s, t)
    BY <2>1 DEF HeapInv, VectorsApart
  <2>3. s # t
    BY <1>1, Offsets DEF Place, Aggregate
  <2> QED
    BY <2>2, <2>3 DEF Apart, ClearOf
<1>6. \A a, b \in tuples : a = b \/ ClearOf(a, Place(b), b.words)
  <2> SUFFICES ASSUME NEW a \in tuples, NEW b \in tuples, a # b
               PROVE  ClearOf(a, Place(b), b.words)
    OBVIOUS
  <2> DEFINE s == [at |-> Place(a), words |-> a.words]
             t == [at |-> Place(b), words |-> b.words]
  <2>1. s \in Blocks(tuples) /\ t \in Blocks(tuples)
    BY DEF Blocks, Place
  <2>2. s = t \/ Apart(s, t)
    BY <2>1 DEF HeapInv, TuplesApart
  <2>3. s # t
    BY <1>1, Offsets DEF Place, Aggregate
  <2> QED
    BY <2>2, <2>3 DEF Apart, ClearOf
<1>7. \A a \in vectors, b \in tuples : Place(a) + Size(a.words) <= Place(b)
  BY <1>1, <1>2, <1>3, <1>4, Ends, Layout
<1>8. \A a, b \in vectors \cup tuples : a = b \/ ClearOf(a, Place(b), b.words)
  BY <1>5, <1>6, <1>7 DEF ClearOf
<1>9. OneHandle(vectors \cup tuples)
  <2>1. \A a, b \in vectors \cup tuples : a.handle = b.handle => Place(a) = Place(b)
    BY DEF Place
  <2>2. \A a, b \in vectors \cup tuples : ClearOf(a, Place(b), b.words) => Place(a) # Place(b)
    BY <1>1, <1>2 DEF ClearOf
  <2> QED
    BY <1>8, <2>1, <2>2 DEF OneHandle
<1>10. vectors \cap tuples = {}
  <2>1. \A a \in vectors \cap tuples : Place(a) + Size(a.words) <= Place(a)
    BY <1>7
  <2> QED
    BY <1>1, <1>2, <2>1
<1>11. \A a \in vectors : Place(a) + Size(a.words) <= FullBytes
  BY <1>1, <1>2, <1>3, Layout
<1> QED
  BY <1>1, <1>3, <1>4, <1>8, <1>9, <1>10, <1>11

-----------------------------------------------------------------------------
(* Steps of memory.                                                         *)

\* A block changes no word of the aggregates that are apart from it, and holds
\* the words it was given or zeroes.
LEMMA BlockWritten ==
  ASSUME HeapInv, NEW at \in Nat, at % 2 = 0, NEW n \in Nat, at + Size(n) <= FullBytes,
         NEW ws \in Popped(n), NewBlock(at, n, ws),
         \A a \in vectors \cup tuples : ClearOf(a, at, n)
  PROVE  /\ \A a \in vectors \cup tuples : WordsIn(ram', a) = WordsIn(ram, a)
         /\ \A i \in 1 .. Words(n) :
              ram'[at \div 2 + i - 1] = IF i \in DOMAIN given' THEN given'[i] ELSE Zero
<1>1. DOMAIN ram = 0 .. SegmentBytes - 1
  BY DEF HeapInv, TypeOK
<1>2. DOMAIN given' \subseteq 1 .. Words(n) /\ Words(n) \in Nat
  <2>1. DOMAIN ws = {} \/ DOMAIN ws = 1 .. n
    BY DEF Popped
  <2>2. DOMAIN given' = {} \/ DOMAIN given' = DOMAIN ws
    BY DEF NewBlock
  <2> QED
    BY <2>1, <2>2 DEF Words
<1>3. \A x \in 0 .. SegmentBytes - 1 : x \notin WordsAt(at, n) => ram'[x] = ram[x]
  <2> SUFFICES ASSUME NEW x \in 0 .. SegmentBytes - 1, x \notin WordsAt(at, n)
               PROVE  ram'[x] = ram[x]
    OBVIOUS
  <2>1. x - at \div 2 + 1 \notin 1 .. Words(n)
    BY <1>2, Layout DEF WordsAt
  <2>2. ram'[x] = ZeroRamBytes(at, n)[x]
    BY <1>1, <1>2, <2>1 DEF NewBlock
  <2> QED
    BY <1>1, <2>2 DEF ZeroRamBytes
<1>4. \A i \in 1 .. Words(n) :
        ram'[at \div 2 + i - 1] = IF i \in DOMAIN given' THEN given'[i] ELSE Zero
  <2> SUFFICES ASSUME NEW i \in 1 .. Words(n)
               PROVE  ram'[at \div 2 + i - 1] = IF i \in DOMAIN given' THEN given'[i] ELSE Zero
    OBVIOUS
  <2> DEFINE x == at \div 2 + i - 1
  <2>1. x \in WordsAt(at, n) /\ x \in 0 .. SegmentBytes - 1
    BY WordsInside
  <2>2. x - at \div 2 + 1 = i
    BY <1>2
  <2> HIDE DEF x
  <2>3. ram'[x] = IF i \in DOMAIN given' THEN given'[i] ELSE ZeroRamBytes(at, n)[x]
    BY <1>1, <2>1, <2>2 DEF NewBlock
  <2>4. ZeroRamBytes(at, n)[x] = Zero
    BY <1>1, <2>1 DEF ZeroRamBytes
  <2> QED
    BY <2>3, <2>4 DEF x
<1>5. \A a \in vectors \cup tuples : WordsIn(ram', a) = WordsIn(ram, a)
  <2> SUFFICES ASSUME NEW a \in vectors \cup tuples
               PROVE  WordsIn(ram', a) = WordsIn(ram, a)
    OBVIOUS
  <2>1. /\ a.words \in Nat /\ Place(a) \in Nat /\ Place(a) % 2 = 0
        /\ Place(a) + Size(a.words) <= FullBytes /\ ClearOf(a, at, n)
    BY HeldApart
  <2>2. \A x \in WordsAt(Place(a), a.words) : x \notin WordsAt(at, n)
    BY <2>1, WordsDiffer DEF ClearOf
  <2>3. \A i \in 1 .. Words(a.words) :
          /\ Place(a) \div 2 + i - 1 \in WordsAt(Place(a), a.words)
          /\ Place(a) \div 2 + i - 1 \in 0 .. SegmentBytes - 1
    BY <2>1, WordsInside
  <2>4. \A i \in 1 .. Words(a.words) : ram'[Place(a) \div 2 + i - 1] = ram[Place(a) \div 2 + i - 1]
    BY <1>3, <2>2, <2>3
  <2> QED
    BY <2>4 DEF WordsIn, Place
<1> QED
  BY <1>4, <1>5

\* Contents of memories that agree on the words of the aggregates.
LEMMA Unchanged ==
  ASSUME NEW mem, NEW mem2, NEW held \in SUBSET Aggregate, OneHandle(held),
         \A a \in held : WordsIn(mem2, a) = WordsIn(mem, a)
  PROVE  ContentsIn(mem2, held) = ContentsIn(mem, held)
<1>1. \A h \in {a.handle : a \in held} : (CHOOSE b \in held : b.handle = h) \in held
  OBVIOUS
<1> QED
  BY <1>1 DEF ContentsIn

\* Fewer aggregates: the others keep their words.
LEMMA FewerHeld ==
  ASSUME NEW mem, NEW held \in SUBSET Aggregate, OneHandle(held), NEW rest \in SUBSET held
  PROVE  Promise!Shrunk(ContentsIn(mem, held), ContentsIn(mem, rest))
<1>1. OneHandle(rest)
  BY DEF OneHandle
<1>2. /\ DOMAIN ContentsIn(mem, held) = {a.handle : a \in held}
      /\ \A a \in held : ContentsIn(mem, held)[a.handle] = WordsIn(mem, a)
  BY FindsWords
<1>3. /\ DOMAIN ContentsIn(mem, rest) = {a.handle : a \in rest}
      /\ \A a \in rest : ContentsIn(mem, rest)[a.handle] = WordsIn(mem, a)
  BY <1>1, FindsWords
<1> QED
  BY <1>2, <1>3 DEF Promise!Shrunk

\* A function with one more point.
Extended(f, h, c) == [g \in DOMAIN f \cup {h} |-> IF g = h THEN c ELSE f[g]]

\* One more aggregate.
LEMMA OneMore ==
  ASSUME NEW mem, NEW mem2, NEW held \in SUBSET Aggregate, NEW a \in Aggregate,
         OneHandle(held), \A b \in held : b.handle # a.handle,
         \A b \in held : WordsIn(mem2, b) = WordsIn(mem, b)
  PROVE  ContentsIn(mem2, held \cup {a}) =
           Extended(ContentsIn(mem, held), a.handle, WordsIn(mem2, a))
<1> DEFINE more == held \cup {a}
           f == Extended(ContentsIn(mem, held), a.handle, WordsIn(mem2, a))
<1>1. OneHandle(more) /\ more \in SUBSET Aggregate
  BY DEF OneHandle
<1>2. /\ DOMAIN ContentsIn(mem, held) = {b.handle : b \in held}
      /\ \A b \in held : ContentsIn(mem, held)[b.handle] = WordsIn(mem, b)
  BY FindsWords
<1>3. DOMAIN f = {b.handle : b \in more} /\ f = [h \in DOMAIN f |-> f[h]]
  BY <1>2 DEF Extended
<1>4. \A b \in more : f[b.handle] = WordsIn(mem2, b)
  BY <1>2 DEF Extended
<1> HIDE DEF f, more
<1>5. ContentsIn(mem2, more) = f
  BY <1>1, <1>3, <1>4, SameContents
<1> QED
  BY <1>5 DEF f, more

\* The refinement mapping in terms of ContentsIn.
LEMMA Mapping ==
  vectors \in SUBSET Aggregate /\ tuples \in SUBSET Aggregate =>
    Contents(vectors) = ContentsIn(ram, vectors) /\ Contents(tuples) = ContentsIn(ram, tuples)
BY ContentsOfRam

\* The mapping before and after a step.
LEMMA Mapped ==
  ASSUME HeapInv, HeapInv'
  PROVE  /\ vectors \in SUBSET Aggregate /\ tuples \in SUBSET Aggregate
         /\ vectors' \in SUBSET Aggregate /\ tuples' \in SUBSET Aggregate
         /\ OneHandle(vectors) /\ OneHandle(tuples)
         /\ Contents(vectors) = ContentsIn(ram, vectors)
         /\ Contents(tuples) = ContentsIn(ram, tuples)
         /\ Contents(vectors)' = ContentsIn(ram', vectors')
         /\ Contents(tuples)' = ContentsIn(ram', tuples')
<1>1. vectors \in SUBSET Aggregate /\ tuples \in SUBSET Aggregate
      /\ vectors' \in SUBSET Aggregate /\ tuples' \in SUBSET Aggregate
  BY DEF HeapInv, TypeOK
<1>2. (vectors \in SUBSET Aggregate /\ tuples \in SUBSET Aggregate =>
         Contents(vectors) = ContentsIn(ram, vectors)
         /\ Contents(tuples) = ContentsIn(ram, tuples))'
  BY Mapping, PTL
<1>3. OneHandle(vectors) /\ OneHandle(tuples)
  BY HeldApart DEF OneHandle
<1> QED
  BY <1>1, <1>2, <1>3, Mapping

-----------------------------------------------------------------------------
(* Steps of the abstract specification.                                     *)

\* A vector's block is apart from every vector and tuple the program holds.
LEMMA PositionClear ==
  ASSUME HeapInv, NEW n \in Nat, Cached(n) \/ FitsLow(n) \/ FitsHigh(n)
  PROVE  /\ Position(n) + Size(n) <= Floor
         /\ \A a \in vectors \cup tuples : ClearOf(a, Position(n), n)
<1>1. Size(n) \in Nat /\ Size(n) >= 2 /\ Position(n) \in Nat
  BY SizeFacts, PositionInArenas
<1>2. \A a \in vectors \cup tuples : Place(a) \in Nat /\ Size(a.words) \in Nat
  BY HeldApart, SizeFacts
<1>3. \A a \in vectors : InArenas([at |-> Place(a), words |-> a.words],
                                  next_low_arena_byte, next_high_arena_byte)
  <2>1. \A a \in vectors : [at |-> Place(a), words |-> a.words] \in Blocks(vectors)
    BY DEF Blocks, Place
  <2> QED
    BY <2>1, Ends DEF Separate
<1>4. /\ Position(n) + Size(n) <= Floor
      /\ \A a \in vectors : ClearOf(a, Position(n), n)
  <2>1. CASE Cached(n)
    <3> DEFINE new == [at |-> free_list[n], words |-> n]
    <3>1. Position(n) = free_list[n] /\ new \in FreeBlocks
      BY <2>1 DEF Position, Cached, FreeBlocks
    <3>2. InArenas(new, next_low_arena_byte, next_high_arena_byte)
      BY <3>1, Ends DEF Separate
    <3>3. \A a \in vectors : ClearOf(a, Position(n), n)
      <4> SUFFICES ASSUME NEW a \in vectors PROVE ClearOf(a, Position(n), n)
        OBVIOUS
      <4> DEFINE old == [at |-> Place(a), words |-> a.words]
      <4>1. old \in Blocks(vectors)
        BY DEF Blocks, Place
      <4>2. old # new /\ (old = new \/ Apart(old, new))
        BY <3>1, <4>1 DEF HeapInv, VectorsApart
      <4> QED
        BY <3>1, <4>2 DEF Apart, ClearOf
    <3> QED
      BY <1>1, <3>1, <3>2, <3>3, Ends, Layout DEF InArenas
  <2>2. CASE ~Cached(n) /\ FitsLow(n)
    <3>1. Position(n) = next_low_arena_byte /\ Position(n) + Size(n) <= SegmentBytes
      BY <2>2 DEF Position, FitsLow
    <3>2. \A a \in vectors : ClearOf(a, Position(n), n)
      BY <1>1, <1>2, <1>3, <3>1, Ends, Layout DEF InArenas, ClearOf
    <3> QED
      BY <1>1, <3>1, <3>2, Layout
  <2>3. CASE ~Cached(n) /\ ~FitsLow(n)
    <3>1. Position(n) = next_high_arena_byte /\ Position(n) + Size(n) <= Floor
      BY <2>3 DEF Position, FitsHigh
    <3>2. \A a \in vectors : ClearOf(a, Position(n), n)
      BY <1>1, <1>2, <1>3, <3>1, Ends, Layout DEF InArenas, ClearOf
    <3> QED
      BY <3>1, <3>2
  <2> QED
    BY <2>1, <2>2, <2>3
<1>5. \A a \in tuples : ClearOf(a, Position(n), n)
  BY <1>1, <1>2, <1>4, HeldApart, Ends, Layout DEF ClearOf
<1> QED
  BY <1>4, <1>5

\* A new aggregate of n words at position `at` holds what Vectors promises.
LEMMA NewContents ==
  ASSUME HeapInv, NEW at \in Nat, at % 2 = 0, NEW n \in Nat, at + Size(n) <= FullBytes,
         NEW ws \in Popped(n), NewBlock(at, n, ws),
         \A a \in vectors \cup tuples : ClearOf(a, at, n),
         NEW new \in Aggregate, new.handle = EncodeHandle(at), new.words = n
  PROVE  WordsIn(ram', new) = Promise!Contents(n)
<1>1. HandleToByteOffset(new.handle) = at
  BY RoundTrip, SizeFacts, Layout
<1>2. \A i \in 1 .. Words(n) :
        ram'[at \div 2 + i - 1] = IF i \in DOMAIN given' THEN given'[i] ELSE Zero
  BY BlockWritten
<1>3. WordsIn(ram', new) = [i \in 1 .. Words(n) |-> ram'[at \div 2 + i - 1]]
  BY <1>1 DEF WordsIn
<1>4. Words(n) = IF n > 0 THEN n ELSE 1
  BY DEF Words
<1> QED
  BY <1>2, <1>3, <1>4 DEF Promise!Contents

\* VALLOC and VALLOCI: one more vector, or a halt that changes none.
LEMMA AllocateVectorRefines ==
  ASSUME HeapInv, HeapInv', ~halted, NEW n \in Request, NEW ws \in Popped(n), AllocateVector(n, ws)
  PROVE  Promise!Next
<1> DEFINE at == Position(n)
           new == [handle |-> EncodeHandle(at), words |-> n]
<1>1. n \in Nat /\ at \in Nat /\ at % 2 = 0 /\ at + Size(n) <= FullBytes
      /\ \A a \in vectors \cup tuples : ClearOf(a, at, n)
  <2>1. n \in Nat /\ (Cached(n) \/ FitsLow(n) \/ FitsHigh(n))
    BY LayoutAssumption DEF AllocateVector
  <2> QED
    BY <2>1, PositionInArenas, PositionClear, SizeFacts, Layout
<1>2. NewBlock(at, n, ws) /\ tuples' = tuples
  BY DEF AllocateVector
<1>3. new \in Aggregate /\ new.handle = EncodeHandle(at) /\ new.words = n /\ Place(new) = at
  BY <1>1, RoundTrip, SizeFacts, Layout DEF Aggregate, Place
<1>4. \A a \in vectors \cup tuples : WordsIn(ram', a) = WordsIn(ram, a)
  BY <1>1, <1>2, BlockWritten
<1>5. WordsIn(ram', new) = Promise!Contents(n)
  BY <1>1, <1>2, <1>3, NewContents
<1>6. \A a \in vectors \cup tuples : a.handle # new.handle
  <2>1. \A a \in vectors \cup tuples : Place(a) # at
    BY <1>1, HeldApart, SizeFacts DEF ClearOf
  <2> QED
    BY <1>3, <2>1 DEF Place
<1>7. /\ EncodeHandle(at) = False => vectors' = vectors /\ halted'
      /\ EncodeHandle(at) # False => vectors' = vectors \cup {new} /\ ~halted'
  BY DEF AllocateVector
<1> HIDE DEF at, new
<1>8. ContentsIn(ram', tuples') = ContentsIn(ram, tuples)
  BY <1>2, <1>4, Mapped, Unchanged
<1>9. CASE EncodeHandle(at) = False
  <2>1. ContentsIn(ram', vectors') = ContentsIn(ram, vectors)
    BY <1>4, <1>7, <1>9, Mapped, Unchanged
  <2> QED
    BY <1>7, <1>8, <1>9, <2>1, Mapped DEF Promise!Next, Status
<1>10. CASE EncodeHandle(at) # False
  <2>1. ContentsIn(ram', vectors') =
          Extended(ContentsIn(ram, vectors), new.handle, WordsIn(ram', new))
    <3>1. /\ vectors \in SUBSET Aggregate /\ OneHandle(vectors)
          /\ \A b \in vectors : b.handle # new.handle
          /\ \A b \in vectors : WordsIn(ram', b) = WordsIn(ram, b)
          /\ vectors' = vectors \cup {new} /\ new \in Aggregate
      BY <1>3, <1>4, <1>6, <1>7, <1>10, Mapped
    <3>2. ContentsIn(ram', vectors \cup {new}) =
            Extended(ContentsIn(ram, vectors), new.handle, WordsIn(ram', new))
      BY <3>1, OneMore
    <3> QED
      BY <3>1, <3>2
  <2>2. new.handle \in DOMAIN ContentsIn(ram', vectors')
                       \ (DOMAIN ContentsIn(ram, vectors) \cup DOMAIN ContentsIn(ram, tuples))
    <3>1. /\ DOMAIN ContentsIn(ram, vectors) = {a.handle : a \in vectors}
          /\ DOMAIN ContentsIn(ram, tuples) = {a.handle : a \in tuples}
      BY Mapped, FindsWords
    <3> QED
      BY <1>6, <2>1, <3>1 DEF Extended
  <2>3. Promise!Alloc(n)
    BY <1>5, <1>8, <2>1, <2>2, Mapped DEF Promise!Alloc, Promise!Grown, Extended
  <2> QED
    BY <1>7, <1>10, <2>3 DEF Promise!Next, Status
<1> QED
  BY <1>9, <1>10

\* TALLOC and TALLOCI: one more tuple, or a halt that changes none.
LEMMA AllocateTupleRefines ==
  ASSUME HeapInv, HeapInv', ~halted, NEW n \in Request, NEW ws \in Popped(n), AllocateTuple(n, ws)
  PROVE  Promise!Next
<1> DEFINE at == tuple_stack_byte - Size(n)
           new == [handle |-> EncodeHandle(at), words |-> n]
<1>1. n \in Nat /\ at \in Nat /\ at % 2 = 0 /\ at + Size(n) = tuple_stack_byte
      /\ Floor <= at /\ at + Size(n) <= FullBytes /\ at < FullBytes
  <2>1. n \in Nat /\ at >= Floor
    BY LayoutAssumption DEF AllocateTuple, FitsTuple
  <2>2. tuple_stack_byte % 2 = 0
    BY DEF HeapInv, Aligned, Pointer
  <2> QED
    BY <2>1, <2>2, SizeFacts, Ends, Layout
<1>2. NewBlock(at, n, ws) /\ vectors' = vectors
  BY DEF AllocateTuple
<1>3. /\ EncodeHandle(at) = False => tuples' = tuples /\ halted'
      /\ EncodeHandle(at) # False => tuples' = tuples \cup {new} /\ ~halted'
  BY DEF AllocateTuple
<1> HIDE DEF at
<1>4. new \in Aggregate /\ new.handle = EncodeHandle(at) /\ new.words = n /\ Place(new) = at
  BY <1>1, RoundTrip DEF Aggregate, Place
<1>5. \A a \in vectors \cup tuples : ClearOf(a, at, n)
  <2>1. \A a \in vectors \cup tuples : Place(a) \in Nat /\ Size(a.words) \in Nat
    BY HeldApart, SizeFacts
  <2>2. \A a \in vectors : ClearOf(a, at, n)
    BY <1>1, <2>1, HeldApart, Layout DEF ClearOf
  <2>3. \A a \in tuples : ClearOf(a, at, n)
    BY <1>1, <2>1, HeldApart DEF ClearOf
  <2> QED
    BY <2>2, <2>3
<1> HIDE DEF new
<1>6. \A a \in vectors \cup tuples : WordsIn(ram', a) = WordsIn(ram, a)
  BY <1>1, <1>2, <1>5, BlockWritten
<1>7. WordsIn(ram', new) = Promise!Contents(n)
  BY <1>1, <1>2, <1>4, <1>5, NewContents
<1>8. \A a \in vectors \cup tuples : a.handle # new.handle
  <2>1. \A a \in vectors \cup tuples : Place(a) # at
    BY <1>1, <1>5, HeldApart, SizeFacts DEF ClearOf
  <2> QED
    BY <1>4, <2>1 DEF Place
<1>9. ContentsIn(ram', vectors') = ContentsIn(ram, vectors)
  BY <1>2, <1>6, Mapped, Unchanged
<1>10. CASE EncodeHandle(at) = False
  <2>1. ContentsIn(ram', tuples') = ContentsIn(ram, tuples)
    BY <1>3, <1>6, <1>10, Mapped, Unchanged
  <2> QED
    BY <1>3, <1>9, <1>10, <2>1, Mapped DEF Promise!Next, Status
<1>11. CASE EncodeHandle(at) # False
  <2>1. ContentsIn(ram', tuples') =
          Extended(ContentsIn(ram, tuples), new.handle, WordsIn(ram', new))
    <3>1. /\ tuples \in SUBSET Aggregate /\ OneHandle(tuples)
          /\ \A b \in tuples : b.handle # new.handle
          /\ \A b \in tuples : WordsIn(ram', b) = WordsIn(ram, b)
          /\ tuples' = tuples \cup {new} /\ new \in Aggregate
      BY <1>3, <1>4, <1>6, <1>8, <1>11, Mapped
    <3>2. ContentsIn(ram', tuples \cup {new}) =
            Extended(ContentsIn(ram, tuples), new.handle, WordsIn(ram', new))
      BY <3>1, OneMore
    <3> QED
      BY <3>1, <3>2
  <2>2. new.handle \in DOMAIN ContentsIn(ram', tuples')
                       \ (DOMAIN ContentsIn(ram, vectors) \cup DOMAIN ContentsIn(ram, tuples))
    <3>1. /\ DOMAIN ContentsIn(ram, vectors) = {a.handle : a \in vectors}
          /\ DOMAIN ContentsIn(ram, tuples) = {a.handle : a \in tuples}
      BY Mapped, FindsWords
    <3> QED
      BY <1>8, <2>1, <3>1 DEF Extended
  <2>3. Promise!AllocTuple(n)
    BY <1>7, <1>9, <2>1, <2>2, Mapped DEF Promise!AllocTuple, Promise!Grown, Extended
  <2> QED
    BY <1>3, <1>11, <2>3 DEF Promise!Next, Status
<1> QED
  BY <1>10, <1>11

\* VFREE: that vector goes, and no other changes.
LEMMA ReleaseVectorRefines ==
  ASSUME HeapInv, HeapInv', ~halted, NEW v \in vectors, ReleaseVector(v.handle, v.words)
  PROVE  Promise!Next
<1>1. /\ vectors' = vectors \ {v} /\ tuples' = tuples /\ ram' = ram /\ halted' = halted
  <2>1. v = [handle |-> v.handle, words |-> v.words]
    BY HeldApart DEF Aggregate
  <2> QED
    BY <2>1 DEF ReleaseVector
<1>2. Promise!Shrunk(ContentsIn(ram, vectors), ContentsIn(ram, vectors \ {v}))
  BY Mapped, FewerHeld
<1>3. DOMAIN ContentsIn(ram, vectors \ {v}) = DOMAIN ContentsIn(ram, vectors) \ {v.handle}
      /\ v.handle \in DOMAIN ContentsIn(ram, vectors)
  <2>1. DOMAIN ContentsIn(ram, vectors) = {a.handle : a \in vectors}
        /\ DOMAIN ContentsIn(ram, vectors \ {v}) = {a.handle : a \in vectors \ {v}}
    BY DEF ContentsIn
  <2> QED
    BY <2>1, Mapped DEF OneHandle
<1>4. Promise!Free
  <2>1. Promise!Shrunk(Contents(vectors), Contents(vectors)')
    BY <1>1, <1>2, Mapped
  <2>2. DOMAIN Contents(vectors)' = DOMAIN Contents(vectors) \ {v.handle}
        /\ v.handle \in DOMAIN Contents(vectors)
    BY <1>1, <1>3, Mapped
  <2>3. Contents(tuples)' = Contents(tuples)
    BY <1>1, Mapped
  <2> QED
    BY <2>1, <2>2, <2>3 DEF Promise!Free
<1> QED
  BY <1>1, <1>4 DEF Promise!Next, Status

\* TPOP, SETJMP and LONGJMP: the tuples that are left keep their words.
LEMMA FewerTuplesRefine ==
  ASSUME HeapInv, HeapInv', ~halted, tuples' \subseteq tuples,
         UNCHANGED <<vectors, ram, halted>>
  PROVE  Promise!Next
<1>1. Promise!Shrunk(ContentsIn(ram, tuples), ContentsIn(ram, tuples'))
  BY Mapped, FewerHeld
<1>2. Promise!PopTuples
  BY <1>1, Mapped DEF Promise!PopTuples
<1> QED
  BY <1>2 DEF Promise!Next, Status

\* A store to one word of an aggregate changes that word of it and no other.
LEMMA StoreRefines ==
  ASSUME HeapInv, HeapInv', ~halted, NEW a \in vectors \cup tuples,
         NEW i \in 1 .. Words(a.words), NEW w \in Value, WriteAggregateWord(a.handle, i, w)
  PROVE  Promise!Next
<1> DEFINE x == Place(a) \div 2 + i - 1
<1>1. ram' = [ram EXCEPT ![x] = w] /\ vectors' = vectors /\ tuples' = tuples
      /\ halted' = halted
  BY DEF WriteAggregateWord, Place
<1>2. DOMAIN ram = 0 .. SegmentBytes - 1
  BY DEF HeapInv, TypeOK
<1>3. \A b \in vectors \cup tuples :
        /\ b.words \in Nat /\ Place(b) \in Nat /\ Place(b) % 2 = 0
        /\ Place(b) + Size(b.words) <= FullBytes
  BY HeldApart
<1>4. x \in WordsAt(Place(a), a.words) /\ x \in DOMAIN ram
  BY <1>2, <1>3, WordsInside
<1>5. ram'[x] = w /\ \A y \in DOMAIN ram : y # x => ram'[y] = ram[y]
  BY <1>1, <1>4
<1> HIDE DEF x
<1>6. ASSUME NEW b \in vectors \cup tuples, b # a
      PROVE  WordsIn(ram', b) = WordsIn(ram, b)
  <2>1. ClearOf(b, Place(a), a.words)
    BY <1>6, HeldApart
  <2>2. x \notin WordsAt(Place(b), b.words)
    BY <1>3, <1>4, <2>1, WordsDiffer DEF ClearOf
  <2>3. \A j \in 1 .. Words(b.words) :
          /\ Place(b) \div 2 + j - 1 \in WordsAt(Place(b), b.words)
          /\ Place(b) \div 2 + j - 1 \in DOMAIN ram
    BY <1>2, <1>3, WordsInside
  <2>4. \A j \in 1 .. Words(b.words) : ram'[Place(b) \div 2 + j - 1] = ram[Place(b) \div 2 + j - 1]
    BY <1>5, <2>2, <2>3
  <2> QED
    BY <2>4 DEF WordsIn, Place
<1>7. WordsIn(ram', a) = [WordsIn(ram, a) EXCEPT ![i] = w]
  <2>1. \A j \in 1 .. Words(a.words) :
          ram'[Place(a) \div 2 + j - 1] = IF j = i THEN w ELSE ram[Place(a) \div 2 + j - 1]
    <3> SUFFICES ASSUME NEW j \in 1 .. Words(a.words)
                 PROVE  ram'[Place(a) \div 2 + j - 1]
                          = IF j = i THEN w ELSE ram[Place(a) \div 2 + j - 1]
      OBVIOUS
    <3>1. Place(a) \div 2 + j - 1 \in DOMAIN ram
      BY <1>2, <1>3, WordsInside
    <3>2. j # i => Place(a) \div 2 + j - 1 # x
      BY <1>3 DEF x
    <3>3. j = i => Place(a) \div 2 + j - 1 = x
      BY DEF x
    <3> QED
      BY <1>5, <3>1, <3>2, <3>3
  <2> QED
    BY <2>1 DEF WordsIn, Place
<1>8. ASSUME NEW held \in SUBSET Aggregate, held \subseteq vectors \cup tuples,
             OneHandle(held), a \in held
      PROVE  Promise!Stored(ContentsIn(ram, held), ContentsIn(ram', held))
  <2>1. /\ DOMAIN ContentsIn(ram, held) = {b.handle : b \in held}
        /\ \A b \in held : ContentsIn(ram, held)[b.handle] = WordsIn(ram, b)
    BY <1>8, FindsWords
  <2>2. /\ DOMAIN ContentsIn(ram', held) = {b.handle : b \in held}
        /\ \A b \in held : ContentsIn(ram', held)[b.handle] = WordsIn(ram', b)
    BY <1>8, FindsWords
  <2>3. \A b \in held : b # a => b.handle # a.handle
    BY <1>8 DEF OneHandle
  <2>4. i \in DOMAIN ContentsIn(ram, held)[a.handle]
    BY <1>8, <2>1 DEF WordsIn
  <2>5. ContentsIn(ram', held)[a.handle] = [ContentsIn(ram, held)[a.handle] EXCEPT ![i] = w]
    BY <1>7, <1>8, <2>1, <2>2
  <2>6. ContentsIn(ram', held)[a.handle][i] = w
    BY <2>4, <2>5
  <2>7. \A b \in held : b # a =>
          ContentsIn(ram', held)[b.handle] = ContentsIn(ram, held)[b.handle]
    BY <1>6, <1>8, <2>1, <2>2
  <2>8. /\ ContentsIn(ram, held) =
             [h \in DOMAIN ContentsIn(ram, held) |-> ContentsIn(ram, held)[h]]
        /\ ContentsIn(ram', held) =
             [h \in DOMAIN ContentsIn(ram', held) |-> ContentsIn(ram', held)[h]]
    BY DEF ContentsIn
  <2>9. ContentsIn(ram', held) = [ContentsIn(ram, held) EXCEPT ![a.handle][i] = w]
    BY <1>8, <2>1, <2>2, <2>3, <2>5, <2>7, <2>8
  <2> QED
    BY <1>8, <2>1, <2>2, <2>4, <2>6, <2>9 DEF Promise!Stored
<1>9. CASE a \in vectors
  <2>1. a \notin tuples
    BY <1>9, HeldApart
  <2>2. \A b \in tuples : WordsIn(ram', b) = WordsIn(ram, b)
    BY <1>6, <2>1
  <2>3. ContentsIn(ram', tuples) = ContentsIn(ram, tuples)
    BY <2>2, Mapped, Unchanged
  <2>4. Promise!Stored(ContentsIn(ram, vectors), ContentsIn(ram', vectors))
    BY <1>8, <1>9, Mapped
  <2>5. Promise!Store
    BY <1>1, <2>3, <2>4, Mapped DEF Promise!Store
  <2> QED
    BY <1>1, <2>5 DEF Promise!Next, Status
<1>10. CASE a \in tuples
  <2>1. a \notin vectors
    BY <1>10, HeldApart
  <2>2. \A b \in vectors : WordsIn(ram', b) = WordsIn(ram, b)
    BY <1>6, <2>1
  <2>3. ContentsIn(ram', vectors) = ContentsIn(ram, vectors)
    BY <2>2, Mapped, Unchanged
  <2>4. Promise!Stored(ContentsIn(ram, tuples), ContentsIn(ram', tuples))
    BY <1>8, <1>10, Mapped
  <2>5. Promise!Store
    BY <1>1, <2>3, <2>4, Mapped DEF Promise!Store
  <2> QED
    BY <1>1, <2>5 DEF Promise!Next, Status
<1> QED
  BY <1>9, <1>10

\* A failed allocation stops the program and changes nothing it holds.
LEMMA FailureRefines ==
  ASSUME HeapInv, HeapInv', ~halted, NEW n, OutOfMemory(n) \/ TupleOverflow(n)
  PROVE  Promise!Next
<1>1. ram' = ram /\ vectors' = vectors /\ tuples' = tuples /\ halted'
  BY DEF OutOfMemory, TupleOverflow
<1> QED
  BY <1>1, Mapped DEF Promise!Next, Status

\* Every instruction is a step of Vectors.
LEMMA StepRefines ==
  HeapInv /\ HeapInv' /\ [Next]_vars => [Promise!Next]_(Promise!vars)
<1> SUFFICES ASSUME HeapInv, HeapInv', [Next]_vars PROVE [Promise!Next]_(Promise!vars)
  OBVIOUS
<1>1. CASE Next /\ VectorStep
  <2>1. ASSUME NEW n \in Request, OutOfMemory(n) PROVE Promise!Next
    BY <1>1, <2>1, FailureRefines DEF Next
  <2>2. ASSUME NEW n \in Request, NEW ws \in Popped(n), AllocateVector(n, ws) PROVE Promise!Next
    BY <1>1, <2>2, AllocateVectorRefines DEF Next
  <2>3. ASSUME NEW v \in vectors, ReleaseVector(v.handle, v.words) PROVE Promise!Next
    BY <1>1, <2>3, ReleaseVectorRefines DEF Next
  <2> QED
    BY <1>1, <2>1, <2>2, <2>3 DEF VectorStep
<1>2. CASE Next /\ TupleStep
  <2>1. ASSUME NEW n \in Request, TupleOverflow(n) PROVE Promise!Next
    BY <1>2, <2>1, FailureRefines DEF Next
  <2>2. ASSUME NEW n \in Request, PopTuple(n) PROVE Promise!Next
    BY <1>2, <2>2, FewerTuplesRefine DEF Next, PopTuple, TuplesAbove
  <2>3. ASSUME NEW n \in Request, NEW ws \in Popped(n), AllocateTuple(n, ws) PROVE Promise!Next
    BY <1>2, <2>3, AllocateTupleRefines DEF Next
  <2>4. CASE SaveTuple
    BY <1>2, <2>4, FewerTuplesRefine DEF Next, SaveTuple
  <2>5. ASSUME NEW i \in 1 .. Len(saved), RestoreTuple(i) PROVE Promise!Next
    BY <1>2, <2>5, FewerTuplesRefine DEF Next, RestoreTuple, TuplesAbove
  <2> QED
    BY <1>2, <2>1, <2>2, <2>3, <2>4, <2>5 DEF TupleStep
<1>3. CASE Next /\ StoreStep
  <2>1. PICK a \in vectors \cup tuples, w \in Value \ {Header} :
          \E i \in 1 .. Words(a.words) : WriteAggregateWord(a.handle, i, w)
    BY <1>3 DEF StoreStep
  <2> QED
    BY <1>3, <2>1, StoreRefines DEF Next
<1>4. CASE UNCHANGED vars
  <2>1. ram' = ram /\ vectors' = vectors /\ tuples' = tuples /\ given' = given /\ halted' = halted
    BY <1>4 DEF vars
  <2>2. Contents(vectors)' = Contents(vectors) /\ Contents(tuples)' = Contents(tuples)
    BY <2>1, Mapped
  <2>3. Status' = Status
    BY <2>1 DEF Status
  <2> QED
    BY <2>1, <2>2, <2>3 DEF Promise!vars
<1> QED
  BY <1>1, <1>2, <1>3, <1>4 DEF Next

\* The program starts with nothing.
LEMMA InitRefines ==
  Init => Promise!Init
<1> SUFFICES ASSUME Init PROVE Promise!Init
  OBVIOUS
<1>1. Contents(vectors) = Promise!Empty /\ Contents(tuples) = Promise!Empty
  BY DEF Init, Contents, Promise!Empty
<1> QED
  BY <1>1 DEF Init, Promise!Init, Status

\* The allocator and the tuple stack implement Vectors, for every size of
\* memory and every sequence of requests: a vector keeps its words from VALLOC
\* to VFREE and a tuple until it is popped, a new one holds the words it was
\* given or zeroes, and a store changes one word of one of them, whatever is
\* reused from the free list, cut by TPOP or unwound by LONGJMP.
THEOREM KeepsContents == Spec => ImplementsVectors
<1>1. Spec => []HeapInv
  BY HeapInvariant
<1>2. Init => Promise!Init
  BY InitRefines
<1>3. HeapInv /\ HeapInv' /\ [Next]_vars => [Promise!Next]_(Promise!vars)
  BY StepRefines
<1> QED
  BY <1>1, <1>2, <1>3, PTL DEF Spec, ImplementsVectors, Promise!Spec

----------------------------------------------------------------------------
(* Division *)

LEMMA Division ==
  ASSUME NEW m \in Int, NEW n \in Nat \ {0}
  PROVE  m = n * (m \div n) + (m % n) /\ m % n \in 0 .. n - 1 /\ m \div n \in Int
OBVIOUS

\* A number that is so many times n and a rest below n has that rest.
LEMMA RestOfMultiple ==
  ASSUME NEW n \in Nat \ {0}, NEW k \in Int, NEW r \in 0 .. n - 1
  PROVE  (n * k + r) % n = r
OBVIOUS

LEMMA WordIs ==
  ASSUME NEW w \in 0 .. W - 1
  PROVE  w \in Int /\ 0 <= w /\ w <= 65535
BY DEF W

\* What is left of a word is that word.
LEMMA WordKeeps ==
  ASSUME NEW w \in 0 .. W - 1
  PROVE  Word(w) = w
<1>1. w \in Int /\ 0 <= w /\ w < 65536
  BY WordIs
<1>2. w % 65536 = w
  BY <1>1
<1> QED
  BY <1>2 DEF Word, W

LEMMA WordBelow ==
  ASSUME NEW i \in Int, -65536 < i, i < 0
  PROVE  Word(i) = i + 65536
BY DEF Word, W

LEMMA SignedIs ==
  ASSUME NEW w \in Int
  PROVE  Signed(w) = IF w < 32768 THEN w ELSE w - 65536
<1>1. W \div 2 = 32768 /\ W = 65536
  BY DEF W
<1> QED
  BY <1>1 DEF Signed

LEMMA SignedBounds ==
  ASSUME NEW w \in 0 .. W - 1
  PROVE  /\ Signed(w) \in Int /\ -32768 <= Signed(w) /\ Signed(w) <= 32767
         /\ Signed(w) = 0 <=> w = 0
<1>1. w \in Int /\ 0 <= w /\ w <= 65535
  BY DEF W
<1> QED
  BY <1>1, SignedIs

\* A number of 16 bits is what its word stands for.
LEMMA SignedOfWord ==
  ASSUME NEW i \in Int, -32768 <= i, i <= 32767
  PROVE  /\ Word(i) = IF i < 0 THEN i + 65536 ELSE i
         /\ Signed(Word(i)) = i
<1>1. i >= 0 => Word(i) = i
  BY DEF Word, W
<1>2. i < 0 => Word(i) = i + 65536
  BY DEF Word, W
<1>3. Word(i) = IF i < 0 THEN i + 65536 ELSE i
  BY <1>1, <1>2
<1>4. Word(i) \in Int
  BY <1>3
<1>5. Signed(Word(i)) = IF Word(i) < 32768 THEN Word(i) ELSE Word(i) - 65536
  BY <1>4, SignedIs
<1> QED
  BY <1>3, <1>5

\* C's quotient and remainder make up the dividend; the remainder is less
\* than the divisor, and has the sign of the dividend.
LEMMA QuotientAndRest ==
  ASSUME NEW a \in Int, NEW b \in Int \ {0}
  PROVE  /\ Quotient(a, b) \in Int /\ Remainder(a, b) \in Int
         /\ a = b * Quotient(a, b) + Remainder(a, b)
         /\ -Magnitude(b) < Remainder(a, b) /\ Remainder(a, b) < Magnitude(b)
         /\ a >= 0 => Remainder(a, b) >= 0
         /\ a <= 0 => Remainder(a, b) <= 0
<1> DEFINE m == Magnitude(a)
           n == Magnitude(b)
           s == m \div n
           r == m % n
<1>1. m \in Nat /\ n \in Nat \ {0} /\ (a < 0 => a = -m) /\ (a >= 0 => a = m)
      /\ (b < 0 => b = -n) /\ (b >= 0 => b = n)
  BY DEF Magnitude
<1> HIDE DEF m, n
<1>2. m = n * s + r /\ r \in 0 .. n - 1 /\ s \in Int
  BY <1>1, Division
<1>3. Quotient(a, b) = IF (a < 0) = (b < 0) THEN s ELSE -s
  BY DEF Quotient, m, n
<1> HIDE DEF s, r
<1>4. /\ Quotient(a, b) \in Int
      /\ b * Quotient(a, b) = IF a < 0 THEN -(n * s) ELSE n * s
  <2>1. CASE a < 0 /\ b < 0
    BY <1>1, <1>2, <1>3, <2>1
  <2>2. CASE a < 0 /\ ~(b < 0)
    BY <1>1, <1>2, <1>3, <2>2
  <2>3. CASE ~(a < 0) /\ b < 0
    BY <1>1, <1>2, <1>3, <2>3
  <2>4. CASE ~(a < 0) /\ ~(b < 0)
    BY <1>1, <1>2, <1>3, <2>4
  <2> QED
    BY <2>1, <2>2, <2>3, <2>4
<1>5. n * s \in Int /\ b * Quotient(a, b) \in Int
  BY <1>1, <1>2, <1>4
<1>6. Remainder(a, b) = IF a < 0 THEN -r ELSE r
  BY <1>1, <1>2, <1>4, <1>5 DEF Remainder
<1>7. n = Magnitude(b)
  BY DEF n
<1>8. a = b * Quotient(a, b) + Remainder(a, b)
  BY <1>1, <1>2, <1>4, <1>5, <1>6
<1> QED
  BY <1>1, <1>2, <1>4, <1>6, <1>7, <1>8

----------------------------------------------------------------------------
(* The modulus *)

\* Of a divisor above 0, LinchpinST's correction gives the modulus.
LEMMA ModulusAbove ==
  ASSUME NEW a \in Int, NEW b \in Nat \ {0}
  PROVE  a % b = LET rest == Remainder(a, b) IN IF rest < 0 THEN rest + b ELSE rest
<1> DEFINE q == Quotient(a, b)
           r == Remainder(a, b)
<1>1. q \in Int /\ r \in Int /\ a = b * q + r /\ -b < r /\ r < b
  BY QuotientAndRest DEF Magnitude
<1> HIDE DEF q, r
<1>2. CASE r >= 0
  <2>1. (b * q + r) % b = r
    BY <1>1, <1>2, RestOfMultiple
  <2> QED
    BY <1>1, <1>2, <2>1 DEF r
<1>3. CASE r < 0
  <2>1. q - 1 \in Int /\ r + b \in 0 .. b - 1
    BY <1>1, <1>3
  <2>2. (b * (q - 1) + (r + b)) % b = r + b
    BY <2>1, RestOfMultiple
  <2>3. b * (q - 1) + (r + b) = a
    <3>1. b * (q - 1) = b * q - b /\ b * q \in Int
      BY <1>1
    <3> QED
      BY <1>1, <3>1
  <2> QED
    BY <1>3, <2>2, <2>3 DEF r
<1> QED
  BY <1>1, <1>2, <1>3

\* Of a divisor below 0 it is congruent to the dividend.
LEMMA ModulusBelow ==
  ASSUME NEW a \in Int, NEW b \in Int, b < 0
  PROVE  LET rest == Remainder(a, b)
         IN  ((IF rest < 0 THEN rest + b ELSE rest) - a) % (-b) = 0
<1> DEFINE q == Quotient(a, b)
           r == Remainder(a, b)
           n == -b
<1>1. q \in Int /\ r \in Int /\ a = b * q + r /\ n \in Nat \ {0} /\ b = -n
  BY QuotientAndRest
<1>2. 0 \in 0 .. n - 1
  BY <1>1
<1> HIDE DEF q, r, n
<1>3. b * q = -(n * q) /\ n * q \in Int /\ n * (q - 1) = n * q - n
  BY <1>1
<1>4. (n * q + 0) % n = 0 /\ (n * (q - 1) + 0) % n = 0
  BY <1>1, <1>2, RestOfMultiple
<1>5. r - a = n * q + 0 /\ (r + b) - a = n * (q - 1) + 0
  BY <1>1, <1>3
<1> QED
  BY <1>4, <1>5 DEF r, n

\* The two runtimes agree on MOD just where nothing is corrected; LinchpinST's
\* answer is the modulus if the divisor is above 0, and congruent to the
\* dividend if it is below 0 and the correction stays within 16 bits.
LEMMA ModulusAgrees ==
  ASSUME NEW a \in 0 .. W - 1, NEW b \in 0 .. W - 1
  PROVE  /\ LpstModulus(a, b) = Lp128Modulus(a, b)
               <=> ~(Signed(b) # 0 /\ Remainder(Signed(a), Signed(b)) < 0)
         /\ Signed(b) > 0 => LpstModulus(a, b) = Signed(a) % Signed(b)
         /\ -16384 <= Signed(b) /\ Signed(b) < 0 =>
              (Signed(LpstModulus(a, b)) - Signed(a)) % (-Signed(b)) = 0
<1> DEFINE m == Signed(a)
           n == Signed(b)
           r == Remainder(m, n)
           adjusted == IF r < 0 THEN r + n ELSE r
<1>1. /\ m \in Int /\ -32768 <= m /\ m <= 32767
      /\ n \in Int /\ -32768 <= n /\ n <= 32767 /\ (n = 0 <=> b = 0)
  BY SignedBounds
<1> HIDE DEF m, n
<1>2. CASE b = 0
  BY <1>1, <1>2 DEF LpstModulus, Lp128Modulus, m, n
<1>3. CASE b # 0
  <2>1. n \in Int \ {0}
    BY <1>1, <1>3
  <2>2. r \in Int /\ -Magnitude(n) < r /\ r < Magnitude(n)
    <3>1. m \in Int
      BY <1>1
    <3> QED
      BY <2>1, <3>1, QuotientAndRest
  <2>3. LpstModulus(a, b) = Word(adjusted) /\ Lp128Modulus(a, b) = Word(r)
    BY <1>3 DEF LpstModulus, Lp128Modulus, m, n
  <2>4. n > 0 => adjusted = m % n
    BY <1>1, ModulusAbove
  <2>5. n < 0 => (adjusted - m) % (-n) = 0
    BY <1>1, ModulusBelow
  <2> HIDE DEF r
  <2>6. r \in Int /\ -32768 <= r /\ r <= 32767
        /\ (n > 0 => -n < r /\ r < n) /\ (n < 0 => n < r /\ r < -n)
    BY <1>1, <2>2 DEF Magnitude
  <2>7. Word(r) = IF r < 0 THEN r + 65536 ELSE r
    BY <2>6, SignedOfWord
  <2>8. n > 0 => 0 <= adjusted /\ adjusted <= 32767 /\ adjusted \in Int
    BY <1>1, <2>6
  <2>9. n < 0 => adjusted <= 32767 /\ adjusted \in Int /\ -65536 < adjusted
    BY <1>1, <2>6
  <2>10. n > 0 => Word(adjusted) = adjusted
    <3>1. n > 0 => Word(adjusted) = IF adjusted < 0 THEN adjusted + 65536 ELSE adjusted
      BY <2>8, SignedOfWord
    <3> QED
      BY <2>8, <3>1
  <2>11. -16384 <= n /\ n < 0 => Signed(Word(adjusted)) = adjusted
    <3>1. -16384 <= n /\ n < 0 => -32768 <= adjusted
      BY <1>1, <2>6
    <3> QED
      BY <2>9, <3>1, SignedOfWord
  <2>12. Word(adjusted) = Word(r) <=> ~(r < 0)
    <3>1. CASE r >= 0
      BY <2>6, <3>1
    <3>2. CASE r < 0 /\ n > 0
      BY <2>6, <2>7, <2>10, <3>2, <1>1
    <3>3. CASE r < 0 /\ n < 0
      <4>1. adjusted = r + n /\ -65536 < r + n /\ r + n < 0 /\ r + n \in Int
        BY <1>1, <2>6, <3>3
      <4>2. Word(r + n) = r + n + 65536
        BY <4>1, WordBelow
      <4>3. Word(adjusted) = r + n + 65536
        BY <4>1, <4>2
      <4> QED
        BY <1>1, <2>6, <2>7, <3>3, <4>3
    <3> QED
      BY <1>1, <2>1, <2>6, <3>1, <3>2, <3>3
  <2> QED
    BY <1>1, <2>1, <2>3, <2>4, <2>5, <2>10, <2>11, <2>12 DEF r, m, n
<1> QED
  BY <1>2, <1>3

----------------------------------------------------------------------------
(* Shifts *)

\* A power of two by which a word is divided when it is shifted
Halving(p) == p \in Int /\ p >= 2

LEMMA Powers ==
  ASSUME NEW n \in 1 .. 15
  PROVE  Halving(2 ^ n)
<1>1. 2 ^ 1 = 2 /\ 2 ^ 2 = 4 /\ 2 ^ 3 = 8 /\ 2 ^ 4 = 16 /\ 2 ^ 5 = 32
  OBVIOUS
<1>2. 2 ^ 6 = 64 /\ 2 ^ 7 = 128 /\ 2 ^ 8 = 256 /\ 2 ^ 9 = 512 /\ 2 ^ 10 = 1024
  OBVIOUS
<1>3. 2 ^ 11 = 2048 /\ 2 ^ 12 = 4096 /\ 2 ^ 13 = 8192 /\ 2 ^ 14 = 16384 /\ 2 ^ 15 = 32768
  OBVIOUS
<1>4. n = 1 \/ n = 2 \/ n = 3 \/ n = 4 \/ n = 5
        => 2 ^ n = 2 ^ 1 \/ 2 ^ n = 2 ^ 2 \/ 2 ^ n = 2 ^ 3 \/ 2 ^ n = 2 ^ 4 \/ 2 ^ n = 2 ^ 5
  BY Zenon
<1>5. n = 6 \/ n = 7 \/ n = 8 \/ n = 9 \/ n = 10
        => 2 ^ n = 2 ^ 6 \/ 2 ^ n = 2 ^ 7 \/ 2 ^ n = 2 ^ 8 \/ 2 ^ n = 2 ^ 9 \/ 2 ^ n = 2 ^ 10
  BY Zenon
<1>6. n = 11 \/ n = 12 \/ n = 13 \/ n = 14 \/ n = 15
        => \/ 2 ^ n = 2 ^ 11 \/ 2 ^ n = 2 ^ 12 \/ 2 ^ n = 2 ^ 13 \/ 2 ^ n = 2 ^ 14
           \/ 2 ^ n = 2 ^ 15
  BY Zenon
<1>7. \/ n = 1 \/ n = 2 \/ n = 3 \/ n = 4 \/ n = 5
      \/ n = 6 \/ n = 7 \/ n = 8 \/ n = 9 \/ n = 10
      \/ n = 11 \/ n = 12 \/ n = 13 \/ n = 14 \/ n = 15
  OBVIOUS
<1> QED
  BY <1>1, <1>2, <1>3, <1>4, <1>5, <1>6, <1>7 DEF Halving

\* A word shifted right by at least one bit has lost its sign, and a number
\* below 0 divided by as much has not.
LEMMA Halved ==
  ASSUME NEW p \in Int, p >= 2, NEW x \in Int
  PROVE  /\ 0 <= x /\ x <= 65535 => 0 <= x \div p /\ x \div p <= 32767
         /\ -32768 <= x /\ x < 0 => -32768 <= x \div p /\ x \div p <= -1
         /\ x \div p \in Int
<1> DEFINE q == x \div p
           r == x % p
<1>1. x = p * q + r /\ r \in 0 .. p - 1 /\ q \in Int
  <2>1. p \in Nat \ {0}
    OBVIOUS
  <2> QED
    BY <2>1, Division
<1> HIDE DEF q, r
<1>2. p * q \in Int /\ r \in Int /\ 0 <= r /\ r < p
  BY <1>1
<1>3. q >= 1 => p * q >= 2 * q
  <2>1. q >= 1 => (p - 2) * q >= 0 /\ (p - 2) * q = p * q - 2 * q
    BY <1>1
  <2> QED
    BY <1>1, <1>2, <2>1
<1>4. q <= -1 => p * q <= -p
  <2>1. q <= -1 => p * (q + 1) <= 0 /\ p * (q + 1) = p * q + p
    BY <1>1
  <2> QED
    BY <1>1, <1>2, <2>1
<1>5. q >= 0 => p * q >= 0
  BY <1>1
<1>6. q < -32768 => p * q < -32768 - p
  <2>1. q < -32768 => p * (q + 32769) <= 0 /\ p * (q + 32769) = p * q + 32769 * p
    BY <1>1
  <2> QED
    BY <1>1, <1>2, <2>1
<1>7. 0 <= x => 0 <= q
  BY <1>1, <1>2, <1>4
<1>8. x <= 65535 => q <= 32767
  BY <1>1, <1>2, <1>3
<1>9. x < 0 => q <= -1
  BY <1>1, <1>2, <1>5
<1>10. -32768 <= x => -32768 <= q
  BY <1>1, <1>2, <1>6
<1> QED
  BY <1>1, <1>7, <1>8, <1>9, <1>10 DEF q

\* To the right the one keeps the sign and the other does not.
LEMMA RightShifts ==
  ASSUME NEW a \in 0 .. W - 1, NEW n \in Int, n >= 1
  PROVE  SignedShift(a, n) = RightShift(a, n) <=> ~(Signed(a) < 0)
<1> DEFINE s == Signed(a)
<1>0. /\ s \in Int /\ -32768 <= s /\ s <= 32767
      /\ a \in Int /\ 0 <= a /\ a <= 65535 /\ s = IF a < 32768 THEN a ELSE a - 65536
  <2>1. a \in Int /\ 0 <= a /\ a <= 65535
    BY DEF W
  <2>2. s = IF a < 32768 THEN a ELSE a - 65536
    BY <2>1, SignedIs
  <2> QED
    BY <2>1, <2>2, SignedBounds
<1>1. CASE n > 15
  <2>1. SignedShift(a, n) = Word(s \div W) /\ RightShift(a, n) = 0
    BY <1>1 DEF SignedShift, RightShift
  <2> HIDE DEF s
  <2>2. s \div W = IF s < 0 THEN -1 ELSE 0
    BY <1>0 DEF W
  <2>3. Word(s \div W) = IF s < 0 THEN 65535 ELSE 0
    BY <2>2, SignedOfWord
  <2> QED
    BY <2>1, <2>3 DEF s
<1>2. CASE ~(n > 15)
  <2> DEFINE p == 2 ^ n
  <2>1. SignedShift(a, n) = Word(s \div p) /\ RightShift(a, n) = a \div p
    BY <1>2 DEF SignedShift, RightShift
  <2>2. n \in 1 .. 15
    BY <1>2
  <2>3. p \in Int /\ p >= 2
    <3>1. Halving(p)
      BY <2>2, Powers, Zenon
    <3> QED
      BY <3>1 DEF Halving
  <2> HIDE DEF s, p
  <2>4. /\ s \div p \in Int /\ a \div p \in Int
        /\ 0 <= a \div p /\ a \div p <= 32767
        /\ s < 0 => -32768 <= s \div p /\ s \div p <= -1
    BY <1>0, <2>3, Halved
  <2>5. CASE s < 0
    <3>1. Word(s \div p) = s \div p + 65536
      BY <2>4, <2>5, SignedOfWord
    <3> QED
      BY <2>1, <2>4, <2>5, <3>1 DEF s
  <2>6. CASE ~(s < 0)
    <3>1. s = a
      BY <1>0, <2>6
    <3>2. Word(a \div p) = a \div p
      BY <2>4, SignedOfWord
    <3> QED
      BY <2>1, <2>6, <3>1, <3>2 DEF s
  <2> QED
    BY <2>5, <2>6
<1> QED
  BY <1>1, <1>2

\* The two runtimes agree on ASHIFT unless a word below 0 goes to the right.
LEMMA ShiftsAgree ==
  ASSUME NEW a \in 0 .. W - 1, NEW b \in 0 .. W - 1
  PROVE  LpstArithmeticShift(a, b) = Lp128ArithmeticShift(a, b)
           <=> ~(Signed(a) < 0 /\ Signed(b) < 0)
<1> DEFINE s == Signed(a)
           n == -Signed(b)
<1>1. /\ s \in Int /\ -32768 <= s /\ s <= 32767 /\ n \in Int /\ Signed(b) \in Int
      /\ a \in Int /\ 0 <= a /\ a <= 65535 /\ s = IF a < 32768 THEN a ELSE a - 65536
  <2>1. a \in Int /\ b \in Int /\ 0 <= a /\ a <= 65535
    BY WordIs
  <2>2. s = IF a < 32768 THEN a ELSE a - 65536
    BY <2>1, SignedIs
  <2> QED
    BY <2>1, <2>2, SignedBounds
<1>2. CASE Signed(b) >= 0
  <2>1. LpstArithmeticShift(a, b) = LeftShift(a, Signed(b))
    BY <1>2 DEF LpstArithmeticShift
  <2>2. Lp128ArithmeticShift(a, b) = LeftShift(a, Signed(b))
    BY <1>2 DEF Lp128ArithmeticShift, Shift
  <2> QED
    BY <1>1, <1>2, <2>1, <2>2
<1>3. CASE Signed(b) < 0
  <2>1. n >= 1
    BY <1>1, <1>3
  <2>2. LpstArithmeticShift(a, b) = SignedShift(a, n)
        /\ Lp128ArithmeticShift(a, b) = RightShift(a, n)
    BY <1>1, <1>3 DEF LpstArithmeticShift, Lp128ArithmeticShift, Shift
  <2>3. SignedShift(a, n) = RightShift(a, n) <=> ~(s < 0)
    BY <1>1, <2>1, RightShifts
  <2> QED
    BY <1>3, <2>2, <2>3
<1> QED
  BY <1>1, <1>2, <1>3

----------------------------------------------------------------------------
(* The instruction a step presents *)

Bytes == Seq(Nat)

CombinedWords == 0 .. 16383

SortKeys == [flags : 0 .. 255, combined : CombinedWords, fields : Seq(Bytes)]

LEMMA BytesAreNumbers == Seq(0 .. 255) \subseteq Seq(Nat)
<1>1. 0 .. 255 \subseteq Nat
  OBVIOUS
<1> QED
  BY <1>1, SeqMonotonic, Zenon

LEMMA KeysAreKeys == Keys \subseteq SortKeys
<1> DEFINE texts == Seq(Seq(0 .. 255))
<1>1. texts \subseteq Seq(Bytes)
  BY BytesAreNumbers, SeqMonotonic DEF Bytes
<1> HIDE DEF texts
<1>2. ASSUME NEW k \in Keys PROVE k \in SortKeys
  <2>1. k \in [flags : 0 .. 255, combined : 0 .. 16383, fields : texts]
    BY OperatorsAssumption, SMT DEF texts
  <2>2. /\ k = [flags |-> k.flags, combined |-> k.combined, fields |-> k.fields]
        /\ k.flags \in 0 .. 255 /\ k.combined \in 0 .. 16383 /\ k.fields \in texts
    BY <2>1, SMT
  <2>3. k.combined \in CombinedWords /\ k.fields \in Seq(Bytes)
    BY <1>1, <2>2, SMT DEF CombinedWords
  <2> QED
    BY <2>2, <2>3, SMT DEF SortKeys
<1> QED
  BY <1>2

\* What each instruction's operands are
Known(step) ==
  /\ step.kind = "compute" =>
       /\ step.op \in Operations
       /\ step.a \in 0 .. W - 1 /\ step.b \in 0 .. W - 1
  /\ step.kind = "jump" =>
       /\ step.style \in Styles
       /\ step.start \in 0 .. W - 1 /\ step.target \in 0 .. W - 1
       /\ Encodable(step.style, step.start, step.target)
  /\ step.kind = "branch" => step.top \in 0 .. W - 1 /\ step.below \in 0 .. W - 1
  /\ step.kind = "field" =>
       /\ step.word \in SUBSET Bits /\ step.value \in SUBSET Bits
       /\ step.c \in Controls /\ step.c.local \in {0, 1}
       /\ step.form \in {"local", "stack"} /\ step.handle \in Handles
  /\ step.kind = "compare" =>
       /\ step.first \in Seq(Nat) /\ step.second \in Seq(Nat)
       /\ step.offset \in 0 .. Len(step.first)
  /\ step.kind = "keys" => step.first \in SortKeys /\ step.second \in SortKeys
  /\ step.kind = "unpack" =>
       /\ step.text \in Seq(0 .. 31) /\ step.text # << >> /\ Len(step.text) % 3 = 0
       /\ step.cut \in 0 .. Len(step.text) \div 3 - 1 /\ step.offset \in Nat

CaseKnown == Known(asked)

LEMMA CasesKnown == OperatorsSpec => []CaseKnown
<1>1. OperatorsInit => CaseKnown
  BY DEF OperatorsInit, None, CaseKnown, Known
<1>2. ASSUME CaseKnown, [OperatorsNext]_asked PROVE CaseKnown'
  <2>1. CASE UNCHANGED asked
    BY <1>2, <2>1, Zenon DEF CaseKnown
  <2>2. CASE Compute
    BY <2>2, OperatorsAssumption DEF Compute, Present, CaseKnown, Known
  <2>3. CASE Jump
    BY <2>3, OperatorsAssumption DEF Jump, Present, CaseKnown, Known
  <2>4. CASE Branch
    BY <2>4, OperatorsAssumption DEF Branch, Present, CaseKnown, Known
  <2>5. CASE AccessField
    BY <2>5, OperatorsAssumption DEF AccessField, Present, CaseKnown, Known
  <2>6. CASE Compare
    <3>1. Texts \subseteq Seq(Nat)
      BY OperatorsAssumption, BytesAreNumbers
    <3> QED
      BY <2>6, <3>1 DEF Compare, Present, CaseKnown, Known
  <2>7. CASE CompareSortKeys
    <3>1. Keys \subseteq SortKeys
      BY KeysAreKeys, Zenon
    <3> QED
      BY <2>7, <3>1, SMTT(30) DEF CompareSortKeys, Present, CaseKnown, Known
  <2>8. CASE Unpack
    BY <2>8, OperatorsAssumption DEF Unpack, Present, CaseKnown, Known
  <2>9. CASE Enter
    BY <2>9 DEF Enter, Present, CaseKnown, Known
  <2>10. CASE ExtractItem
    BY <2>10 DEF ExtractItem, Present, CaseKnown, Known
  <2>11. CASE TakeAway
    BY <2>11 DEF TakeAway, None, CaseKnown, Known
  <2> QED
    BY <1>2, <2>1, <2>2, <2>3, <2>4, <2>5, <2>6, <2>7, <2>8, <2>9, <2>10, <2>11 DEF OperatorsNext
<1> QED
  BY <1>1, <1>2, PTL DEF OperatorsSpec

\* ArithmeticAgrees: every pair of words, whichever operation, is computed alike
\* but for MOD and ASHIFT as stated there, and MOD is the modulus.
THEOREM ArithmeticIsTrue == OperatorsSpec => []ArithmeticAgrees
<1>1. ASSUME CaseKnown, asked.kind = "compute" PROVE ArithmeticAgrees
  <2> DEFINE op == asked.op
             a == asked.a
             b == asked.b
             m == Signed(a)
             n == Signed(b)
             same == LpstResult(op, a, b) = Lp128Result(op, a, b)
             adjusted == op = "MOD" /\ n # 0 /\ Remainder(m, n) < 0
             negative == op = "ASHIFT" /\ m < 0 /\ n < 0
  <2>1. op \in Operations /\ a \in 0 .. W - 1 /\ b \in 0 .. W - 1
    BY <1>1 DEF CaseKnown, Known
  <2> HIDE DEF op, a, b
  <2>2. op = "MOD" => LpstResult(op, a, b) = LpstModulus(a, b)
                      /\ Lp128Result(op, a, b) = Lp128Modulus(a, b)
    BY DEF LpstResult, Lp128Result
  <2>3. op = "ASHIFT" => LpstResult(op, a, b) = LpstArithmeticShift(a, b)
                         /\ Lp128Result(op, a, b) = Lp128ArithmeticShift(a, b)
    BY DEF LpstResult, Lp128Result
  <2>4. op # "MOD" /\ op # "ASHIFT" => same
    BY <2>1 DEF LpstResult, Lp128Result, Operations
  <2>5. /\ LpstModulus(a, b) = Lp128Modulus(a, b) <=> ~(n # 0 /\ Remainder(m, n) < 0)
        /\ n > 0 => LpstModulus(a, b) = m % n
        /\ -16384 <= n /\ n < 0 => (Signed(LpstModulus(a, b)) - m) % (-n) = 0
    BY <2>1, ModulusAgrees
  <2>6. LpstArithmeticShift(a, b) = Lp128ArithmeticShift(a, b) <=> ~(m < 0 /\ n < 0)
    BY <2>1, ShiftsAgree
  <2> HIDE DEF m, n
  <2>7. same <=> ~adjusted /\ ~negative
    <3>1. CASE op = "MOD"
      BY <2>2, <2>5, <3>1
    <3>2. CASE op = "ASHIFT"
      BY <2>3, <2>6, <3>2
    <3>3. CASE op # "MOD" /\ op # "ASHIFT"
      BY <2>4, <3>3
    <3> QED
      BY <3>1, <3>2, <3>3
  <2> QED
    BY <2>5, <2>7 DEF ArithmeticAgrees, op, a, b, m, n
<1>2. CaseKnown => ArithmeticAgrees
  BY <1>1 DEF ArithmeticAgrees
<1> QED
  BY <1>2, CasesKnown, PTL

\* Each condition is the comparison it is named for.
LEMMA TakenIs ==
  ASSUME NEW top, NEW below
  PROVE  /\ LpstTaken("JUMPZ", top, below) = (top = 0)
         /\ LpstTaken("JUMPNZ", top, below) = (top # 0)
         /\ LpstTaken("JUMPF", top, below) = (top = FalseWord)
         /\ LpstTaken("JUMPNF", top, below) = (top # FalseWord)
         /\ LpstTaken("JUMPGZ", top, below) = (Signed(top) > 0)
         /\ LpstTaken("JUMPLEZ", top, below) = (Signed(top) <= 0)
         /\ LpstTaken("JUMPLZ", top, below) = (Signed(top) < 0)
         /\ LpstTaken("JUMPGEZ", top, below) = (Signed(top) >= 0)
         /\ LpstTaken("JUMPL", top, below) = (Signed(top) < Signed(below))
         /\ LpstTaken("JUMPLE", top, below) = (Signed(top) <= Signed(below))
         /\ LpstTaken("JUMPGE", top, below) = (Signed(top) >= Signed(below))
         /\ LpstTaken("JUMPG", top, below) = (Signed(top) > Signed(below))
         /\ LpstTaken("JUMPEQ", top, below) = (top = below)
         /\ LpstTaken("JUMPNE", top, below) = (top # below)
BY DEF LpstTaken

\* BranchesDecided: for every two words.
THEOREM BranchesAreDecided == OperatorsSpec => []BranchesDecided
<1>1. ASSUME CaseKnown, asked.kind = "branch" PROVE BranchesDecided
  <2> DEFINE top == asked.top
             below == asked.below
             met(c) == LpstTaken(c, top, below)
             zero(c) == LpstTaken(c, top, 0)
  <2>1. top \in 0 .. W - 1 /\ below \in 0 .. W - 1
    BY <1>1 DEF CaseKnown, Known
  <2>2. /\ Signed(top) \in Int /\ Signed(below) \in Int
        /\ Signed(0) = 0 /\ (Signed(top) = 0 <=> top = 0)
        /\ (Signed(top) = Signed(below) <=> top = below)
    <3>1. top \in Int /\ 0 <= top /\ top <= 65535 /\ below \in Int /\ 0 <= below /\ below <= 65535
      BY <2>1, WordIs
    <3>2. /\ Signed(top) = IF top < 32768 THEN top ELSE top - 65536
          /\ Signed(below) = IF below < 32768 THEN below ELSE below - 65536
          /\ Signed(0) = IF 0 < 32768 THEN 0 ELSE 0 - 65536
      BY <3>1, SignedIs
    <3> QED
      BY <3>1, <3>2
  <2> HIDE DEF top, below
  <2>3. \A c \in Conditions : met(c) = Lp128Taken(c, top, below)
    BY DEF LpstTaken, Lp128Taken, Conditions
  <2>4. /\ met("JUMPZ") # met("JUMPNZ") /\ met("JUMPF") # met("JUMPNF")
        /\ met("JUMPGZ") # met("JUMPLEZ") /\ met("JUMPLZ") # met("JUMPGEZ")
        /\ met("JUMPL") # met("JUMPGE") /\ met("JUMPLE") # met("JUMPG")
        /\ met("JUMPEQ") # met("JUMPNE")
    BY <2>2, TakenIs
  <2>5. /\ met("JUMPLE") <=> met("JUMPL") \/ met("JUMPEQ")
        /\ ~(met("JUMPL") /\ met("JUMPEQ")) /\ ~(met("JUMPG") /\ met("JUMPEQ"))
    <3> DEFINE x == Signed(top)
               y == Signed(below)
    <3>1. /\ met("JUMPLE") <=> x <= y
          /\ met("JUMPL") <=> x < y
          /\ met("JUMPG") <=> x > y
          /\ met("JUMPEQ") <=> top = below
      BY DEF LpstTaken
    <3>2. x \in Int /\ y \in Int /\ (x = y <=> top = below)
      BY <2>2
    <3> HIDE DEF x, y, met
    <3> QED
      BY <3>1, <3>2
  <2>6. /\ zero("JUMPZ") = zero("JUMPEQ") /\ zero("JUMPGZ") = zero("JUMPG")
        /\ zero("JUMPLZ") = zero("JUMPL")
    BY <2>2, TakenIs
  <2> HIDE DEF met, zero
  <2>7. \A pair \in {<<"JUMPZ", "JUMPNZ">>, <<"JUMPF", "JUMPNF">>,
                     <<"JUMPGZ", "JUMPLEZ">>, <<"JUMPLZ", "JUMPGEZ">>,
                     <<"JUMPL", "JUMPGE">>, <<"JUMPLE", "JUMPG">>,
                     <<"JUMPEQ", "JUMPNE">>} : met(pair[1]) # met(pair[2])
    BY <2>4
  <2>8. \A pair \in {<<"JUMPZ", "JUMPEQ">>, <<"JUMPGZ", "JUMPG">>,
                     <<"JUMPLZ", "JUMPL">>} : zero(pair[1]) = zero(pair[2])
    BY <2>6
  <2> QED
    BY <2>3, <2>5, <2>7, <2>8 DEF BranchesDecided, met, zero, top, below
<1>2. CaseKnown => BranchesDecided
  BY <1>1 DEF BranchesDecided
<1> QED
  BY <1>2, CasesKnown, PTL

----------------------------------------------------------------------------
(* Jumps *)

\* A displacement that fits in a byte comes back out of it.
LEMMA ByteReads ==
  ASSUME NEW d \in Int, InReach(d), d # 0
  PROVE  d % 256 \in 1 .. 255 /\ SignedByte(d % 256) = d
<1>1. -128 <= d /\ d <= 127
  BY DEF InReach
<1>2. d % 256 = IF d < 0 THEN d + 256 ELSE d
  BY <1>1
<1> QED
  BY <1>1, <1>2 DEF SignedByte

\* JumpsLand: for every start and target.
THEOREM EveryJumpLands == OperatorsSpec => []JumpsLand
<1>1. ASSUME CaseKnown, asked.kind = "jump",
             NEW following \in {<< 0, 0 >>, <<255, 1>>}
      PROVE  LET bytes == Selector(asked.style, asked.start, asked.target) \o following
             IN  /\ LpstTarget(bytes, asked.start) = asked.target
                 /\ Lp128Target(bytes, asked.start) = asked.target
  <2> DEFINE style == asked.style
             start == asked.start
             target == asked.target
             d == target - (start + 2)
             bytes == Selector(style, start, target) \o following
             short == style = "REL" \/ (style = "plain" /\ Short(start, target))
  <2>1. /\ start \in 0 .. W - 1 /\ target \in 0 .. W - 1 /\ Encodable(style, start, target)
    BY <1>1 DEF CaseKnown, Known
  <2>2. start \in Int /\ target \in Int /\ 0 <= target /\ target <= 65535 /\ d \in Int
        /\ Word(target) = target
    <3>1. start \in Int /\ target \in Int /\ 0 <= target /\ target <= 65535
      BY <2>1, WordIs
    <3> QED
      BY <2>1, <3>1, WordKeeps
  <2> HIDE DEF style, start, target
  <2>3. CASE short
    <3>1. InReach(d) /\ d # 0
      BY <2>1, <2>2, <2>3 DEF Encodable, Short
    <3>2. d % 256 \in 1 .. 255 /\ SignedByte(d % 256) = d
      BY <2>2, <3>1, ByteReads
    <3>3. bytes = <<d % 256>> \o following
      BY <2>3 DEF Selector
    <3>4. bytes[1] = d % 256
      BY <3>3
    <3>5. bytes[1] # 0 /\ Word(start + 2 + SignedByte(bytes[1])) = target
      <4>1. start + 2 + d = target
        BY <2>2
      <4> QED
        BY <2>2, <3>2, <3>4, <4>1
    <3> QED
      BY <3>5 DEF LpstTarget, Lp128Target, style, start, target
  <2>4. CASE ~short
    <3>1. bytes = <<0, target % 256, target \div 256>> \o following
      BY <2>4 DEF Selector
    <3>2. bytes[1] = 0 /\ bytes[2] = target % 256 /\ bytes[3] = target \div 256
      BY <3>1
    <3>3. (target % 256) + 256 * (target \div 256) = target
      BY <2>2, Division
    <3> QED
      BY <3>2, <3>3 DEF LpstTarget, Lp128Target, style, start, target
  <2> QED
    BY <2>3, <2>4
<1>2. CaseKnown => JumpsLand
  BY <1>1 DEF JumpsLand
<1> QED
  BY <1>2, CasesKnown, PTL

----------------------------------------------------------------------------
(* Bit fields of LinchpinST *)

Forms == {"local", "stack"}

\* A control word names a word of the aggregate.
LEMMA IndexInRange ==
  ASSUME NEW c \in Controls, NEW form \in Forms
  PROVE  WordIndex(c, form) \in 0 .. 255 /\ c.shift \in 0 .. 15 /\ c.width \in 0 .. 15
<1>1. c.local \in 0 .. 15 /\ c.index \in 0 .. 15 /\ c.shift \in 0 .. 15 /\ c.width \in 0 .. 15
  BY DEF Controls, Nibbles
<1> QED
  BY <1>1 DEF WordIndex

\* The bits a store puts into a field are those of the field.
LEMMA ReplacedBits ==
  ASSUME NEW word \in SUBSET Bits, NEW value \in SUBSET Bits, NEW c \in Controls, NEW b \in Bits
  PROVE  b \in Replaced(word, c, value) <=>
           IF c.shift <= b /\ b < c.shift + c.width THEN b - c.shift \in value ELSE b \in word
<1>1. c.shift \in 0 .. 15 /\ c.width \in 0 .. 15 /\ b \in 0 .. 15
  BY DEF Controls, Nibbles, Bits
<1>2. \A S \in SUBSET Int : b \in ShiftedLeft(S, c.shift) <=> b - c.shift \in S
  BY <1>1 DEF ShiftedLeft, Bits
<1>3. Mask(c.width) \in SUBSET Int /\ value \cap Mask(c.width) \in SUBSET Int
  BY <1>1 DEF Mask, Bits
<1>4. b - c.shift \in Mask(c.width) <=> c.shift <= b /\ b < c.shift + c.width
  <2>1. \A s, w \in Int, x \in Int : x - s \in 0 .. w - 1 <=> s <= x /\ x < s + w
    OBVIOUS
  <2>2. c.shift \in Int /\ c.width \in Int /\ b \in Int
    BY <1>1
  <2> QED
    BY <2>1, <2>2 DEF Mask
<1>5. b \in ShiftedLeft(Mask(c.width), c.shift) <=> c.shift <= b /\ b < c.shift + c.width
  <2>1. b \in ShiftedLeft(Mask(c.width), c.shift) <=> b - c.shift \in Mask(c.width)
    BY <1>2, <1>3
  <2> QED
    BY <1>4, <2>1
<1>6. b \in ShiftedLeft(value \cap Mask(c.width), c.shift)
        <=> b - c.shift \in value /\ c.shift <= b /\ b < c.shift + c.width
  <2>1. b \in ShiftedLeft(value \cap Mask(c.width), c.shift)
          <=> b - c.shift \in value \cap Mask(c.width)
    BY <1>2, <1>3
  <2> QED
    BY <1>4, <2>1
<1> QED
  BY <1>5, <1>6 DEF Replaced

\* The bits a load takes from a field.
LEMMA ExtractedBits ==
  ASSUME NEW word \in SUBSET Bits, NEW c \in Controls
  PROVE  Extracted(word, c) = {b \in Mask(c.width) : b + c.shift \in word}
<1>1. c.shift \in 0 .. 15 /\ c.width \in 0 .. 15
  BY DEF Controls, Nibbles
<1>2. \A b \in word : b \in Int /\ b <= 15
  BY DEF Bits
<1>3. \A b \in Mask(c.width) : b \in Bits /\ b \in Int
  BY <1>1 DEF Mask, Bits
<1>4. ASSUME NEW b \in Mask(c.width)
      PROVE  b \in ShiftedRight(word, c.shift) <=> b + c.shift \in word
  BY <1>1, <1>2, <1>3 DEF ShiftedRight
<1> QED
  BY <1>4 DEF Extracted

\* A store keeps words words.
LEMMA ReplacedType ==
  ASSUME NEW word \in SUBSET Bits, NEW value, NEW c
  PROVE  Replaced(word, c, value) \in SUBSET Bits
BY DEF Replaced, ShiftedLeft

\* A field of a word gives back what was put in, cut to the field and the word.
LEMMA WordRoundTrip ==
  ASSUME NEW word \in SUBSET Bits, NEW c \in Controls, NEW value \in SUBSET Bits
  PROVE  Extracted(Replaced(word, c, value), c)
           = {b \in value \cap Mask(c.width) : b + c.shift \in Bits}
<1> DEFINE new == Replaced(word, c, value)
<1>1. c.shift \in 0 .. 15 /\ c.width \in 0 .. 15
  BY DEF Controls, Nibbles
<1>2. new \in SUBSET Bits
  BY ReplacedType
<1>3. ASSUME NEW b \in Mask(c.width)
      PROVE  b + c.shift \in new <=> b \in value /\ b + c.shift \in Bits
  <2>1. b \in Int /\ 0 <= b /\ b < c.width /\ (b + c.shift) - c.shift = b
        /\ c.shift <= b + c.shift /\ b + c.shift < c.shift + c.width
    BY <1>1 DEF Mask
  <2>2. CASE b + c.shift \in Bits
    BY <2>1, <2>2, ReplacedBits
  <2>3. CASE b + c.shift \notin Bits
    BY <1>2, <2>3
  <2> QED
    BY <2>2, <2>3
<1> HIDE DEF new
<1>4. Extracted(new, c) = {b \in Mask(c.width) : b + c.shift \in new}
  BY <1>2, ExtractedBits
<1>5. Extracted(new, c) = {b \in value \cap Mask(c.width) : b + c.shift \in Bits}
  BY <1>3, <1>4
<1> QED
  BY <1>5 DEF new

\* What is stored in a field is loaded from it, cut to the field and to the
\* word (lpst_run_dispatch_bits.c, replace_bit_field and extract_bit_field).
THEOREM FieldRoundTrip ==
  ASSUME NEW agg \in Aggregates, NEW c \in Controls, NEW form \in Forms, NEW value \in SUBSET Bits
  PROVE  /\ LpstStore(agg, c, form, value) \in Aggregates
         /\ LpstLoad(LpstStore(agg, c, form, value), c, form)
              = {b \in value \cap Mask(c.width) : b + c.shift \in Bits}
<1> DEFINE i == WordIndex(c, form)
           new == LpstStore(agg, c, form, value)
<1>1. i \in 0 .. 255
  BY IndexInRange
<1>2. agg[i] \in SUBSET Bits
  BY <1>1 DEF Aggregates
<1>3. new \in Aggregates /\ new[i] = Replaced(agg[i], c, value)
  BY <1>1, <1>2, ReplacedType DEF Aggregates, LpstStore
<1> HIDE DEF new
<1>4. LpstLoad(new, c, form) = Extracted(Replaced(agg[i], c, value), c)
  BY <1>3 DEF LpstLoad
<1>5. LpstLoad(new, c, form) = {b \in value \cap Mask(c.width) : b + c.shift \in Bits}
  BY <1>2, <1>4, WordRoundTrip
<1> QED
  BY <1>3, <1>5 DEF new

\* A store leaves every other word, and every field of the same word that it
\* does not overlap, as they were.
THEOREM FieldsApart ==
  ASSUME NEW agg \in Aggregates, NEW c \in Controls, NEW d \in Controls, NEW form \in Forms,
         NEW value \in SUBSET Bits,
         \/ WordIndex(c, form) # WordIndex(d, form)
         \/ c.shift + c.width <= d.shift \/ d.shift + d.width <= c.shift
  PROVE  LpstLoad(LpstStore(agg, c, form, value), d, form) = LpstLoad(agg, d, form)
<1> DEFINE i == WordIndex(c, form)
           j == WordIndex(d, form)
           new == LpstStore(agg, c, form, value)
<1>1. /\ i \in 0 .. 255 /\ c.shift \in 0 .. 15 /\ c.width \in 0 .. 15
      /\ j \in 0 .. 255 /\ d.shift \in 0 .. 15 /\ d.width \in 0 .. 15
  BY IndexInRange
<1>2. agg[i] \in SUBSET Bits /\ agg[j] \in SUBSET Bits
  BY <1>1 DEF Aggregates
<1>3. new[i] = Replaced(agg[i], c, value) /\ (i # j => new[j] = agg[j])
  BY <1>1 DEF Aggregates, LpstStore
<1> HIDE DEF new
<1>4. new[j] \in SUBSET Bits
  BY <1>2, <1>3, ReplacedType
<1>5. ASSUME NEW b \in Mask(d.width), i = j
      PROVE  b + d.shift \in new[j] <=> b + d.shift \in agg[j]
  <2>1. b \in Int /\ 0 <= b /\ b < d.width
        /\ ~(c.shift <= b + d.shift /\ b + d.shift < c.shift + c.width)
    BY <1>1, <1>5 DEF Mask
  <2>2. CASE b + d.shift \in Bits
    <3>1. b + d.shift \in Replaced(agg[i], c, value) <=> b + d.shift \in agg[i]
      BY <1>2, <2>1, <2>2, ReplacedBits
    <3> QED
      BY <1>3, <1>5, <3>1
  <2>3. CASE b + d.shift \notin Bits
    BY <1>2, <1>4, <2>3
  <2> QED
    BY <2>2, <2>3
<1>6. Extracted(new[j], d) = Extracted(agg[j], d)
  <2>1. CASE i # j
    BY <1>3, <2>1
  <2>2. CASE i = j
    <3>1. \A b \in Mask(d.width) : b + d.shift \in new[j] <=> b + d.shift \in agg[j]
      BY <1>5, <2>2
    <3>2. Extracted(new[j], d) = {b \in Mask(d.width) : b + d.shift \in new[j]}
      BY <1>4, ExtractedBits
    <3>3. Extracted(agg[j], d) = {b \in Mask(d.width) : b + d.shift \in agg[j]}
      BY <1>2, ExtractedBits
    <3> QED
      BY <3>1, <3>2, <3>3
  <2> QED
    BY <2>1, <2>2
<1> QED
  BY <1>6 DEF LpstLoad, new

\* What is stored elsewhere than in a field leaves what is outside the field.
LEMMA OutsideField ==
  ASSUME NEW word \in SUBSET Bits, NEW c \in Controls, NEW value \in SUBSET Bits
  PROVE  LET field == Bits \cap (c.shift .. c.shift + c.width - 1)
         IN  Replaced(word, c, value) \ field = word \ field
<1> DEFINE field == Bits \cap (c.shift .. c.shift + c.width - 1)
           new == Replaced(word, c, value)
<1>1. c.shift \in 0 .. 15 /\ c.width \in 0 .. 15
  BY DEF Controls, Nibbles
<1>2. new \in SUBSET Bits
  BY ReplacedType
<1>3. ASSUME NEW b \in Bits, b \notin field
      PROVE  b \in new <=> b \in word
  <2>1. b \in Int /\ ~(c.shift <= b /\ b < c.shift + c.width)
    BY <1>1, <1>3 DEF Bits
  <2> QED
    BY <2>1, ReplacedBits
<1> HIDE DEF new, field
<1>4. new \ field = word \ field
  BY <1>2, <1>3
<1> QED
  BY <1>4 DEF new, field

\* To store what was loaded changes nothing.
LEMMA PutBack ==
  ASSUME NEW word \in SUBSET Bits, NEW c \in Controls
  PROVE  Replaced(word, c, Extracted(word, c)) = word
<1> DEFINE value == Extracted(word, c)
           new == Replaced(word, c, value)
<1>1. c.shift \in 0 .. 15 /\ c.width \in 0 .. 15
  BY DEF Controls, Nibbles
<1>2. value = {b \in Mask(c.width) : b + c.shift \in word}
  BY ExtractedBits
<1>3. value \in SUBSET Bits
  BY <1>1, <1>2 DEF Mask, Bits
<1>4. new \in SUBSET Bits
  BY ReplacedType
<1> HIDE DEF value
<1>5. ASSUME NEW b \in Bits PROVE b \in new <=> b \in word
  <2>1. b \in Int
    BY DEF Bits
  <2>2. CASE c.shift <= b /\ b < c.shift + c.width
    <3>1. b \in new <=> b - c.shift \in value
      BY <1>3, <2>2, ReplacedBits
    <3>2. b - c.shift \in Mask(c.width) /\ (b - c.shift) + c.shift = b
      BY <1>1, <2>1, <2>2 DEF Mask
    <3> QED
      BY <1>2, <3>1, <3>2
  <2>3. CASE ~(c.shift <= b /\ b < c.shift + c.width)
    BY <1>3, <2>3, ReplacedBits
  <2> QED
    BY <2>2, <2>3
<1> HIDE DEF new
<1>6. new = word
  BY <1>4, <1>5
<1> QED
  BY <1>6 DEF new, value

\* A single bit is a field of width 1.
LEMMA BitIsField ==
  ASSUME NEW word \in SUBSET Bits, NEW c \in Controls
  PROVE  BitSet(word, c)
           = Replaced(word, [c EXCEPT !.width = 1], IF c.width % 2 = 1 THEN {0} ELSE {})
<1> DEFINE bit == [c EXCEPT !.width = 1]
           value == IF c.width % 2 = 1 THEN {0} ELSE {}
<1>1. c.shift \in 0 .. 15 /\ c.width \in 0 .. 15
  BY DEF Controls, Nibbles
<1>2. bit \in Controls /\ bit.shift = c.shift /\ bit.width = 1
  BY DEF Controls, Nibbles
<1>3. value \in SUBSET Bits /\ \A b : b \in value <=> b = 0 /\ c.width % 2 = 1
  BY DEF Bits
<1> HIDE DEF bit, value
<1>4. ASSUME NEW b \in Bits
      PROVE  b \in Replaced(word, bit, value) <=> b \in BitSet(word, c)
  <2>1. b \in Int
    BY DEF Bits
  <2>2. b \in Replaced(word, bit, value)
          <=> IF c.shift <= b /\ b < c.shift + 1 THEN b - c.shift \in value ELSE b \in word
    BY <1>2, <1>3, ReplacedBits
  <2>3. c.shift <= b /\ b < c.shift + 1 <=> b = c.shift
    BY <1>1, <2>1
  <2>4. b = c.shift => b - c.shift = 0
    BY <1>1
  <2>5. b \in BitSet(word, c)
          <=> IF b = c.shift THEN c.width % 2 = 1 ELSE b \in word
    BY DEF BitSet
  <2> QED
    BY <1>3, <2>2, <2>3, <2>4, <2>5
<1>5. Replaced(word, bit, value) \in SUBSET Bits
  BY ReplacedType
<1>6. BitSet(word, c) \in SUBSET Bits
  BY <1>1 DEF BitSet, Bits
<1>7. Replaced(word, bit, value) = BitSet(word, c)
  BY <1>4, <1>5, <1>6
<1> QED
  BY <1>7 DEF bit, value

\* The word of an aggregate of 32 that a control word names
LEMMA Among32 ==
  ASSUME NEW c \in Controls, c.local \in {0, 1}, NEW form \in Forms
  PROVE  /\ WordIndex(c, form) \in 0 .. 31
         /\ WordIndex(c, form) = 0 => c.index = 0
         /\ WordIndex([c EXCEPT !.width = 1], form) = WordIndex(c, form)
<1>1. c.local \in 0 .. 1 /\ c.index \in 0 .. 15
  BY DEF Controls, Nibbles
<1>2. /\ [c EXCEPT !.width = 1].local = c.local
      /\ [c EXCEPT !.width = 1].index = c.index
  BY DEF Controls
<1>3. CASE form = "local"
  BY <1>1, <1>2, <1>3 DEF WordIndex
<1>4. CASE form # "local"
  BY <1>1, <1>2, <1>4, SMTT(30) DEF WordIndex
<1> QED
  BY <1>3, <1>4

\* FieldsKeep: for every word of the aggregate, control word and value.
THEOREM FieldsAreKept == OperatorsSpec => []FieldsKeep
<1>1. ASSUME CaseKnown, asked.kind = "field" PROVE FieldsKeep
  <2> DEFINE c      == asked.c
             form   == asked.form
             word   == asked.word
             value  == asked.value
             handle == asked.handle
             index     == WordIndex(c, form)
             agg    == [i \in 0 .. 31 |-> IF i = index THEN word ELSE {0, i % 16}]
             stored == LpstStore(agg, c, form, value)
             field  == Bits \cap (c.shift .. c.shift + c.width - 1)
             bit    == [c EXCEPT !.width = 1]
             one    == IF c.width % 2 = 1 THEN {0} ELSE {}
  <2>1. /\ word \in SUBSET Bits /\ value \in SUBSET Bits
        /\ c \in Controls /\ c.local \in {0, 1} /\ form \in Forms /\ handle \in Handles
    BY <1>1 DEF CaseKnown, Known, Forms
  <2> HIDE DEF c, form, word, value, handle
  <2>2. /\ index \in 0 .. 31 /\ (index = 0 => c.index = 0) /\ WordIndex(bit, form) = index
    BY <2>1, Among32
  <2> HIDE DEF index, bit, one
  <2>3. DOMAIN agg = 0 .. 31 /\ agg[index] = word
    BY <2>2
  <2> HIDE DEF agg
  <2>4. /\ stored = [agg EXCEPT ![index] = Replaced(word, c, value)]
        /\ stored[index] = Replaced(word, c, value)
        /\ \A i \in 0 .. 31 : i # index => stored[i] = agg[i]
    BY <2>2, <2>3 DEF LpstStore, index
  <2> HIDE DEF stored
  <2>5. c.shift + c.width <= 16 => LpstLoad(stored, c, form) = value \cap Mask(c.width)
    <3>1. LpstLoad(stored, c, form) = {b \in value \cap Mask(c.width) : b + c.shift \in Bits}
      BY <2>1, <2>4, WordRoundTrip DEF LpstLoad, index
    <3>2. c.shift \in 0 .. 15 /\ c.width \in 0 .. 15
      BY <2>1 DEF Controls, Nibbles
    <3>3. c.shift + c.width <= 16 => \A b \in Mask(c.width) : b + c.shift \in Bits
      BY <3>2 DEF Mask, Bits
    <3> QED
      BY <3>1, <3>3
  <2>6. stored[index] \ field = agg[index] \ field
    BY <2>1, <2>3, <2>4, OutsideField
  <2>7. LpstStore(agg, c, form, LpstLoad(agg, c, form)) = agg
    <3>1. LpstLoad(agg, c, form) = Extracted(word, c)
      BY <2>3 DEF LpstLoad, index
    <3>2. LpstStore(agg, c, form, LpstLoad(agg, c, form)) = [agg EXCEPT ![index] = word]
      BY <2>1, <2>3, <3>1, PutBack DEF LpstStore, index
    <3>3. [agg EXCEPT ![index] = word] = agg
      BY <2>2, <2>3 DEF agg
    <3> QED
      BY <3>2, <3>3
  <2>8. LpstSetBit(agg, c, form) = LpstStore(agg, bit, form, one)
    <3>1. LpstSetBit(agg, c, form) = [agg EXCEPT ![index] = BitSet(word, c)]
      BY <2>3 DEF LpstSetBit, index
    <3>2. LpstStore(agg, bit, form, one) = [agg EXCEPT ![index] = Replaced(word, bit, one)]
      BY <2>2, <2>3 DEF LpstStore
    <3>3. BitSet(word, c) = Replaced(word, bit, one)
      BY <2>1, BitIsField DEF bit, one
    <3> QED
      BY <3>1, <3>2, <3>3
  <2>9. handle = "usable" =>
          /\ Lp128Store(agg, c, form, handle, value) = stored
          /\ Lp128SetBit(agg, c, form, handle) = LpstSetBit(agg, c, form)
    BY DEF Lp128Store, Lp128SetBit, LpstSetBit, LpstStore, stored
  <2>10. handle = "usable" /\ c.shift = 0 /\ index = 0 =>
           Lp128Load(agg, c, handle) = LpstLoad(agg, c, form)
    BY <2>2 DEF Lp128Load, LpstLoad, Extracted, index
  <2>11. handle = "usable" =>
           Lp128LoadPops(form, handle) = IF form = "stack" THEN 1 ELSE 0
    BY <2>1 DEF Lp128LoadPops, Forms
  <2> QED
    BY <2>4, <2>5, <2>6, <2>7, <2>8, <2>9, <2>10, <2>11
    DEF FieldsKeep, c, form, word, value, handle, index, agg, stored, bit, one
<1>2. CaseKnown => FieldsKeep
  BY <1>1 DEF FieldsKeep
<1> QED
  BY <1>2, CasesKnown, PTL

----------------------------------------------------------------------------
(* Induction over sequences.  The library's induction theorems take an      *)
(* operator, which no prover here instantiates; a set takes its place.      *)

\* Among natural numbers there is always a least.
LEMMA LeastNat ==
  ASSUME NEW T \in SUBSET Nat, T # {}
  PROVE  \E x \in T : \A y \in T : x <= y
<1>1. PICK x \in T : \A y \in T : ~ (<<y, x>> \in OpToRel(<, Nat))
  BY NatLessThanWellFounded, WFMin
<1>2. \A y \in T : ~ (y < x)
  BY <1>1 DEF OpToRel
<1> QED
  BY <1>2

\* Induction up to a bound, for sets: what holds of 0 and goes on holds up to there.
LEMMA UpTo ==
  ASSUME NEW T, NEW N \in Nat, 0 \in T, \A n \in 0 .. N - 1 : n \in T => n + 1 \in T
  PROVE  \A n \in 0 .. N : n \in T
<1> DEFINE Wrong == {n \in 0 .. N : n \notin T}
<1>1. ASSUME Wrong # {} PROVE FALSE
  <2>1. Wrong \in SUBSET Nat
    OBVIOUS
  <2>2. PICK n \in Wrong : \A j \in Wrong : n <= j
    BY <1>1, <2>1, LeastNat
  <2>3. n # 0 /\ n \in 0 .. N /\ n \notin T
    BY <2>2
  <2>4. n - 1 \in 0 .. N - 1 /\ n - 1 \in 0 .. N /\ ~ (n <= n - 1) /\ (n - 1) + 1 = n
    BY <2>3
  <2>5. n - 1 \in T
    BY <2>2, <2>4
  <2> QED
    BY <2>3, <2>4, <2>5
<1> QED
  BY <1>1

\* f lists what a sequence of sequences is when its first n are joined.
Joins(f, s, S) ==
  /\ f \in [0 .. Len(s) -> Seq(S)] /\ f[0] = << >>
  /\ \A i \in 1 .. Len(s) : f[i] = f[i - 1] \o s[i]

LEMMA JoinsExist ==
  ASSUME NEW S, NEW s \in Seq(Seq(S))
  PROVE  \E f : Joins(f, s, S)
<1> DEFINE JoinsTo(n, f) == /\ f \in [0 .. n -> Seq(S)] /\ f[0] = << >>
                            /\ \A i \in 1 .. n : f[i] = f[i - 1] \o s[i]
           T == {n \in Nat : \E f : JoinsTo(n, f)}
<1>1. 0 \in T
  <2> DEFINE f == [i \in 0 .. 0 |-> << >>]
  <2>1. << >> \in Seq(S)
    BY EmptySeq
  <2>2. JoinsTo(0, f)
    BY <2>1
  <2> QED
    BY <2>2
<1>2. ASSUME NEW n \in 0 .. Len(s) - 1, n \in T PROVE n + 1 \in T
  <2>1. PICK f : JoinsTo(n, f)
    BY <1>2
  <2> DEFINE g == [i \in 0 .. n + 1 |-> IF i = n + 1 THEN f[n] \o s[n + 1] ELSE f[i]]
  <2>2. n \in Nat /\ n + 1 \in 1 .. Len(s) /\ n \in 0 .. n
    BY LenProperties
  <2>3. f[n] \in Seq(S) /\ s[n + 1] \in Seq(S)
    BY <2>1, <2>2, ElementOfSeq
  <2>4. f[n] \o s[n + 1] \in Seq(S)
    BY <2>3, ConcatProperties
  <2>5. g \in [0 .. n + 1 -> Seq(S)] /\ g[0] = << >>
    BY <2>1, <2>2, <2>4
  <2>6. ASSUME NEW i \in 1 .. n + 1 PROVE g[i] = g[i - 1] \o s[i]
    <3>0. i \in 0 .. n + 1 /\ i - 1 \in 0 .. n + 1 /\ i - 1 # n + 1
      BY <2>2
    <3>3. g[i - 1] = f[i - 1] /\ g[i] = IF i = n + 1 THEN f[n] \o s[n + 1] ELSE f[i]
      BY <3>0
    <3> HIDE DEF g
    <3>1. CASE i = n + 1
      <4>1. i - 1 = n
        BY <2>2, <3>1
      <4> QED
        BY <3>1, <3>3, <4>1
    <3>2. CASE i # n + 1
      <4>1. i \in 1 .. n
        BY <2>2, <3>2
      <4>2. f[i] = f[i - 1] \o s[i]
        BY <2>1, <4>1
      <4> QED
        BY <3>2, <3>3, <4>2
    <3> QED
      BY <3>1, <3>2
  <2>7. JoinsTo(n + 1, g)
    BY <2>5, <2>6
  <2> HIDE DEF g, JoinsTo
  <2> QED
    BY <2>2, <2>7
<1>3. Len(s) \in Nat
  BY LenProperties
<1> HIDE DEF T
<1>4. \A n \in 0 .. Len(s) - 1 : n \in T => n + 1 \in T
  BY <1>2
<1>5. \A n \in 0 .. Len(s) : n \in T
  BY <1>1, <1>3, <1>4, UpTo
<1>6. Len(s) \in T
  BY <1>3, <1>5
<1> QED
  BY <1>6 DEF T, Joins

\* FlattenSeq joins them all.
LEMMA FlattenJoins ==
  ASSUME NEW S, NEW s \in Seq(Seq(S)), NEW f, Joins(f, s, S)
  PROVE  FlattenSeq(s) = f[Len(s)]
<1>1. Len(s) \in Nat /\ (Len(s) = 0 => s = << >>)
  BY LenProperties, EmptySeq
<1>2. CASE Len(s) = 0
  BY <1>1, <1>2 DEF FlattenSeq, Joins
<1>3. CASE Len(s) # 0
  <2> DEFINE step(h) == [i \in 1 .. Len(s) |-> IF i = 1 THEN s[i] ELSE h[i - 1] \o s[i]]
             flatten == CHOOSE h : h = step(h)
  <2>1. FlattenSeq(s) = flatten[Len(s)]
    BY <1>3 DEF FlattenSeq
  <2>2. \E h : h = step(h)
    <3> DEFINE h == [i \in 1 .. Len(s) |-> f[i]]
    <3>1. ASSUME NEW i \in 1 .. Len(s) PROVE h[i] = IF i = 1 THEN s[i] ELSE h[i - 1] \o s[i]
      <4>1. h[i] = f[i - 1] \o s[i] /\ s[i] \in Seq(S)
        BY <1>1, ElementOfSeq DEF Joins
      <4>2. CASE i = 1
        <5>1. f[0] = << >> /\ i - 1 = 0
          BY <4>2 DEF Joins
        <5> QED
          BY <4>1, <4>2, <5>1, ConcatEmptySeq
      <4>3. CASE i # 1
        <5>1. i - 1 \in 1 .. Len(s)
          BY <1>1, <4>3
        <5> QED
          BY <4>1, <4>3, <5>1
      <4> QED
        BY <4>2, <4>3
    <3>2. h = step(h)
      BY <3>1
    <3> QED
      BY <3>2
  <2>3. flatten = step(flatten)
    BY <2>2, Zenon
  <2> HIDE DEF flatten
  <2> DEFINE T == {n \in Nat : n = 0 \/ flatten[n] = f[n]}
  <2>4. ASSUME NEW n \in 0 .. Len(s) - 1, n \in T PROVE n + 1 \in T
    <3>1. n + 1 \in 1 .. Len(s) /\ (n + 1) - 1 = n /\ n + 1 \in Nat
      BY <1>1
    <3>2. flatten[n + 1] = IF n + 1 = 1 THEN s[n + 1] ELSE flatten[n] \o s[n + 1]
      BY <2>3, <3>1
    <3>3. f[n + 1] = f[n] \o s[n + 1] /\ s[n + 1] \in Seq(S)
      BY <3>1, ElementOfSeq DEF Joins
    <3>4. CASE n = 0
      <4>1. f[0] = << >>
        BY DEF Joins
      <4> QED
        BY <3>1, <3>2, <3>3, <3>4, <4>1, ConcatEmptySeq
    <3>5. CASE n # 0
      <4>1. flatten[n] = f[n]
        BY <2>4, <3>5
      <4>2. flatten[n + 1] = f[n + 1]
        <5>1. n + 1 # 1
          BY <3>1, <3>5
        <5>2. flatten[n + 1] = flatten[n] \o s[n + 1]
          BY <3>2, <5>1, Zenon
        <5> QED
          BY <3>3, <4>1, <5>2, Zenon
      <4> QED
        BY <3>1, <4>2
    <3> QED
      BY <3>4, <3>5
  <2>5. 0 \in T
    OBVIOUS
  <2> HIDE DEF T
  <2>6. \A n \in 0 .. Len(s) - 1 : n \in T => n + 1 \in T
    BY <2>4
  <2>7. \A n \in 0 .. Len(s) : n \in T
    BY <1>1, <2>5, <2>6, UpTo
  <2>8. Len(s) \in T
    BY <1>1, <2>7
  <2> QED
    BY <1>3, <2>1, <2>8 DEF T
<1> QED
  BY <1>2, <1>3

----------------------------------------------------------------------------
(* UNPACK *)

Symbol == 0 .. 31

\* Three symbols as one number, which is what Packed puts into a word.
Three(t, i) == 1024 * t[3 * i - 2] + 32 * t[3 * i - 1] + t[3 * i]

\* Symbols undoes Three, also with bit 15 set, which Stops looks at.
LEMMA SymbolsOfThree ==
  ASSUME NEW a \in Symbol, NEW b \in Symbol, NEW c \in Symbol
  PROVE  LET w == 1024 * a + 32 * b + c
         IN  /\ Symbols(w) = <<a, b, c>> /\ Symbols(w + 32768) = <<a, b, c>>
             /\ ~ Stops(w) /\ Stops(w + 32768)
<1> DEFINE w == 1024 * a + 32 * b + c
<1>1. /\ a \in Int /\ b \in Int /\ c \in Int
      /\ 0 <= a /\ a <= 31 /\ 0 <= b /\ b <= 31 /\ 0 <= c /\ c <= 31
  BY DEF Symbol
<1>2. w \div 1024 = a /\ (w + 32768) \div 1024 = a + 32 /\ w \div 32 = 32 * a + b
      /\ (w + 32768) \div 32 = 1024 + 32 * a + b
  BY <1>1
<1>3. a % 32 = a /\ (a + 32) % 32 = a /\ (32 * a + b) % 32 = b /\ (1024 + 32 * a + b) % 32 = b
  BY <1>1
<1>4. w % 32 = c /\ (w + 32768) % 32 = c
  BY <1>1
<1>5. w \in Int /\ w < 32768 /\ w + 32768 >= 32768
  BY <1>1
<1> HIDE DEF w
<1>6. (w \div 1024) % 32 = a /\ (w \div 32) % 32 = b /\ w % 32 = c
  BY <1>2, <1>3, <1>4
<1>7. ((w + 32768) \div 1024) % 32 = a /\ ((w + 32768) \div 32) % 32 = b
  BY <1>2, <1>3
<1>8. Symbols(w) = <<a, b, c>>
  BY <1>6 DEF Symbols
<1>9. Symbols(w + 32768) = <<a, b, c>>
  BY <1>4, <1>7 DEF Symbols
<1>10. ~ Stops(w) /\ Stops(w + 32768)
  BY <1>5 DEF Stops
<1> QED
  BY <1>8, <1>9, <1>10 DEF w

\* Words that hold the threes of a sequence give it back when joined.
Threes(t, m) == [i \in 1 .. m |-> <<t[3 * i - 2], t[3 * i - 1], t[3 * i]>>]

LEMMA ThreesJoin ==
  ASSUME NEW t \in Seq(Symbol), NEW m \in Nat, Len(t) = 3 * m
  PROVE  FlattenSeq(Threes(t, m)) = t
<1> DEFINE s == Threes(t, m)
<1>1. ASSUME NEW i \in 1 .. m
      PROVE  /\ 3 * i - 2 \in 1 .. Len(t) /\ 3 * i - 1 \in 1 .. Len(t) /\ 3 * i \in 1 .. Len(t)
             /\ <<t[3 * i - 2], t[3 * i - 1], t[3 * i]>> \in Seq(Symbol)
  <2>1. 3 * i - 2 \in 1 .. Len(t) /\ 3 * i - 1 \in 1 .. Len(t) /\ 3 * i \in 1 .. Len(t)
    OBVIOUS
  <2>2. t[3 * i - 2] \in Symbol /\ t[3 * i - 1] \in Symbol /\ t[3 * i] \in Symbol
    BY <2>1, ElementOfSeq
  <2> QED
    BY <2>1, <2>2
<1>2. /\ s \in Seq(Seq(Symbol)) /\ Len(s) = m
      /\ \A i \in 1 .. m : s[i] = <<t[3 * i - 2], t[3 * i - 1], t[3 * i]>>
  BY <1>1 DEF Threes
<1> HIDE DEF s
<1>3. PICK f : Joins(f, s, Symbol)
  BY <1>2, JoinsExist
<1> DEFINE T == {n \in Nat : n <= m => f[n] = SubSeq(t, 1, 3 * n)}
<1>4. 0 \in T
  <2>1. f[0] = << >> /\ SubSeq(t, 1, 3 * 0) = << >>
    BY <1>3, SubSeqEmpty DEF Joins
  <2> QED
    BY <2>1
<1>5. ASSUME NEW n \in 0 .. m - 1, n \in T PROVE n + 1 \in T
  <2>1. n + 1 \in 1 .. m /\ (n + 1) - 1 = n /\ n + 1 \in Nat /\ n \in Nat /\ n <= m
    OBVIOUS
  <2>2. f[n + 1] = f[n] \o s[n + 1] /\ f[n] = SubSeq(t, 1, 3 * n)
    <3>1. f[n] = SubSeq(t, 1, 3 * n)
      BY <1>5, <2>1
    <3>2. n + 1 \in 1 .. Len(s)
      BY <1>2, <2>1
    <3>3. \A i \in 1 .. Len(s) : f[i] = f[i - 1] \o s[i]
      BY <1>3 DEF Joins
    <3>4. f[n + 1] = f[(n + 1) - 1] \o s[n + 1]
      BY <3>2, <3>3
    <3> QED
      BY <2>1, <3>1, <3>4
  <2> DEFINE x == SubSeq(t, 1, 3 * n)
             y == <<t[3 * (n + 1) - 2], t[3 * (n + 1) - 1], t[3 * (n + 1)]>>
             z == SubSeq(t, 1, 3 * (n + 1))
  <2>3. s[n + 1] = y /\ y \in Seq(Symbol) /\ Len(y) = 3
    BY <1>1, <1>2, <2>1
  <2>4. 3 * n <= Len(t) /\ 3 * (n + 1) <= Len(t) /\ 3 * n \in Int /\ 3 * (n + 1) \in Int /\ 0 <= 3 * n
    BY <2>1
  <2>5. \A i \in 1 .. Len(t) : t[i] \in Symbol
    BY ElementOfSeq
  <2>6. x \in Seq(Symbol) /\ Len(x) = 3 * n /\ \A i \in 1 .. 3 * n : x[i] = t[i]
    BY <2>4, <2>5, SubSeqProperties
  <2>7. z \in Seq(Symbol) /\ Len(z) = 3 * (n + 1) /\ \A i \in 1 .. 3 * (n + 1) : z[i] = t[i]
    BY <2>4, <2>5, SubSeqProperties
  <2>8. x \o y \in Seq(Symbol) /\ Len(x \o y) = 3 * n + 3
        /\ \A i \in 1 .. 3 * n + 3 : (x \o y)[i] = IF i <= 3 * n THEN x[i] ELSE y[i - 3 * n]
    BY <2>3, <2>6, ConcatProperties
  <2>9. y[1] = t[3 * n + 1] /\ y[2] = t[3 * n + 2] /\ y[3] = t[3 * n + 3]
    BY <2>1
  <2> HIDE DEF x, y, z
  <2>10. ASSUME NEW i \in 1 .. 3 * n + 3 PROVE (x \o y)[i] = z[i]
    <3>1. CASE i <= 3 * n
      BY <2>1, <2>6, <2>7, <2>8, <3>1
    <3>2. CASE i = 3 * n + 1
      <4>1. i - 3 * n = 1 /\ ~ (i <= 3 * n) /\ i \in 1 .. 3 * (n + 1)
        BY <2>4, <3>2
      <4>2. (x \o y)[i] = y[1]
        BY <2>8, <4>1
      <4> QED
        BY <2>7, <2>9, <3>2, <4>1, <4>2
    <3>3. CASE i = 3 * n + 2
      <4>1. i - 3 * n = 2 /\ ~ (i <= 3 * n) /\ i \in 1 .. 3 * (n + 1)
        BY <2>4, <3>3
      <4>2. (x \o y)[i] = y[2]
        BY <2>8, <4>1
      <4> QED
        BY <2>7, <2>9, <3>3, <4>1, <4>2
    <3>4. CASE i = 3 * n + 3
      <4>1. i - 3 * n = 3 /\ ~ (i <= 3 * n) /\ i \in 1 .. 3 * (n + 1)
        BY <2>4, <3>4
      <4>2. (x \o y)[i] = y[3]
        BY <2>8, <4>1
      <4> QED
        BY <2>7, <2>9, <3>4, <4>1, <4>2
    <3> QED
      <4>1. i <= 3 * n \/ i = 3 * n + 1 \/ i = 3 * n + 2 \/ i = 3 * n + 3
        BY <2>4
      <4> QED
        BY <3>1, <3>2, <3>3, <3>4, <4>1
  <2>11. x \o y = z
    <3>1. 3 * (n + 1) = 3 * n + 3
      BY <2>1
    <3>2. Len(x \o y) = Len(z) /\ \A i \in 1 .. Len(x \o y) : (x \o y)[i] = z[i]
      BY <2>7, <2>8, <2>10, <3>1
    <3> QED
      BY <2>7, <2>8, <3>2, SeqEqual
  <2>12. f[n + 1] = z
    BY <2>2, <2>3, <2>11 DEF x
  <2> QED
    BY <2>1, <2>12 DEF z
<1>6. \A n \in 0 .. m - 1 : n \in T => n + 1 \in T
  BY <1>5
<1> HIDE DEF T
<1>7. \A n \in 0 .. m : n \in T
  BY <1>4, <1>6, UpTo
<1>8. m \in T
  BY <1>7
<1>9. f[m] = SubSeq(t, 1, Len(t))
  BY <1>8 DEF T
<1>10. FlattenSeq(s) = f[m]
  BY <1>2, <1>3, FlattenJoins
<1> QED
  BY <1>9, <1>10, SubSeqFull DEF s

\* UNPACK of words that hold a text and do not stop gives the text ...
LEMMA UnpacksPlain ==
  ASSUME NEW t \in Seq(Symbol), NEW m \in Nat, Len(t) = 3 * m, NEW words, NEW offset,
         \A i \in 1 .. m : words[i] = Three(t, i)
  PROVE  Unpacked(words, m, offset) = [bytes |-> t, pushed |-> (offset + 3 * m) % W]
<1>1. ASSUME NEW i \in 1 .. m
      PROVE  /\ Symbols(words[i]) = <<t[3 * i - 2], t[3 * i - 1], t[3 * i]>>
             /\ ~ Stops(words[i])
  <2>1. 3 * i - 2 \in 1 .. Len(t) /\ 3 * i - 1 \in 1 .. Len(t) /\ 3 * i \in 1 .. Len(t)
    OBVIOUS
  <2>2. t[3 * i - 2] \in Symbol /\ t[3 * i - 1] \in Symbol /\ t[3 * i] \in Symbol
    BY <2>1, ElementOfSeq
  <2>3. words[i] = 1024 * t[3 * i - 2] + 32 * t[3 * i - 1] + t[3 * i]
    BY DEF Three
  <2> QED
    BY <2>2, <2>3, SymbolsOfThree
<1>2. {i \in 1 .. m : Stops(words[i])} = {}
  BY <1>1
<1> DEFINE s == [i \in 1 .. m |-> Symbols(words[i])]
<1>3. s = Threes(t, m)
  BY <1>1 DEF Threes
<1> HIDE DEF s
<1>4. FlattenSeq(s) = t
  BY <1>3, ThreesJoin
<1> QED
  BY <1>2, <1>4 DEF Unpacked, s

\* What UNPACK gives of m words of text, the last of which stops it
Stopped(t, m) == [bytes |-> [t EXCEPT ![3 * m] = @ + 128], pushed |-> FalseWord]

\* ... and if the last of them stops, with bit 7 on its last symbol.
LEMMA UnpacksStopped ==
  ASSUME NEW t \in Seq(Symbol), NEW m \in Nat, m # 0, Len(t) = 3 * m, NEW words, NEW offset,
         \A i \in 1 .. m - 1 : words[i] = Three(t, i), words[m] = Three(t, m) + 32768
  PROVE  Unpacked(words, m, offset) = Stopped(t, m)
<1>1. ASSUME NEW i \in 1 .. m
      PROVE  /\ Symbols(words[i]) = <<t[3 * i - 2], t[3 * i - 1], t[3 * i]>>
             /\ Stops(words[i]) <=> i = m
  <2>1. 3 * i - 2 \in 1 .. Len(t) /\ 3 * i - 1 \in 1 .. Len(t) /\ 3 * i \in 1 .. Len(t)
    OBVIOUS
  <2>2. t[3 * i - 2] \in Symbol /\ t[3 * i - 1] \in Symbol /\ t[3 * i] \in Symbol
    BY <2>1, ElementOfSeq
  <2>3. CASE i = m
    <3>1. words[i] = (1024 * t[3 * i - 2] + 32 * t[3 * i - 1] + t[3 * i]) + 32768
      BY <2>3 DEF Three
    <3> QED
      BY <2>2, <2>3, <3>1, SymbolsOfThree
  <2>4. CASE i # m
    <3>1. i \in 1 .. m - 1
      BY <2>4
    <3>2. words[i] = 1024 * t[3 * i - 2] + 32 * t[3 * i - 1] + t[3 * i]
      BY <3>1 DEF Three
    <3> QED
      BY <2>2, <2>4, <3>2, SymbolsOfThree
  <2> QED
    BY <2>3, <2>4
<1> DEFINE last == {i \in 1 .. m : Stops(words[i])}
<1>2. last = {m} /\ last # {}
  BY <1>1
<1> HIDE DEF last
<1>3. Min(last) = m
  BY <1>2 DEF Min
<1> DEFINE s == [i \in 1 .. m |-> Symbols(words[i])]
<1>4. s = Threes(t, m)
  BY <1>1 DEF Threes
<1> HIDE DEF s
<1>5. FlattenSeq(s) = t
  BY <1>4, ThreesJoin
<1> DEFINE upto  == IF last = {} THEN m ELSE Min(last)
           plain == FlattenSeq([i \in 1 .. upto |-> Symbols(words[i])])
<1>6. upto = m
  BY <1>2, <1>3
<1>7. plain = t
  BY <1>5, <1>6 DEF s
<1>8. Unpacked(words, m, offset)
        = IF last = {} THEN [bytes |-> plain, pushed |-> (offset + Len(plain)) % W]
          ELSE [bytes |-> [plain EXCEPT ![Len(plain)] = @ + 128], pushed |-> FalseWord]
  BY DEF Unpacked, last
<1> HIDE DEF plain
<1> QED
  BY <1>2, <1>7, <1>8 DEF Stopped

\* A text, packed, comes out in one part or two.
LEMMA PackedUnpacks ==
  ASSUME NEW text \in Seq(Symbol), NEW n \in Nat \ {0}, Len(text) = 3 * n,
         NEW cut \in 0 .. n - 1, NEW offset \in Nat
  PROVE  LET words == Packed(text)
             whole == Unpacked(words, Len(words), offset)
             part  == Unpacked(words, cut, offset)
             rest  == Unpacked(SubSeq(words, cut + 1, Len(words)), Len(words) - cut, part.pushed)
         IN  /\ whole.bytes = [text EXCEPT ![Len(text)] = @ + 128]
             /\ whole.pushed = FalseWord /\ rest.pushed = FalseWord
             /\ part.bytes \o rest.bytes = whole.bytes
             /\ part.pushed = Word(offset + 3 * cut)
<1> DEFINE words == Packed(text)
<1>1. Len(text) \div 3 = n
  OBVIOUS
<1>2. words = [i \in 1 .. n |-> Three(text, i) + IF i = n THEN 32768 ELSE 0]
  BY <1>1 DEF Packed, Three
<1>3. \A i \in 1 .. n : Three(text, i) \in Int
  <2>1. ASSUME NEW i \in 1 .. n PROVE Three(text, i) \in Int
    <3>1. 3 * i - 2 \in 1 .. Len(text) /\ 3 * i - 1 \in 1 .. Len(text) /\ 3 * i \in 1 .. Len(text)
      OBVIOUS
    <3>2. text[3 * i - 2] \in Symbol /\ text[3 * i - 1] \in Symbol /\ text[3 * i] \in Symbol
      BY <3>1, ElementOfSeq
    <3>3. \A x \in Symbol : x \in Int
      BY DEF Symbol
    <3> QED
      BY <3>2, <3>3 DEF Three
  <2> QED
    BY <2>1
<1>4. /\ words \in Seq(Int) /\ Len(words) = n
      /\ \A i \in 1 .. n - 1 : words[i] = Three(text, i)
      /\ words[n] = Three(text, n) + 32768
  BY <1>2, <1>3
<1> HIDE DEF words
<1> DEFINE whole == Unpacked(words, Len(words), offset)
           part  == Unpacked(words, cut, offset)
           tail  == SubSeq(words, cut + 1, Len(words))
           rest  == Unpacked(tail, Len(words) - cut, part.pushed)
           low   == SubSeq(text, 1, 3 * cut)
           high  == SubSeq(text, 3 * cut + 1, Len(text))
           k     == n - cut
<1>5. whole = [bytes |-> [text EXCEPT ![3 * n] = @ + 128], pushed |-> FalseWord]
  <2>1. /\ n \in Nat /\ n # 0
        /\ \A i \in 1 .. n - 1 : words[i] = Three(text, i)
        /\ words[n] = Three(text, n) + 32768
    BY <1>4
  <2>2. Unpacked(words, n, offset)
          = [bytes |-> [text EXCEPT ![3 * n] = @ + 128], pushed |-> FalseWord]
    BY <2>1, UnpacksStopped DEF Stopped
  <2> QED
    BY <1>4, <2>2
<1>6. \A i \in 1 .. Len(text) : text[i] \in Symbol
  BY ElementOfSeq
<1>7. /\ 3 * cut <= Len(text) /\ 3 * cut \in Int /\ 0 <= 3 * cut /\ Len(text) \in Int
      /\ cut \in Nat /\ k \in Nat \ {0} /\ Len(text) - 3 * cut = 3 * k /\ cut <= n
  OBVIOUS
<1>8. low \in Seq(Symbol) /\ Len(low) = 3 * cut /\ \A i \in 1 .. 3 * cut : low[i] = text[i]
  BY <1>6, <1>7, SubSeqProperties, SMTT(30)
<1>9. /\ high \in Seq(Symbol) /\ Len(high) = 3 * k
      /\ \A i \in 1 .. 3 * k : high[i] = text[3 * cut + i]
  BY <1>6, <1>7, SubSeqProperties
<1>10. tail \in Seq(Int) /\ \A i \in 1 .. k : tail[i] = words[cut + i]
  <2>1. \A i \in cut + 1 .. n : words[i] \in Int
    BY <1>4, ElementOfSeq
  <2>2. cut + 1 \in Int /\ n \in Int /\ n - (cut + 1) + 1 = k
    BY <1>7
  <2>3. tail = SubSeq(words, cut + 1, n)
    BY <1>4
  <2> HIDE DEF k, tail
  <2> DEFINE l == cut + 1
  <2>6. l \in Int /\ n \in Int /\ \A i \in l .. n : words[i] \in Int
    BY <2>1, <2>2
  <2> HIDE DEF l
  <2>7. /\ SubSeq(words, l, n) \in Seq(Int)
        /\ \A i \in 1 .. n - l + 1 : SubSeq(words, l, n)[i] = words[l + i - 1]
    BY <2>6, SubSeqProperties
  <2>4. tail \in Seq(Int) /\ \A i \in 1 .. n - (cut + 1) + 1 : tail[i] = words[(cut + 1) + i - 1]
    BY <2>3, <2>7 DEF l
  <2>5. ASSUME NEW i \in 1 .. k PROVE tail[i] = words[cut + i]
    <3>1. i \in 1 .. n - (cut + 1) + 1 /\ (cut + 1) + i - 1 = cut + i
      BY <1>7, <2>2
    <3>2. tail[i] = words[(cut + 1) + i - 1]
      BY <2>4, <3>1
    <3> QED
      BY <3>1, <3>2
  <2> QED
    BY <2>4, <2>5
<1> HIDE DEF low, high, tail, k
<1>11. part = [bytes |-> low, pushed |-> (offset + 3 * cut) % W]
  <2>1. ASSUME NEW i \in 1 .. cut PROVE words[i] = Three(low, i)
    <3>1. i \in 1 .. n - 1
      BY <1>7
    <3>2. 3 * i - 2 \in 1 .. 3 * cut /\ 3 * i - 1 \in 1 .. 3 * cut /\ 3 * i \in 1 .. 3 * cut
      BY <1>7
    <3> QED
      BY <1>4, <1>8, <3>1, <3>2 DEF Three
  <2> QED
    BY <1>7, <1>8, <2>1, UnpacksPlain
<1>12. ASSUME NEW pushed
       PROVE  Unpacked(tail, k, pushed) = [bytes |-> [high EXCEPT ![3 * k] = @ + 128],
                                           pushed |-> FalseWord]
  <2>1. ASSUME NEW i \in 1 .. k
        PROVE  Three(high, i) = Three(text, cut + i) /\ cut + i \in 1 .. n
    <3>1. 3 * i - 2 \in 1 .. 3 * k /\ 3 * i - 1 \in 1 .. 3 * k /\ 3 * i \in 1 .. 3 * k
      BY <1>7
    <3>2. /\ 3 * cut + (3 * i - 2) = 3 * (cut + i) - 2 /\ 3 * cut + (3 * i - 1) = 3 * (cut + i) - 1
          /\ 3 * cut + 3 * i = 3 * (cut + i)
      BY <1>7
    <3>3. high[3 * i - 2] = text[3 * (cut + i) - 2] /\ high[3 * i - 1] = text[3 * (cut + i) - 1]
          /\ high[3 * i] = text[3 * (cut + i)]
      BY <1>9, <3>1, <3>2
    <3> QED
      BY <1>7, <3>3 DEF Three, k
  <2>2. \A i \in 1 .. k - 1 : tail[i] = Three(high, i)
    <3>1. ASSUME NEW i \in 1 .. k - 1 PROVE tail[i] = Three(high, i)
      <4>1. i \in 1 .. k /\ cut + i \in 1 .. n - 1
        BY <1>7 DEF k
      <4> QED
        BY <1>4, <1>10, <2>1, <4>1
    <3> QED
      BY <3>1
  <2>3. tail[k] = Three(high, k) + 32768
    <3>1. k \in 1 .. k /\ cut + k = n
      BY <1>7 DEF k
    <3> QED
      BY <1>4, <1>10, <2>1, <3>1
  <2> QED
    <3>1. k \in Nat /\ k # 0
      BY <1>7
    <3>2. high \in Seq(Symbol) /\ Len(high) = 3 * k
      BY <1>9
    <3>3. Unpacked(tail, k, pushed) = Stopped(high, k)
      BY <2>2, <2>3, <3>1, <3>2, UnpacksStopped
    <3> QED
      BY <3>3 DEF Stopped
<1>13. rest = [bytes |-> [high EXCEPT ![3 * k] = @ + 128], pushed |-> FalseWord]
  BY <1>4, <1>12 DEF k
<1>14. low \o [high EXCEPT ![3 * k] = @ + 128] = [text EXCEPT ![3 * n] = @ + 128]
  <2> DEFINE h == [high EXCEPT ![3 * k] = @ + 128]
             t == [text EXCEPT ![3 * n] = @ + 128]
  <2>0. 3 * k \in Int /\ 3 * k >= 1 /\ 3 * k = 3 * n - 3 * cut /\ 3 * n \in Int /\ 3 * n >= 1
    BY <1>7
  <2>1. 3 * k \in 1 .. Len(high) /\ 3 * n \in 1 .. Len(text) /\ 3 * cut + 3 * k = 3 * n
    BY <1>7, <1>9, <2>0, SMTT(30)
  <2>2. high \in Seq(Int) /\ low \in Seq(Int) /\ text \in Seq(Int)
    <3>1. Symbol \subseteq Int
      BY DEF Symbol
    <3> QED
      BY <1>8, <1>9, <3>1, SeqMonotonic
  <2>3. high[3 * k] + 128 \in Int /\ text[3 * n] + 128 \in Int /\ high[3 * k] = text[3 * n]
    BY <1>9, <2>1, <2>2, ElementOfSeq
  <2>4. h \in Seq(Int) /\ Len(h) = 3 * k
        /\ \A i \in 1 .. 3 * k : h[i] = IF i = 3 * k THEN high[3 * k] + 128 ELSE high[i]
    BY <1>9, <2>1, <2>2, <2>3, ExceptSeq
  <2>5. t \in Seq(Int) /\ Len(t) = 3 * n
        /\ \A i \in 1 .. 3 * n : t[i] = IF i = 3 * n THEN text[3 * n] + 128 ELSE text[i]
    BY <2>1, <2>2, <2>3, ExceptSeq
  <2> HIDE DEF h, t
  <2>6. low \o h \in Seq(Int) /\ Len(low \o h) = 3 * n
        /\ \A i \in 1 .. 3 * n : (low \o h)[i] = IF i <= 3 * cut THEN low[i] ELSE h[i - 3 * cut]
    <3>1. low \o h \in Seq(Int) /\ Len(low \o h) = Len(low) + Len(h)
          /\ \A i \in 1 .. Len(low) + Len(h) :
               (low \o h)[i] = IF i <= Len(low) THEN low[i] ELSE h[i - Len(low)]
      BY <2>2, <2>4, ConcatProperties, ZenonT(60)
    <3>2. Len(low) = 3 * cut /\ Len(low) + Len(h) = 3 * n
      BY <1>8, <2>1, <2>4
    <3> QED
      BY <3>1, <3>2
  <2>7. ASSUME NEW i \in 1 .. 3 * n PROVE (low \o h)[i] = t[i]
    <3>1. CASE i <= 3 * cut
      <4>1. i \in 1 .. 3 * cut /\ i # 3 * n
        BY <1>7, <2>1, <3>1
      <4> QED
        BY <1>8, <2>5, <2>6, <3>1, <4>1
    <3>2. CASE ~ (i <= 3 * cut)
      <4>1. i - 3 * cut \in 1 .. 3 * k /\ 3 * cut + (i - 3 * cut) = i
            /\ (i - 3 * cut = 3 * k <=> i = 3 * n)
        BY <1>7, <2>1, <3>2
      <4>2. h[i - 3 * cut] = IF i = 3 * n THEN text[3 * n] + 128 ELSE text[i]
        BY <1>9, <2>3, <2>4, <4>1
      <4> QED
        BY <2>5, <2>6, <3>2, <4>2
    <3> QED
      BY <3>1, <3>2
  <2>8. low \o h = t
    BY <2>5, <2>6, <2>7, SeqEqual
  <2> QED
    BY <2>8 DEF h, t
<1> HIDE DEF part, rest, whole
<1>15. /\ whole.bytes = [text EXCEPT ![Len(text)] = @ + 128] /\ whole.pushed = FalseWord
       /\ rest.pushed = FalseWord /\ part.bytes \o rest.bytes = whole.bytes
       /\ part.pushed = Word(offset + 3 * cut)
  BY <1>5, <1>11, <1>13, <1>14 DEF Word
<1> QED
  BY <1>15 DEF whole, part, rest, tail, words

----------------------------------------------------------------------------
(* Strings *)

\* Two sequences are alike up to d, and there one of them ends or they part.
Parting(x, y, d) ==
  /\ d \in 0 .. Len(x) /\ d <= Len(y)
  /\ \A j \in 1 .. d : x[j] = y[j]
  /\ d < Len(x) /\ d < Len(y) => x[d + 1] # y[d + 1]

LEMMA PartingExists ==
  ASSUME NEW x, NEW y, Len(x) \in Nat, Len(y) \in Nat
  PROVE  \E d : Parting(x, y, d)
<1> DEFINE T == {d \in 0 .. Len(x) : d = Len(x) \/ d = Len(y) \/ x[d + 1] # y[d + 1]}
<1>1. T \in SUBSET Nat /\ Len(x) \in T
  OBVIOUS
<1>2. PICK d \in T : \A e \in T : d <= e
  BY <1>1, LeastNat
<1>3. ASSUME NEW j \in 1 .. d PROVE j <= Len(y) /\ x[j] = y[j]
  <2>1. j - 1 \in 0 .. Len(x) /\ ~ (d <= j - 1) /\ (j - 1) + 1 = j
    BY <1>2
  <2>2. j - 1 \notin T
    BY <1>2, <2>1
  <2>3. x[j] = y[j]
    BY <2>1, <2>2
  <2>4. ASSUME ~ (j <= Len(y)) PROVE FALSE
    <3>1. Len(y) \in 0 .. Len(x) /\ ~ (d <= Len(y))
      BY <1>2, <2>4
    <3> QED
      BY <1>2, <3>1
  <2> QED
    BY <2>3, <2>4
<1>4. d <= Len(y)
  <2>1. CASE d = 0
    BY <2>1
  <2>2. CASE d # 0
    BY <1>3, <2>2
  <2> QED
    BY <2>1, <2>2
<1> QED
  BY <1>2, <1>3, <1>4 DEF Parting

LEMMA PartingTurned ==
  ASSUME NEW x, NEW y, NEW d, Len(x) \in Nat, Len(y) \in Nat, Parting(x, y, d)
  PROVE  Parting(y, x, d)
BY DEF Parting

\* The first is the lower, by where they part.
Lower(x, y, d) ==
  \/ d = Len(x) /\ d < Len(y)
  \/ d < Len(x) /\ d < Len(y) /\ x[d + 1] < y[d + 1]

\* The order of a dictionary is decided where the sequences part.
LEMMA DecidedThere ==
  ASSUME NEW x \in Seq(Nat), NEW y \in Seq(Nat), NEW d, Parting(x, y, d)
  PROVE  BytesBefore(x, y) <=> Lower(x, y, d)
<1>1. Len(x) \in Nat /\ Len(y) \in Nat /\ d \in Nat /\ d <= Len(x) /\ d <= Len(y)
  BY LenProperties DEF Parting
<1>2. /\ \A i \in 1 .. Len(x) : x[i] \in Nat
      /\ \A i \in 1 .. Len(y) : y[i] \in Nat
  BY ElementOfSeq
<1>3. ASSUME NEW i \in 1 .. Len(y), i <= Len(x) + 1, \A j \in 1 .. i - 1 : x[j] = y[j],
             i = Len(x) + 1 \/ x[i] < y[i]
      PROVE  Lower(x, y, d)
  <2>1. CASE i <= d
    <3>1. i \in 1 .. d /\ i \in 1 .. Len(x) /\ i # Len(x) + 1
      BY <1>1, <2>1
    <3>2. x[i] = y[i] /\ x[i] \in Nat /\ x[i] < y[i]
      BY <1>2, <1>3, <3>1 DEF Parting
    <3> QED
      BY <3>2
  <2>2. CASE i > d + 1
    <3>1. d + 1 \in 1 .. i - 1 /\ d < Len(x) /\ d < Len(y)
      BY <1>1, <1>3, <2>2
    <3> QED
      BY <1>3, <3>1 DEF Parting
  <2>3. CASE i = d + 1
    <3>1. d < Len(y)
      BY <1>1, <2>3
    <3>2. CASE i = Len(x) + 1
      BY <1>1, <2>3, <3>1, <3>2 DEF Lower
    <3>3. CASE i # Len(x) + 1
      <4>1. d < Len(x) /\ x[d + 1] < y[d + 1]
        BY <1>1, <1>3, <2>3, <3>3
      <4> QED
        BY <3>1, <4>1 DEF Lower
    <3> QED
      BY <3>2, <3>3
  <2> QED
    BY <1>1, <2>1, <2>2, <2>3
<1>4. ASSUME Lower(x, y, d)
      PROVE  \E i \in 1 .. Len(y) :
               /\ i <= Len(x) + 1 /\ \A j \in 1 .. i - 1 : x[j] = y[j]
               /\ i = Len(x) + 1 \/ x[i] < y[i]
  <2>1. /\ d + 1 \in 1 .. Len(y) /\ d + 1 <= Len(x) + 1 /\ (d + 1) - 1 = d
        /\ d + 1 = Len(x) + 1 \/ x[d + 1] < y[d + 1]
    BY <1>1, <1>4 DEF Lower
  <2>2. \A j \in 1 .. (d + 1) - 1 : x[j] = y[j]
    BY <2>1 DEF Parting
  <2> QED
    BY <2>1, <2>2
<1>5. BytesBefore(x, y) <=> \E i \in 1 .. Len(y) :
                               /\ i <= Len(x) + 1 /\ \A j \in 1 .. i - 1 : x[j] = y[j]
                               /\ i = Len(x) + 1 \/ x[i] < y[i]
  BY DEF BytesBefore, Before
<1> QED
  BY <1>3, <1>4, <1>5

\* What a comparison answers that is 1 if the first is the lower
Verdict(x, y, d) == IF Lower(x, y, d) THEN 1 ELSE IF Lower(y, x, d) THEN -1 ELSE 0

LEMMA VerdictIs ==
  ASSUME NEW x \in Seq(Nat), NEW y \in Seq(Nat), NEW d, Parting(x, y, d)
  PROVE  /\ Verdict(x, y, d) = 1 <=> BytesBefore(x, y)
         /\ Verdict(x, y, d) = -1 <=> BytesBefore(y, x)
<1>1. Len(x) \in Nat /\ Len(y) \in Nat
  BY LenProperties
<1>2. Parting(y, x, d)
  BY <1>1, PartingTurned
<1>3. (BytesBefore(x, y) <=> Lower(x, y, d)) /\ (BytesBefore(y, x) <=> Lower(y, x, d))
  BY <1>2, DecidedThere
<1>4. ~ (Lower(x, y, d) /\ Lower(y, x, d))
  <2>1. d < Len(x) /\ d < Len(y) => x[d + 1] \in Nat /\ y[d + 1] \in Nat
    <3>1. d < Len(x) /\ d < Len(y) => d + 1 \in 1 .. Len(x) /\ d + 1 \in 1 .. Len(y)
      BY <1>1 DEF Parting
    <3> QED
      BY <3>1, ElementOfSeq
  <2> QED
    BY <1>1, <2>1 DEF Lower, Parting
<1> QED
  BY <1>3, <1>4 DEF Verdict

\* x are the n bytes of a string from an offset on, without their case.
FoldedBytes(x, string, offset, n) ==
  /\ Len(x) = n
  /\ \A i \in 0 .. n - 1 : x[i + 1] = Fold(PayloadAt(string, offset + i)) /\ x[i + 1] \in Nat

\* The loop of LinchpinST
LEMMA LpstVerdict ==
  ASSUME NEW first, NEW second, NEW offset, NEW n \in Nat, NEW m \in Nat,
         NEW x, NEW y, NEW d, FoldedBytes(x, first, offset, n), FoldedBytes(y, second, 0, m),
         Parting(x, y, d)
  PROVE  LpstCompareIgnoringCase(first, offset, n, second, m) = Verdict(x, y, d)
<1> DEFINE X(i) == Fold(PayloadAt(first, offset + i))
           Y(i) == Fold(PayloadAt(second, i))
           step(h) == [i \in 0 .. n |->
                        IF ~(i < n) /\ ~(i < m) THEN 0
                        ELSE IF ~(i < m) THEN -1
                        ELSE IF ~(i < n) THEN 1
                        ELSE IF X(i) = Y(i) THEN h[i + 1]
                        ELSE IF X(i) < Y(i) THEN 1 ELSE -1]
           from == CHOOSE h : h = step(h)
           Same(i) == i < n /\ i < m /\ X(i) = Y(i)
           Outcome(i) == IF ~(i < n) /\ ~(i < m) THEN 0
                       ELSE IF ~(i < m) THEN -1
                       ELSE IF ~(i < n) THEN 1
                       ELSE IF X(i) < Y(i) THEN 1 ELSE -1
<1>0. /\ Len(x) = n /\ Len(y) = m
      /\ \A i \in 0 .. n - 1 : x[i + 1] = Fold(PayloadAt(first, offset + i)) /\ x[i + 1] \in Nat
      /\ \A i \in 0 .. m - 1 : y[i + 1] = Fold(PayloadAt(second, i)) /\ y[i + 1] \in Nat
  <2>1. \A i \in 0 .. m - 1 : 0 + i = i
    OBVIOUS
  <2> QED
    BY <2>1 DEF FoldedBytes
<1>1. LpstCompareIgnoringCase(first, offset, n, second, m) = from[0]
  BY DEF LpstCompareIgnoringCase
<1> HIDE DEF X, Y
<1>2. \A h : h = step(h) <=> h = [i \in 0 .. n |-> IF Same(i) THEN h[i + 1] ELSE Outcome(i)]
  <2>1. ASSUME NEW h, NEW i \in 0 .. n
        PROVE  step(h)[i] = IF Same(i) THEN h[i + 1] ELSE Outcome(i)
    OBVIOUS
  <2>2. \A h : step(h) = [i \in 0 .. n |-> IF Same(i) THEN h[i + 1] ELSE Outcome(i)]
    BY <2>1
  <2> QED
    BY <2>2
<1> HIDE DEF Outcome
<1>3. \E h : h = step(h)
  <2> DEFINE Breaks(i) == {j \in i .. n : ~ Same(j)}
             End(i) == CHOOSE j \in Breaks(i) : \A k \in Breaks(i) : j <= k
             h == [i \in 0 .. n |-> Outcome(End(i))]
  <2>1. ASSUME NEW i \in 0 .. n PROVE h[i] = IF Same(i) THEN h[i + 1] ELSE Outcome(i)
    <3>1. CASE Same(i)
      <4>1. i + 1 \in 0 .. n
        BY <3>1
      <4>2. Breaks(i) = Breaks(i + 1)
        <5>1. \A j \in i .. n : ~ Same(j) => j \in i + 1 .. n
          BY <3>1
        <5>2. i + 1 .. n \subseteq i .. n
          OBVIOUS
        <5> HIDE DEF Same
        <5> QED
          BY <5>1, <5>2
      <4> HIDE DEF Breaks, Same
      <4> QED
        BY <3>1, <4>1, <4>2
    <3>2. CASE ~ Same(i)
      <4> HIDE DEF Same
      <4>1. i \in Breaks(i) /\ \A k \in Breaks(i) : i <= k
        BY <3>2
      <4>2. End(i) \in Breaks(i) /\ End(i) <= i
        BY <4>1
      <4>3. End(i) = i
        BY <4>1, <4>2
      <4> HIDE DEF End
      <4> QED
        BY <3>2, <4>3
    <3> QED
      BY <3>1, <3>2
  <2> HIDE DEF End, Same
  <2>2. h = [i \in 0 .. n |-> IF Same(i) THEN h[i + 1] ELSE Outcome(i)]
    BY <2>1
  <2> QED
    BY <1>2, <2>2
<1>4. from = step(from)
  BY <1>3
<1> HIDE DEF from, step
<1>5. from = [i \in 0 .. n |-> IF Same(i) THEN from[i + 1] ELSE Outcome(i)]
  BY <1>2, <1>4
<1>6. /\ d \in Nat /\ d <= n /\ d <= m /\ (d < n /\ d < m => x[d + 1] # y[d + 1])
      /\ \A j \in 1 .. d : x[j] = y[j]
  BY <1>0 DEF Parting
<1>7. \A i \in 0 .. n - 1 : X(i) = x[i + 1] /\ x[i + 1] \in Nat
  BY <1>0 DEF X
<1>8. \A i \in 0 .. m - 1 : Y(i) = y[i + 1] /\ y[i + 1] \in Nat
  BY <1>0 DEF Y
<1>9. ASSUME NEW i \in 0 .. d - 1 PROVE from[i] = from[i + 1]
  <2>1. i \in 0 .. n - 1 /\ i \in 0 .. m - 1 /\ i + 1 \in 1 .. d /\ i \in 0 .. n
    BY <1>6
  <2>2. Same(i)
    BY <1>6, <1>7, <1>8, <2>1
  <2> QED
    BY <1>5, <2>1, <2>2
<1> DEFINE T == {k \in Nat : from[k] = from[0]}
<1>10. 0 \in T /\ \A k \in 0 .. d - 1 : k \in T => k + 1 \in T
  BY <1>9
<1> HIDE DEF T
<1>11. d \in T
  <2>1. \A k \in 0 .. d : k \in T
    BY <1>6, <1>10, UpTo
  <2> QED
    BY <1>6, <2>1
<1>12. from[0] = Outcome(d)
  <2>1. ~ Same(d) /\ d \in 0 .. n
    <3>1. d < n /\ d < m => X(d) = x[d + 1] /\ Y(d) = y[d + 1]
      BY <1>6, <1>7, <1>8
    <3> QED
      BY <1>6, <3>1
  <2> HIDE DEF Same
  <2>2. from[d] = Outcome(d)
    BY <1>5, <2>1
  <2> QED
    BY <1>11, <2>2 DEF T
<1>13. Outcome(d) = Verdict(x, y, d)
  <2>1. d < n /\ d < m => X(d) = x[d + 1] /\ Y(d) = y[d + 1] /\ x[d + 1] \in Nat /\ y[d + 1] \in Nat
    BY <1>6, <1>7, <1>8
  <2> QED
    BY <1>0, <1>6, <2>1 DEF Outcome, Verdict, Lower
<1> QED
  BY <1>1, <1>12, <1>13

LEMMA LeastOf ==
  ASSUME NEW T \in SUBSET Nat, T # {}
  PROVE  Min(T) \in T /\ \A y \in T : Min(T) <= y
BY LeastNat DEF Min

LEMMA SmallerOf ==
  ASSUME NEW n \in Nat, NEW m \in Nat
  PROVE  Min({n, m}) = IF n <= m THEN n ELSE m
<1>1. {n, m} \in SUBSET Nat /\ {n, m} # {}
  OBVIOUS
<1>2. Min({n, m}) \in {n, m} /\ \A y \in {n, m} : Min({n, m}) <= y
  BY <1>1, LeastOf
<1> QED
  BY <1>2

\* The first place up to the shorter length at which two sequences differ
LEMMA ApartAt ==
  ASSUME NEW x, NEW y, NEW d, Len(x) \in Nat, Len(y) \in Nat, Parting(x, y, d)
  PROVE  LET apart == {i \in 0 .. Min({Len(x), Len(y)}) - 1 : x[i + 1] # y[i + 1]}
         IN  /\ apart # {} <=> d < Len(x) /\ d < Len(y)
             /\ apart # {} => Min(apart) = d
<1> DEFINE k == Min({Len(x), Len(y)})
           apart == {i \in 0 .. k - 1 : x[i + 1] # y[i + 1]}
<1>1. k = IF Len(x) <= Len(y) THEN Len(x) ELSE Len(y)
  BY SmallerOf
<1> HIDE DEF k
<1>2. /\ d \in Nat /\ d <= k /\ k \in Nat
      /\ \A j \in 1 .. d : x[j] = y[j]
      /\ d < k => x[d + 1] # y[d + 1]
  BY <1>1 DEF Parting
<1>3. d < Len(x) /\ d < Len(y) <=> d < k
  BY <1>1, <1>2
<1>4. ASSUME NEW i \in apart PROVE d <= i /\ d < k
  <2>1. i \in 0 .. k - 1 /\ x[i + 1] # y[i + 1]
    OBVIOUS
  <2>2. ASSUME ~ (d <= i) PROVE FALSE
    <3>1. i + 1 \in 1 .. d
      BY <1>2, <2>1, <2>2
    <3> QED
      BY <1>2, <2>1, <3>1
  <2> QED
    BY <1>2, <2>1, <2>2
<1>5. d < k => d \in apart
  BY <1>2
<1>6. apart \in SUBSET Nat
  BY <1>2
<1> HIDE DEF apart
<1>7. apart # {} <=> d < k
  BY <1>4, <1>5
<1>8. ASSUME apart # {} PROVE Min(apart) = d
  <2>1. Min(apart) \in apart /\ \A i \in apart : Min(apart) <= i
    BY <1>6, <1>8, LeastOf
  <2>2. Min(apart) \in Nat /\ d <= Min(apart) /\ Min(apart) <= d
    BY <1>4, <1>5, <1>6, <1>7, <1>8, <2>1
  <2> QED
    BY <1>2, <2>2
<1> QED
  BY <1>3, <1>7, <1>8 DEF apart, k

\* The loop of Linchpin128, over the same bytes
LEMMA Lp128Verdict ==
  ASSUME NEW first, NEW second, NEW offset, NEW n \in Nat, NEW m \in Nat,
         NEW x, NEW y, NEW d, FoldedBytes(x, first, offset, n), FoldedBytes(y, second, 0, m),
         Parting(x, y, d)
  PROVE  Lp128CompareIgnoringCase(first, offset, n, second, m) = Verdict(x, y, d)
<1> DEFINE common == Min({n, m})
           X(i) == Fold(PayloadAt(first, offset + i))
           Y(i) == Fold(PayloadAt(second, i))
           apart == {i \in 0 .. common - 1 : X(i) # Y(i)}
           there == {i \in 0 .. Min({Len(x), Len(y)}) - 1 : x[i + 1] # y[i + 1]}
<1>0. /\ Len(x) = n /\ Len(y) = m
      /\ \A i \in 0 .. n - 1 : x[i + 1] = Fold(PayloadAt(first, offset + i)) /\ x[i + 1] \in Nat
      /\ \A i \in 0 .. m - 1 : y[i + 1] = Fold(PayloadAt(second, i)) /\ y[i + 1] \in Nat
  <2>1. \A i \in 0 .. m - 1 : 0 + i = i
    OBVIOUS
  <2> QED
    BY <2>1 DEF FoldedBytes
<1>1. Lp128CompareIgnoringCase(first, offset, n, second, m)
        = CASE apart # {} -> IF X(Min(apart)) < Y(Min(apart)) THEN 1 ELSE -1
            [] apart = {} /\ n < m -> 1
            [] apart = {} /\ n > m -> -1
            [] apart = {} /\ n = m -> 0
  BY DEF Lp128CompareIgnoringCase
<1>2. common \in Nat /\ common <= n /\ common <= m /\ (common = n \/ common = m)
  BY SmallerOf
<1> HIDE DEF X, Y, common
<1>3. /\ \A i \in 0 .. n - 1 : X(i) = x[i + 1] /\ x[i + 1] \in Nat
      /\ \A i \in 0 .. m - 1 : Y(i) = y[i + 1] /\ y[i + 1] \in Nat
  BY <1>0 DEF X, Y
<1>4. apart = there
  <2>0. Min({Len(x), Len(y)}) = common
    BY <1>0 DEF common
  <2>1. \A i \in 0 .. common - 1 : X(i) # Y(i) <=> x[i + 1] # y[i + 1]
    <3>1. \A i \in 0 .. common - 1 : i \in 0 .. n - 1 /\ i \in 0 .. m - 1
      BY <1>2
    <3> QED
      BY <1>3, <3>1
  <2> QED
    BY <2>0, <2>1
<1>5. /\ there # {} <=> d < Len(x) /\ d < Len(y)
      /\ there # {} => Min(there) = d
  <2>1. Len(x) \in Nat /\ Len(y) \in Nat
    BY <1>0
  <2> HIDE DEF apart
  <2> QED
    BY <2>1, ApartAt
<1> HIDE DEF apart, there
<1>9. (there # {} <=> d < n /\ d < m) /\ (there # {} => Min(there) = d)
  BY <1>0, <1>5
<1>6. d \in Nat /\ d <= n /\ d <= m /\ (d < n /\ d < m => x[d + 1] # y[d + 1])
  BY <1>0 DEF Parting
<1>7. CASE d < n /\ d < m
  <2>1. apart # {} /\ Min(apart) = d
    BY <1>4, <1>9, <1>7
  <2>2. X(d) = x[d + 1] /\ Y(d) = y[d + 1] /\ x[d + 1] \in Nat /\ y[d + 1] \in Nat
    BY <1>3, <1>6, <1>7
  <2>3. Lp128CompareIgnoringCase(first, offset, n, second, m)
          = IF x[d + 1] < y[d + 1] THEN 1 ELSE -1
    BY <1>1, <2>1, <2>2, Zenon
  <2>4. x[d + 1] < y[d + 1] \/ y[d + 1] < x[d + 1]
    BY <1>6, <1>7, <2>2
  <2> QED
    BY <1>0, <1>6, <1>7, <2>2, <2>3, <2>4 DEF Verdict, Lower
<1>8. CASE ~ (d < n /\ d < m)
  <2>1. apart = {}
    BY <1>4, <1>9, <1>8
  <2>2. Lp128CompareIgnoringCase(first, offset, n, second, m)
          = IF n < m THEN 1 ELSE IF n > m THEN -1 ELSE 0
    <3>1. CASE n < m
      BY <1>1, <2>1, <3>1
    <3>2. CASE n > m
      BY <1>1, <2>1, <3>2
    <3>3. CASE n = m
      BY <1>1, <2>1, <3>3
    <3> QED
      BY <3>1, <3>2, <3>3
  <2> QED
    BY <1>0, <1>6, <1>8, <2>2 DEF Verdict, Lower
<1> QED
  BY <1>7, <1>8

\* MEMCMP of two sequences of one length
LEMMA BytesVerdict ==
  ASSUME NEW x \in Seq(Nat), NEW y \in Seq(Nat), NEW d, Len(x) = Len(y), Parting(x, y, d)
  PROVE  CompareBytes(x, y, Len(x)) = Verdict(x, y, d)
<1> DEFINE n == Len(x)
           apart == {i \in 0 .. n - 1 : PayloadAt(x, i) # PayloadAt(y, i)}
           there == {i \in 0 .. Min({Len(x), Len(y)}) - 1 : x[i + 1] # y[i + 1]}
<1>1. n \in Nat /\ n = Len(y)
  BY LenProperties
<1>2. apart = there
  BY <1>1, SmallerOf DEF PayloadAt
<1>3. /\ there # {} <=> d < n
      /\ there # {} => Min(there) = d
  <2>1. /\ there # {} <=> d < Len(x) /\ d < Len(y)
        /\ there # {} => Min(there) = d
    <3>1. Len(x) \in Nat /\ Len(y) \in Nat
      BY <1>1
    <3> HIDE DEF n, apart
    <3> QED
      BY <3>1, ApartAt
  <2> QED
    BY <1>1, <2>1
<1>4. CompareBytes(x, y, n)
        = CASE apart = {} -> 0
            [] apart # {} -> IF PayloadAt(x, Min(apart)) < PayloadAt(y, Min(apart)) THEN 1 ELSE -1
  BY DEF CompareBytes
<1>5. d \in Nat /\ d <= n /\ (d < n => x[d + 1] # y[d + 1])
  BY <1>1 DEF Parting
<1> HIDE DEF apart, there, n
<1>6. CASE d < n
  <2>1. apart # {} /\ Min(apart) = d
    BY <1>2, <1>3, <1>6
  <2>2. CompareBytes(x, y, n) = IF x[d + 1] < y[d + 1] THEN 1 ELSE -1
    BY <1>4, <2>1, Zenon DEF PayloadAt
  <2>3. x[d + 1] \in Nat /\ y[d + 1] \in Nat
    <3>1. d + 1 \in 1 .. Len(x) /\ d + 1 \in 1 .. Len(y)
      BY <1>1, <1>5, <1>6 DEF n
    <3> QED
      BY <3>1, ElementOfSeq
  <2>4. x[d + 1] < y[d + 1] \/ y[d + 1] < x[d + 1]
    BY <1>5, <1>6, <2>3
  <2> QED
    BY <1>1, <1>5, <1>6, <2>2, <2>3, <2>4 DEF Verdict, Lower, n
<1>7. CASE ~ (d < n)
  <2>1. apart = {}
    BY <1>2, <1>3, <1>7
  <2>2. CompareBytes(x, y, n) = 0
    BY <1>4, <2>1, Zenon
  <2> QED
    BY <1>1, <1>5, <1>7, <2>2 DEF Verdict, Lower, n
<1> QED
  BY <1>6, <1>7 DEF n

\* Where the i-th of joined sequences lies: behind those before it.
Lies(f, s, i) ==
  /\ Len(f[i - 1]) \in Nat /\ Len(f[i]) = Len(f[i - 1]) + Len(s[i])
  /\ Len(f[i]) <= Len(f[Len(s)])
  /\ \A k \in 1 .. Len(s[i]) : f[Len(s)][Len(f[i - 1]) + k] = s[i][k]

LEMMA JoinedAt ==
  ASSUME NEW S, NEW s \in Seq(Seq(S)), NEW f, Joins(f, s, S), NEW i \in 1 .. Len(s)
  PROVE  Lies(f, s, i)
<1> DEFINE n == Len(s)
<1>1. n \in Nat /\ i \in Nat
  BY LenProperties
<1>2. ASSUME NEW j \in 0 .. n PROVE f[j] \in Seq(S) /\ Len(f[j]) \in Nat
  <2>1. f[j] \in Seq(S)
    BY DEF Joins
  <2> QED
    BY <2>1, LenProperties
<1>3. ASSUME NEW j \in 1 .. n
      PROVE  /\ f[j] = f[j - 1] \o s[j] /\ Len(f[j]) = Len(f[j - 1]) + Len(s[j])
             /\ Len(s[j]) \in Nat /\ Len(f[j - 1]) \in Nat /\ Len(f[j]) \in Nat
             /\ \A k \in 1 .. Len(f[j]) :
                  f[j][k] = IF k <= Len(f[j - 1]) THEN f[j - 1][k] ELSE s[j][k - Len(f[j - 1])]
  <2>1. j - 1 \in 0 .. n /\ j \in 0 .. n
    BY <1>1
  <2>2. s[j] \in Seq(S)
    BY ElementOfSeq
  <2>3. f[j - 1] \in Seq(S) /\ f[j] \in Seq(S) /\ Len(f[j - 1]) \in Nat /\ Len(f[j]) \in Nat
    BY <1>2, <2>1
  <2>4. f[j] = f[j - 1] \o s[j]
    BY DEF Joins
  <2>5. Len(s[j]) \in Nat
    BY <2>2, LenProperties
  <2> DEFINE x == f[j - 1]
             y == s[j]
  <2>6. x \in Seq(S) /\ y \in Seq(S)
    BY <2>2, <2>3
  <2> HIDE DEF x, y
  <2>7. /\ Len(x \o y) = Len(x) + Len(y)
        /\ \A k \in 1 .. Len(x) + Len(y) : (x \o y)[k] = IF k <= Len(x) THEN x[k] ELSE y[k - Len(x)]
    BY <2>6, ConcatProperties
  <2>8. f[j] = x \o y
    BY <2>4 DEF x, y
  <2>9. /\ Len(f[j]) = Len(x) + Len(y)
        /\ \A k \in 1 .. Len(f[j]) : f[j][k] = IF k <= Len(x) THEN x[k] ELSE y[k - Len(x)]
    BY <2>7, <2>8
  <2> QED
    BY <2>3, <2>4, <2>5, <2>9 DEF x, y
<1> DEFINE T == {j \in Nat : j >= i => /\ Len(f[i]) <= Len(f[j])
                                      /\ \A k \in 1 .. Len(f[i]) : f[j][k] = f[i][k]}
<1>4. 0 \in T
  BY <1>1
<1>5. ASSUME NEW j \in 0 .. n - 1, j \in T PROVE j + 1 \in T
  <2>1. /\ j + 1 \in 1 .. n /\ (j + 1) - 1 = j /\ j + 1 \in Nat
    BY <1>1
  <2>2. /\ Len(f[j + 1]) = Len(f[j]) + Len(s[j + 1])
        /\ Len(s[j + 1]) \in Nat /\ Len(f[j]) \in Nat /\ Len(f[j + 1]) \in Nat
        /\ \A k \in 1 .. Len(f[j + 1]) :
             f[j + 1][k] = IF k <= Len(f[j]) THEN f[j][k] ELSE s[j + 1][k - Len(f[j])]
    BY <1>3, <2>1
  <2>3. Len(f[i]) \in Nat
    BY <1>3
  <2>4. CASE j >= i
    <3>1. Len(f[i]) <= Len(f[j]) /\ \A k \in 1 .. Len(f[i]) : f[j][k] = f[i][k]
      BY <1>5, <2>4
    <3> DEFINE u == Len(f[i])
               v == Len(f[j])
               w == Len(f[j + 1])
               z == Len(s[j + 1])
    <3>4. u \in Nat /\ v \in Nat /\ z \in Nat /\ w = v + z /\ u <= v
      BY <2>2, <2>3, <3>1
    <3> HIDE DEF u, v, w, z
    <3>5. u <= w /\ \A k \in 1 .. u : k \in 1 .. w /\ k <= v
      BY <3>4
    <3>2. ASSUME NEW k \in 1 .. Len(f[i]) PROVE f[j + 1][k] = f[i][k]
      <4>1. k \in 1 .. Len(f[j + 1]) /\ k <= Len(f[j])
        BY <3>5 DEF u, v, w
      <4> QED
        BY <2>2, <3>1, <4>1
    <3>3. Len(f[i]) <= Len(f[j + 1])
      BY <3>5 DEF u, w
    <3> QED
      BY <2>1, <3>2, <3>3
  <2>5. CASE j + 1 = i
    BY <2>1, <2>3, <2>5
  <2>6. CASE ~ (j >= i) /\ j + 1 # i
    BY <1>1, <2>1, <2>6
  <2> QED
    BY <2>4, <2>5, <2>6
<1>6. \A j \in 0 .. n - 1 : j \in T => j + 1 \in T
  BY <1>5
<1> HIDE DEF T
<1>7. \A j \in 0 .. n : j \in T
  BY <1>1, <1>4, <1>6, UpTo
<1>8. n \in T /\ n >= i
  BY <1>1, <1>7
<1>9. Len(f[i]) <= Len(f[n]) /\ \A k \in 1 .. Len(f[i]) : f[n][k] = f[i][k]
  BY <1>8 DEF T
<1>10. ASSUME NEW k \in 1 .. Len(s[i]) PROVE f[n][Len(f[i - 1]) + k] = s[i][k]
  <2>1. Len(f[i - 1]) \in Nat /\ Len(s[i]) \in Nat /\ Len(f[i]) = Len(f[i - 1]) + Len(s[i])
    BY <1>3
  <2>2. /\ Len(f[i - 1]) + k \in 1 .. Len(f[i]) /\ ~ (Len(f[i - 1]) + k <= Len(f[i - 1]))
        /\ (Len(f[i - 1]) + k) - Len(f[i - 1]) = k
    <3> DEFINE u == Len(f[i - 1])
               v == Len(s[i])
               w == Len(f[i])
    <3>1. u \in Nat /\ v \in Nat /\ w = u + v /\ k \in 1 .. v
      BY <2>1
    <3> HIDE DEF u, v, w
    <3>2. u + k \in 1 .. w /\ ~ (u + k <= u) /\ (u + k) - u = k
      BY <3>1
    <3> QED
      BY <3>2 DEF u, w
  <2>3. f[i][Len(f[i - 1]) + k] = s[i][k]
    BY <1>3, <2>2
  <2> QED
    BY <1>9, <2>2, <2>3
<1>11. Len(f[i - 1]) \in Nat /\ Len(f[i]) = Len(f[i - 1]) + Len(s[i])
  BY <1>3
<1> QED
  BY <1>9, <1>10, <1>11 DEF Lies

----------------------------------------------------------------------------
(* KEYCMP *)

\* The fields of a key as they are laid out
Laid(fields) == [i \in DOMAIN fields |-> <<Len(fields[i])>> \o fields[i]]

\* place[i] is how many bytes the first i fields take.
Places(key, fields, place) ==
  /\ place \in [0 .. Len(fields) -> Nat] /\ place[0] = 0
  /\ KeyByte(key, -1) = place[Len(fields)]
  /\ \A p \in 1 .. place[Len(fields)] : KeyByte(key, 3 + p) \in Nat
  /\ \A i \in 1 .. Len(fields) :
       /\ place[i] = place[i - 1] + Len(fields[i]) + 1
       /\ place[i] <= place[Len(fields)]
       /\ KeyByte(key, 4 + place[i - 1]) = Len(fields[i])
       /\ \A k \in 1 .. Len(fields[i]) : KeyByte(key, 4 + place[i - 1] + k) = fields[i][k]

LEMMA LaidIs ==
  ASSUME NEW fields \in Seq(Bytes)
  PROVE  /\ Laid(fields) \in Seq(Bytes) /\ Len(Laid(fields)) = Len(fields)
         /\ \A i \in 1 .. Len(fields) :
              /\ Len(Laid(fields)[i]) = Len(fields[i]) + 1 /\ Len(fields[i]) \in Nat
              /\ Laid(fields)[i][1] = Len(fields[i])
              /\ \A k \in 1 .. Len(fields[i]) : Laid(fields)[i][k + 1] = fields[i][k]
<1>1. Len(fields) \in Nat /\ DOMAIN fields = 1 .. Len(fields)
  BY LenProperties
<1>2. ASSUME NEW i \in 1 .. Len(fields)
      PROVE  /\ <<Len(fields[i])>> \o fields[i] \in Bytes
             /\ Len(<<Len(fields[i])>> \o fields[i]) = Len(fields[i]) + 1 /\ Len(fields[i]) \in Nat
             /\ (<<Len(fields[i])>> \o fields[i])[1] = Len(fields[i])
             /\ \A k \in 1 .. Len(fields[i]) : (<<Len(fields[i])>> \o fields[i])[k + 1] = fields[i][k]
  <2> DEFINE y == fields[i]
             x == <<Len(y)>>
  <2>1. y \in Bytes /\ Len(y) \in Nat
    <3>1. y \in Bytes
      BY ElementOfSeq
    <3> QED
      BY <3>1, LenProperties DEF Bytes
  <2> HIDE DEF y
  <2>2. x \in Bytes /\ Len(x) = 1 /\ x[1] = Len(y)
    BY <2>1 DEF Bytes
  <2> HIDE DEF x
  <2>3. /\ x \o y \in Bytes /\ Len(x \o y) = Len(x) + Len(y)
        /\ \A k \in 1 .. Len(x) + Len(y) : (x \o y)[k] = IF k <= Len(x) THEN x[k] ELSE y[k - Len(x)]
    BY <2>1, <2>2, ConcatProperties DEF Bytes
  <2>4. (x \o y)[1] = Len(y)
    BY <2>1, <2>2, <2>3
  <2>5. ASSUME NEW k \in 1 .. Len(y) PROVE (x \o y)[k + 1] = y[k]
    <3>1. k + 1 \in 1 .. Len(x) + Len(y) /\ ~ (k + 1 <= Len(x)) /\ (k + 1) - Len(x) = k
      BY <2>1, <2>2
    <3> QED
      BY <2>3, <3>1
  <2> QED
    BY <2>1, <2>2, <2>3, <2>4, <2>5 DEF x, y
<1>3. Laid(fields) = [i \in 1 .. Len(fields) |-> <<Len(fields[i])>> \o fields[i]]
  BY <1>1 DEF Laid
<1>4. Laid(fields) \in Seq(Bytes) /\ Len(Laid(fields)) = Len(fields)
  BY <1>1, <1>2, <1>3
<1>5. \A i \in 1 .. Len(fields) : Laid(fields)[i] = <<Len(fields[i])>> \o fields[i]
  BY <1>3
<1> QED
  BY <1>2, <1>4, <1>5

LEMMA PlacesExist ==
  ASSUME NEW key, key.fields \in Seq(Bytes)
  PROVE  \E place : Places(KeyBytes(key), key.fields, place)
<1> DEFINE fields == key.fields
           s == Laid(fields)
           n == Len(fields)
<1>1. /\ s \in Seq(Bytes) /\ Len(s) = n /\ n \in Nat
      /\ \A i \in 1 .. n : /\ Len(s[i]) = Len(fields[i]) + 1 /\ Len(fields[i]) \in Nat
                           /\ s[i][1] = Len(fields[i])
                           /\ \A k \in 1 .. Len(fields[i]) : s[i][k + 1] = fields[i][k]
  BY LaidIs, LenProperties
<1> HIDE DEF s
<1>2. PICK f : Joins(f, s, Nat)
  BY <1>1, JoinsExist DEF Bytes
<1> DEFINE all == f[n]
           place == [i \in 0 .. n |-> Len(f[i])]
<1>3. all \in Bytes /\ Len(all) \in Nat
  <2>1. n \in 0 .. Len(s)
    BY <1>1
  <2>2. all \in Bytes
    BY <1>2, <2>1 DEF Joins, Bytes
  <2> QED
    BY <2>2, LenProperties DEF Bytes
<1>4. FlattenSeq(s) = all
  BY <1>1, <1>2, FlattenJoins DEF Bytes
<1> HIDE DEF all
<1> DEFINE head == <<key.flags, Len(all), 0, 0, key.combined % 256, key.combined \div 256>>
<1>5. KeyBytes(key) = head \o all
  <2>1. FlattenSeq([i \in DOMAIN fields |-> <<Len(fields[i])>> \o fields[i]]) = all
    BY <1>4 DEF s, Laid
  <2> HIDE DEF all
  <2> QED
    BY <2>1 DEF KeyBytes
<1>6. KeyByte(KeyBytes(key), -1) = Len(all)
  BY <1>3, <1>5 DEF KeyByte, Bytes
<1>7. ASSUME NEW p \in 1 .. Len(all) PROVE KeyByte(KeyBytes(key), 3 + p) = all[p]
  BY <1>3, <1>5, <1>7 DEF KeyByte, Bytes
<1>8. place \in [0 .. n -> Nat] /\ place[0] = 0
  <2>1. \A i \in 0 .. n : f[i] \in Bytes
    BY <1>1, <1>2 DEF Joins, Bytes
  <2>2. \A i \in 0 .. n : Len(f[i]) \in Nat
    BY <2>1, LenProperties DEF Bytes
  <2>3. f[0] = << >>
    BY <1>2 DEF Joins
  <2> QED
    BY <1>1, <2>2, <2>3
<1>9. KeyByte(KeyBytes(key), -1) = place[n] /\ place[n] = Len(all)
  BY <1>1, <1>6 DEF all
<1>11. \A p \in 1 .. Len(all) : KeyByte(KeyBytes(key), 3 + p) \in Nat
  BY <1>3, <1>7, ElementOfSeq DEF Bytes
<1>10. ASSUME NEW i \in 1 .. n
       PROVE  /\ place[i] = place[i - 1] + Len(fields[i]) + 1
              /\ place[i] <= place[n]
              /\ KeyByte(KeyBytes(key), 4 + place[i - 1]) = Len(fields[i])
              /\ \A k \in 1 .. Len(fields[i]) :
                   KeyByte(KeyBytes(key), 4 + place[i - 1] + k) = fields[i][k]
  <2>1. /\ Len(f[i - 1]) \in Nat /\ Len(f[i]) = Len(f[i - 1]) + Len(s[i])
        /\ Len(f[i]) <= Len(f[Len(s)])
        /\ \A k \in 1 .. Len(s[i]) : f[Len(s)][Len(f[i - 1]) + k] = s[i][k]
    <3>1. i \in 1 .. Len(s)
      BY <1>1
    <3> QED
      <4>1. s \in Seq(Seq(Nat))
        BY <1>1 DEF Bytes
      <4>2. Lies(f, s, i)
        BY <1>2, <3>1, <4>1, JoinedAt
      <4> QED
        BY <4>2 DEF Lies
  <2>2. /\ Len(s[i]) = Len(fields[i]) + 1 /\ Len(fields[i]) \in Nat /\ s[i][1] = Len(fields[i])
        /\ \A k \in 1 .. Len(fields[i]) : s[i][k + 1] = fields[i][k]
    BY <1>1
  <2>3. place[i] = Len(f[i]) /\ place[i - 1] = Len(f[i - 1]) /\ place[n] = Len(f[n])
    BY <1>1
  <2> HIDE DEF s
  <2> DEFINE p == place[i - 1]
  <2>4. /\ p \in Nat /\ place[i] = p + Len(fields[i]) + 1 /\ place[i] <= Len(all)
        /\ place[n] = Len(all)
    <3>2. p = Len(f[i - 1]) /\ p \in Nat
      BY <2>1, <2>3
    <3> HIDE DEF p, place
    <3>1. Len(f[i]) = Len(f[i - 1]) + (Len(fields[i]) + 1) /\ Len(f[i]) <= Len(f[n])
      BY <1>1, <2>1, <2>2
    <3>3. Len(f[i]) = p + (Len(fields[i]) + 1) /\ Len(fields[i]) \in Nat
      BY <2>2, <3>1, <3>2
    <3>4. place[i] = p + Len(fields[i]) + 1
      <4> DEFINE l == Len(fields[i])
      <4>1. p \in Nat /\ l \in Nat /\ place[i] = p + (l + 1)
        BY <2>3, <3>2, <3>3
      <4> HIDE DEF l
      <4>2. place[i] = p + l + 1
        BY <4>1
      <4> QED
        BY <4>2 DEF l
    <3>5. place[i] <= Len(all) /\ place[n] = Len(all)
      BY <2>3, <3>1 DEF all
    <3> QED
      BY <3>2, <3>4, <3>5
  <2>5. \A k \in 1 .. Len(fields[i]) + 1 : all[p + k] = s[i][k]
    BY <1>1, <2>1, <2>2, <2>3 DEF all
  <2> HIDE DEF p, place
  <2>6. ASSUME NEW k \in 1 .. Len(fields[i]) + 1 PROVE KeyByte(KeyBytes(key), 3 + p + k) = s[i][k]
    <3> DEFINE l == Len(fields[i])
               u == place[i]
               z == Len(all)
    <3>0. p \in Nat /\ l \in Nat /\ u = p + l + 1 /\ u <= z /\ z \in Nat /\ k \in 1 .. l + 1
      BY <1>3, <2>2, <2>4
    <3> HIDE DEF l, u, z
    <3>1. p + k \in 1 .. z /\ 3 + (p + k) = 3 + p + k
      BY <3>0
    <3> HIDE <3>0
    <3> USE DEF z
    <3>2. KeyByte(KeyBytes(key), 3 + (p + k)) = all[p + k]
      BY <1>7, <3>1
    <3> QED
      BY <2>5, <3>1, <3>2
  <2>7. KeyByte(KeyBytes(key), 4 + p) = Len(fields[i])
    <3>1. 1 \in 1 .. Len(fields[i]) + 1 /\ 3 + p + 1 = 4 + p
      BY <2>2, <2>4
    <3> QED
      BY <2>2, <2>6, <3>1
  <2>8. ASSUME NEW k \in 1 .. Len(fields[i])
        PROVE  KeyByte(KeyBytes(key), 4 + p + k) = fields[i][k]
    <3>1. k + 1 \in 1 .. Len(fields[i]) + 1 /\ 3 + p + (k + 1) = 4 + p + k
      BY <2>2, <2>4
    <3> QED
      BY <2>2, <2>6, <3>1
  <2> QED
    BY <2>4, <2>7, <2>8 DEF p
<1> HIDE DEF place
<1> QED
  BY <1>8, <1>9, <1>10, <1>11 DEF Places

\* One field against another: below 0 if the first is the lower, above 0 if
\* the second is, and 0 if they are equal.
Tells(c, x, y) == c \in Int /\ (c < 0 <=> BytesBefore(x, y)) /\ (c = 0 <=> x = y)

LEMMA FieldVerdict ==
  ASSUME NEW first, NEW second, NEW p \in Int, NEW x \in Bytes, NEW y \in Bytes,
         KeyByte(first, p) = Len(x), KeyByte(second, p) = Len(y),
         \A k \in 1 .. Len(x) : KeyByte(first, p + k) = x[k],
         \A k \in 1 .. Len(y) : KeyByte(second, p + k) = y[k]
  PROVE  Tells(CompareFields(first, second, p), x, y)
<1> DEFINE c == CompareFields(first, second, p)
           n == Len(x)
           m == Len(y)
           apart == {i \in 1 .. Min({n, m}) : KeyByte(first, p + i) # KeyByte(second, p + i)}
           there == {i \in 0 .. Min({Len(x), Len(y)}) - 1 : x[i + 1] # y[i + 1]}
<1>1. /\ n \in Nat /\ m \in Nat
      /\ \A i \in 1 .. n : x[i] \in Nat
      /\ \A i \in 1 .. m : y[i] \in Nat
  BY LenProperties, ElementOfSeq DEF Bytes
<1>2. PICK d : Parting(x, y, d)
  BY <1>1, PartingExists
<1>3. /\ d \in Nat /\ d <= n /\ d <= m /\ (d < n /\ d < m => x[d + 1] # y[d + 1])
      /\ \A j \in 1 .. d : x[j] = y[j]
  BY <1>1, <1>2 DEF Parting
<1>4. BytesBefore(x, y) <=> Lower(x, y, d)
  BY <1>2, DecidedThere DEF Bytes
<1>5. /\ there # {} <=> d < n /\ d < m
      /\ there # {} => Min(there) = d
  <2> HIDE DEF there, apart
  <2>1. /\ there # {} <=> d < Len(x) /\ d < Len(y)
        /\ there # {} => Min(there) = d
    BY <1>1, <1>2, ApartAt DEF there
  <2> QED
    BY <2>1
<1>6. Min({n, m}) \in Nat /\ Min({n, m}) <= n /\ Min({n, m}) <= m
  <2> HIDE DEF n, m
  <2>1. Min({n, m}) = IF n <= m THEN n ELSE m
    BY <1>1, SmallerOf
  <2> QED
    BY <1>1, <2>1
<1>7. c = IF apart # {} THEN KeyByte(first, p + Min(apart)) - KeyByte(second, p + Min(apart))
          ELSE n - m
  BY DEF CompareFields
<1>8. \A i \in 1 .. Min({n, m}) : i \in apart <=> i - 1 \in there
  <2>1. ASSUME NEW i \in 1 .. Min({n, m}) PROVE i \in apart <=> i - 1 \in there
    <3>1. i \in 1 .. n /\ i \in 1 .. m /\ i - 1 \in 0 .. Min({n, m}) - 1 /\ (i - 1) + 1 = i
      BY <1>1, <1>6
    <3> QED
      BY <3>1
  <2> QED
    BY <2>1
<1>9. apart \in SUBSET (1 .. Min({n, m})) /\ there \in SUBSET (0 .. Min({n, m}) - 1)
  OBVIOUS
<1> HIDE DEF apart, there, c
<1>10. CASE d < n /\ d < m
  <2>1. d \in there /\ d + 1 \in 1 .. Min({n, m})
    <3>1. there # {} /\ Min(there) = d
      BY <1>5, <1>10
    <3>2. there \in SUBSET Nat
      BY <1>9
    <3>3. d \in there
      BY <3>1, <3>2, LeastOf
    <3>4. d \in 0 .. Min({n, m}) - 1
      BY <1>9, <3>3
    <3> QED
      BY <1>3, <1>6, <3>3, <3>4
  <2>2. apart \in SUBSET Nat /\ d + 1 \in apart
    BY <1>3, <1>8, <1>9, <2>1
  <2>3. Min(apart) \in apart /\ \A i \in apart : Min(apart) <= i
    BY <2>2, LeastOf
  <2>4. ASSUME NEW i \in apart PROVE d + 1 <= i
    <3>1. i \in 1 .. Min({n, m}) /\ i - 1 \in there
      BY <1>8, <1>9
    <3>2. there \in SUBSET Nat /\ \A k \in there : Min(there) <= k
      BY <1>9, <2>1, LeastOf
    <3> QED
      BY <1>3, <1>5, <1>6, <1>10, <3>1, <3>2
  <2>5. Min(apart) = d + 1
    <3>1. Min(apart) \in Nat /\ Min(apart) <= d + 1 /\ d + 1 <= Min(apart)
      BY <2>2, <2>3, <2>4
    <3> QED
      BY <1>3, <3>1
  <2>6. c = KeyByte(first, p + (d + 1)) - KeyByte(second, p + (d + 1))
    BY <1>7, <2>2, <2>5
  <2>7. d + 1 \in 1 .. n /\ d + 1 \in 1 .. m
    BY <1>1, <1>3, <1>10
  <2>8. c = x[d + 1] - y[d + 1] /\ x[d + 1] \in Nat /\ y[d + 1] \in Nat /\ x[d + 1] # y[d + 1]
    BY <1>1, <1>3, <1>10, <2>6, <2>7
  <2>9. c \in Int /\ (c < 0 <=> x[d + 1] < y[d + 1]) /\ c # 0
    BY <2>8
  <2> QED
    BY <1>3, <1>4, <1>10, <2>8, <2>9 DEF Lower, Tells, c
<1>11. CASE ~ (d < n /\ d < m)
  <2>1. apart = {}
    <3>1. there = {}
      BY <1>5, <1>11
    <3> QED
      BY <1>8, <1>9, <3>1
  <2>2. c = n - m
    BY <1>7, <2>1
  <2>3. c \in Int /\ (c < 0 <=> d = n /\ d < m)
    BY <1>1, <1>3, <1>11, <2>2
  <2>4. Lower(x, y, d) <=> d = n /\ d < m
    BY <1>1, <1>3, <1>11 DEF Lower
  <2>5. c = 0 <=> x = y
    <3>1. x = y => c = 0
      BY <1>1, <2>2
    <3>2. ASSUME c = 0 PROVE x = y
      <4>1. n = m /\ d = n
        BY <1>1, <1>3, <1>11, <2>2, <3>2
      <4>2. \A i \in 1 .. Len(x) : x[i] = y[i]
        BY <1>3, <4>1
      <4> QED
        BY <4>1, <4>2, SeqEqual DEF Bytes
    <3> QED
      BY <3>1, <3>2
  <2> QED
    BY <1>4, <2>3, <2>4, <2>5 DEF Tells, c
<1> QED
  BY <1>10, <1>11

\* No sequence is before itself.
LEMMA NotBeforeItself ==
  ASSUME NEW x \in Bytes
  PROVE  ~ BytesBefore(x, x)
<1>1. Len(x) \in Nat
  BY LenProperties DEF Bytes
<1>2. Parting(x, x, Len(x))
  BY <1>1 DEF Parting
<1>3. ~ Lower(x, x, Len(x))
  BY <1>1 DEF Lower
<1> QED
  BY <1>2, <1>3, DecidedThere DEF Bytes

\* Fields in the order of a dictionary: decided at the first that differs
LEMMA FieldsDecided ==
  ASSUME NEW x \in Seq(Bytes), NEW y \in Seq(Bytes), NEW d, Parting(x, y, d)
  PROVE  Before(x, y, BytesBefore)
           <=> \/ d = Len(x) /\ d < Len(y)
               \/ d < Len(x) /\ d < Len(y) /\ BytesBefore(x[d + 1], y[d + 1])
<1>1. Len(x) \in Nat /\ Len(y) \in Nat
  BY LenProperties
<1>2. /\ d \in Nat /\ d <= Len(x) /\ d <= Len(y)
      /\ d < Len(x) /\ d < Len(y) => x[d + 1] # y[d + 1]
      /\ \A j \in 1 .. d : x[j] = y[j]
  BY <1>1 DEF Parting
<1>3. \A i \in 1 .. Len(x) : x[i] \in Bytes
  BY ElementOfSeq
<1> DEFINE Here(i) == /\ i <= Len(x) + 1
                      /\ \A j \in 1 .. i - 1 : x[j] = y[j]
                      /\ i = Len(x) + 1 \/ BytesBefore(x[i], y[i])
<1>4. Before(x, y, BytesBefore) <=> \E i \in 1 .. Len(y) : Here(i)
  BY DEF Before
<1>5. ASSUME NEW i \in 1 .. Len(y), Here(i) PROVE i = d + 1
  <2>1. CASE i <= d
    <3>1. i \in 1 .. d /\ i \in 1 .. Len(x) /\ i # Len(x) + 1
      BY <1>1, <1>2, <2>1
    <3>2. BytesBefore(x[i], x[i]) /\ x[i] \in Bytes
      BY <1>2, <1>3, <1>5, <3>1
    <3> QED
      BY <3>2, NotBeforeItself
  <2>2. CASE i > d + 1
    <3>1. d + 1 \in 1 .. i - 1 /\ d < Len(x) /\ d < Len(y)
      BY <1>1, <1>2, <1>5, <2>2
    <3> QED
      BY <1>2, <1>5, <3>1
  <2> QED
    BY <1>2, <2>1, <2>2
<1>6. ASSUME d < Len(y)
      PROVE  Here(d + 1) <=> d = Len(x) \/ BytesBefore(x[d + 1], y[d + 1])
  <2>1. d + 1 <= Len(x) + 1 /\ (d + 1) - 1 = d /\ (d + 1 = Len(x) + 1 <=> d = Len(x))
    BY <1>1, <1>2
  <2> QED
    BY <1>2, <2>1
<1>7. (\E i \in 1 .. Len(y) : Here(i)) <=> d < Len(y) /\ Here(d + 1)
  <2> HIDE DEF Here
  <2>1. d < Len(y) => d + 1 \in 1 .. Len(y)
    BY <1>1, <1>2
  <2>2. d + 1 \in 1 .. Len(y) => d < Len(y)
    BY <1>1, <1>2
  <2> QED
    BY <1>5, <2>1, <2>2
<1> HIDE DEF Here
<1>8. CASE d < Len(y)
  <2>1. d = Len(x) \/ d < Len(x)
    BY <1>1, <1>2
  <2>2. d = Len(x) => ~ (d < Len(x))
    BY <1>1, <1>2
  <2> QED
    BY <1>4, <1>6, <1>7, <1>8, <2>1, <2>2
<1>9. CASE ~ (d < Len(y))
  BY <1>4, <1>7, <1>9
<1> QED
  BY <1>8, <1>9

\* A recursion to lower and lower numbers has a function that it defines.
Descends(h, N, G, s, v) == h = [l \in 0 .. N |-> IF l \in G THEN h[s[l]] ELSE v[l]]

LEMMA DescentExists ==
  ASSUME NEW N \in Nat, NEW G, NEW s, NEW v, \A l \in 0 .. N : l \in G => s[l] \in 0 .. l - 1
  PROVE  \E h : Descends(h, N, G, s, v)
<1> DEFINE Defined(n, h) == h = [l \in 0 .. n |-> IF l \in G THEN h[s[l]] ELSE v[l]]
           T == {n \in Nat : \E h : Defined(n, h)}
<1>1. 0 \in T
  <2> DEFINE h == [l \in 0 .. 0 |-> v[l]]
  <2>1. 0 \notin G
    <3>1. ~ \E k : k \in 0 .. 0 - 1
      OBVIOUS
    <3> QED
      BY <3>1
  <2>2. Defined(0, h)
    <3>1. ASSUME NEW l \in 0 .. 0 PROVE h[l] = IF l \in G THEN h[s[l]] ELSE v[l]
      <4>1. l = 0
        OBVIOUS
      <4> QED
        BY <2>1, <4>1
    <3> QED
      BY <3>1
  <2> QED
    BY <2>2
<1>2. ASSUME NEW n \in 0 .. N - 1, n \in T PROVE n + 1 \in T
  <2>1. PICK f : Defined(n, f)
    BY <1>2
  <2> DEFINE last == IF n + 1 \in G THEN f[s[n + 1]] ELSE v[n + 1]
             h == [l \in 0 .. n + 1 |-> IF l = n + 1 THEN last ELSE f[l]]
  <2>2. n \in Nat /\ n + 1 \in 0 .. N /\ n + 1 \in 0 .. n + 1
    OBVIOUS
  <2>3. \A l \in 0 .. n : f[l] = IF l \in G THEN f[s[l]] ELSE v[l]
    BY <2>1
  <2>4. h[n + 1] = last /\ \A l \in 0 .. n : h[l] = f[l]
    BY <2>2
  <2> HIDE DEF h, last
  <2>5. ASSUME NEW l \in 0 .. n + 1 PROVE h[l] = IF l \in G THEN h[s[l]] ELSE v[l]
    <3>1. l \in G => h[s[l]] = f[s[l]]
      <4>1. l \in 0 .. N /\ l - 1 <= n
        BY <2>2
      <4>2. l \in G => s[l] \in 0 .. l - 1
        BY <4>1
      <4>3. l \in G => s[l] \in 0 .. n
        BY <4>1, <4>2
      <4> QED
        BY <2>4, <4>3
    <3>2. CASE l = n + 1
      BY <2>4, <3>1, <3>2 DEF last
    <3>3. CASE l # n + 1
      <4>1. l \in 0 .. n
        BY <2>2, <3>3
      <4> QED
        BY <2>3, <2>4, <3>1, <4>1
    <3> QED
      BY <3>2, <3>3
  <2>6. h = [l \in 0 .. n + 1 |-> h[l]]
    BY DEF h
  <2>7. Defined(n + 1, h)
    BY <2>5, <2>6
  <2> HIDE DEF Defined
  <2> QED
    BY <2>2, <2>7
<1> HIDE DEF T
<1>3. \A n \in 0 .. N - 1 : n \in T => n + 1 \in T
  BY <1>2
<1>4. \A n \in 0 .. N : n \in T
  BY <1>1, <1>3, UpTo
<1>5. N \in T
  BY <1>4
<1> QED
  BY <1>5 DEF T, Descends

\* What decides between two keys whose fields part behind the first d
KeyAnswer(first, second, x, y, d) ==
  IF d = Len(x) /\ d = Len(y) THEN TieBreak(first, second)
  ELSE IF Before(x, y, BytesBefore) THEN -1 ELSE 1

\* The fields of two keys, one after the other, up to the first that differ
LEMMA KeysVerdict ==
  ASSUME NEW first, NEW second, NEW x \in Seq(Bytes), NEW y \in Seq(Bytes),
         NEW P, Places(first, x, P), NEW Q, Places(second, y, Q),
         NEW d, Parting(x, y, d)
  PROVE  CompareKeys(first, second) = KeyAnswer(first, second, x, y, d)
<1> DEFINE n == Len(x)
           m == Len(y)
           N == KeyByte(first, -1)
           pos(left) == 4 + N - left
           right(left) == KeyByte(second, -1) - (N - left)
           fields(left) == CompareFields(first, second, pos(left))
           size(left) == KeyByte(first, pos(left)) + 1
           Goes(left) == /\ left # 0 /\ right(left) # 0
                         /\ ~ (fields(left) < 0) /\ fields(left) = 0 /\ size(left) <= left
           Outcome(left) == IF left = 0 /\ right(left) = 0 THEN TieBreak(first, second)
                          ELSE IF left = 0 THEN -1
                          ELSE IF right(left) = 0 THEN 1
                          ELSE IF fields(left) < 0 THEN -1 ELSE 1
           step(h) == [left \in 0 .. N |->
                         IF left = 0 /\ right(left) = 0 THEN TieBreak(first, second)
                         ELSE IF left = 0 THEN -1
                         ELSE IF right(left) = 0 THEN 1
                         ELSE IF fields(left) < 0 THEN -1
                         ELSE IF fields(left) = 0 /\ size(left) <= left THEN h[left - size(left)]
                         ELSE 1]
           from == CHOOSE h : h = step(h)
<1>1. CompareKeys(first, second) = from[N]
  BY DEF CompareKeys
<1>2. n \in Nat /\ m \in Nat
  BY LenProperties
<1>3. /\ \A i \in 0 .. n : P[i] \in Nat
      /\ \A i \in 0 .. m : Q[i] \in Nat
      /\ P[0] = 0 /\ Q[0] = 0 /\ N = P[n] /\ N \in Nat /\ KeyByte(second, -1) = Q[m]
  <2>1. /\ P \in [0 .. n -> Nat] /\ P[0] = 0 /\ N = P[n]
        /\ Q \in [0 .. m -> Nat] /\ Q[0] = 0 /\ KeyByte(second, -1) = Q[m]
    BY DEF Places
  <2> HIDE DEF n, m, N
  <2> QED
    BY <1>2, <2>1
<1> HIDE DEF N
<1>4. \A left \in 1 .. N : KeyByte(first, pos(left)) \in Nat
  <2>1. ASSUME NEW left \in 1 .. N PROVE KeyByte(first, pos(left)) \in Nat
    <3>1. (N - left) + 1 \in 1 .. P[n] /\ 3 + ((N - left) + 1) = pos(left)
      BY <1>3
    <3>2. KeyByte(first, 3 + ((N - left) + 1)) \in Nat
      BY <3>1 DEF Places
    <3> QED
      BY <3>1, <3>2
  <2> QED
    BY <2>1
<1> HIDE DEF fields, right, size
<1>5. \A h : step(h) = [left \in 0 .. N |-> IF Goes(left) THEN h[left - size(left)] ELSE Outcome(left)]
  <2>1. ASSUME NEW h, NEW left \in 0 .. N
        PROVE  step(h)[left] = IF Goes(left) THEN h[left - size(left)] ELSE Outcome(left)
    OBVIOUS
  <2> QED
    BY <2>1
<1> HIDE DEF step, Outcome
<1>6. \E h : h = step(h)
  <2> DEFINE G == {left \in 0 .. N : Goes(left)}
             s == [left \in 0 .. N |-> left - size(left)]
             v == [left \in 0 .. N |-> Outcome(left)]
  <2>1. ASSUME NEW left \in 0 .. N, left \in G PROVE s[left] \in 0 .. left - 1
    <3>1. left \in 1 .. N /\ size(left) <= left
      BY <1>3, <2>1
    <3>2. size(left) \in Nat /\ size(left) >= 1
      BY <1>4, <3>1 DEF size
    <3> QED
      BY <1>3, <3>1, <3>2
  <2> HIDE DEF Goes
  <2>2. \A left \in 0 .. N : /\ left \in G <=> Goes(left)
                             /\ s[left] = left - size(left) /\ v[left] = Outcome(left)
    OBVIOUS
  <2> HIDE DEF G, s, v
  <2>5. \A left \in 0 .. N : left \in G => s[left] \in 0 .. left - 1
    BY <2>1
  <2>6. PICK h : Descends(h, N, G, s, v)
    BY <1>3, <2>5, DescentExists
  <2>3. h = [left \in 0 .. N |-> IF left \in G THEN h[s[left]] ELSE v[left]]
    BY <2>6 DEF Descends
  <2>4. h = [left \in 0 .. N |-> IF Goes(left) THEN h[left - size(left)] ELSE Outcome(left)]
    BY <2>2, <2>3
  <2> QED
    BY <1>5, <2>4
<1>7. from = step(from)
  BY <1>6
<1> HIDE DEF from
<1>8. \A left \in 0 .. N : from[left] = IF Goes(left) THEN from[left - size(left)] ELSE Outcome(left)
  BY <1>5, <1>7
<1>9. /\ d \in Nat /\ d <= n /\ d <= m /\ (d < n /\ d < m => x[d + 1] # y[d + 1])
      /\ \A j \in 1 .. d : x[j] = y[j]
  BY <1>2 DEF Parting
<1>10. /\ \A i \in 1 .. n : /\ P[i] = P[i - 1] + Len(x[i]) + 1 /\ P[i] <= P[n]
                            /\ KeyByte(first, 4 + P[i - 1]) = Len(x[i])
                            /\ \A k \in 1 .. Len(x[i]) : KeyByte(first, 4 + P[i - 1] + k) = x[i][k]
       /\ \A i \in 1 .. m : /\ Q[i] = Q[i - 1] + Len(y[i]) + 1 /\ Q[i] <= Q[m]
                            /\ KeyByte(second, 4 + Q[i - 1]) = Len(y[i])
                            /\ \A k \in 1 .. Len(y[i]) : KeyByte(second, 4 + Q[i - 1] + k) = y[i][k]
  BY DEF Places
<1>11. /\ \A i \in 1 .. n : x[i] \in Bytes /\ Len(x[i]) \in Nat
       /\ \A i \in 1 .. m : y[i] \in Bytes /\ Len(y[i]) \in Nat
  <2>1. /\ \A i \in 1 .. n : x[i] \in Bytes
        /\ \A i \in 1 .. m : y[i] \in Bytes
    BY ElementOfSeq
  <2> QED
    BY <2>1, LenProperties DEF Bytes
\* up to d the fields take as much in one as in the other
<1>12. \A i \in 0 .. d : P[i] = Q[i]
  <2> DEFINE T == {i \in Nat : P[i] = Q[i]}
  <2>1. ASSUME NEW i \in 0 .. d - 1, i \in T PROVE i + 1 \in T
    <3>1. i + 1 \in 1 .. n /\ i + 1 \in 1 .. m /\ i + 1 \in 1 .. d /\ (i + 1) - 1 = i /\ i + 1 \in Nat
      BY <1>2, <1>9
    <3>2. P[i + 1] = P[i] + Len(x[i + 1]) + 1 /\ Q[i + 1] = Q[i] + Len(y[i + 1]) + 1
      BY <1>10, <3>1
    <3> QED
      BY <1>9, <2>1, <3>1, <3>2
  <2>2. 0 \in T /\ \A i \in 0 .. d - 1 : i \in T => i + 1 \in T
    BY <1>3, <2>1
  <2> HIDE DEF T
  <2>3. \A i \in 0 .. d : i \in T
    BY <1>9, <2>2, UpTo
  <2> QED
    BY <2>3 DEF T
\* what is left before field i + 1
<1> DEFINE left(i) == N - P[i]
<1>13. ASSUME NEW i \in 0 .. d
       PROVE  /\ left(i) \in 0 .. N /\ pos(left(i)) = 4 + P[i] /\ right(left(i)) = Q[m] - P[i]
              /\ left(i) = 0 <=> i = n
              /\ right(left(i)) = 0 <=> i = m
              /\ i < n => size(left(i)) = Len(x[i + 1]) + 1 /\ size(left(i)) <= left(i)
                          /\ left(i) - size(left(i)) = left(i + 1)
  <2>1. i \in 0 .. n /\ i \in 0 .. m /\ P[i] \in Nat /\ Q[i] = P[i] /\ Q[m] \in Nat
    BY <1>2, <1>3, <1>9, <1>12
  <2>2. pos(left(i)) = 4 + P[i] /\ right(left(i)) = Q[m] - P[i]
    <3> DEFINE p == P[i]
               q == Q[m]
    <3>1. p \in Nat /\ q \in Nat /\ N \in Nat /\ left(i) = N - p /\ KeyByte(second, -1) = q
      BY <1>3, <2>1
    <3> HIDE DEF p, q
    <3>2. (N + 4) - (N - p) = 4 + p /\ q - (N - (N - p)) = q - p
      BY <3>1
    <3> QED
      BY <3>1, <3>2 DEF right, p, q
  <2>3. ASSUME i < n
        PROVE  size(left(i)) = Len(x[i + 1]) + 1 /\ size(left(i)) <= left(i)
               /\ left(i) - size(left(i)) = left(i + 1)
    <3>1. i + 1 \in 1 .. n /\ (i + 1) - 1 = i /\ i + 1 \in 0 .. n
      BY <1>2, <2>3
    <3>2. /\ P[i + 1] = P[i] + Len(x[i + 1]) + 1 /\ P[i + 1] <= N /\ Len(x[i + 1]) \in Nat
          /\ KeyByte(first, 4 + P[i]) = Len(x[i + 1]) /\ P[i + 1] \in Nat
      BY <1>3, <1>10, <1>11, <3>1
    <3>3. size(left(i)) = Len(x[i + 1]) + 1
      BY <2>2, <3>2 DEF size
    <3> DEFINE p == P[i]
               q == P[i + 1]
               l == Len(x[i + 1])
    <3>4. p \in Nat /\ l \in Nat /\ q \in Nat /\ N \in Nat /\ q = p + l + 1 /\ q <= N
      BY <1>3, <2>1, <3>2
    <3> HIDE DEF p, q, l
    <3>5. l + 1 <= N - p /\ (N - p) - (l + 1) = N - q
      BY <3>4
    <3> QED
      BY <3>3, <3>5 DEF p, q, l
  <2>5. right(left(i)) = 0 <=> i = m
    <3>1. CASE i < m
      <4>1. i + 1 \in 1 .. m /\ (i + 1) - 1 = i
        BY <1>2, <3>1
      <4>2. Q[i + 1] = Q[i] + Len(y[i + 1]) + 1 /\ Q[i + 1] <= Q[m] /\ Len(y[i + 1]) \in Nat
        BY <1>10, <1>11, <4>1
      <4> QED
        BY <2>1, <2>2, <3>1, <4>2
    <3>2. CASE i = m
      BY <2>1, <2>2, <3>2
    <3> QED
      BY <1>2, <2>1, <3>1, <3>2
  <2>6. left(i) \in 0 .. N /\ (left(i) = 0 <=> i = n)
    <3>1. i < n \/ i = n
      BY <2>1
    <3>2. i < n => left(i) \in 0 .. N /\ left(i) # 0
      <4>1. ASSUME i < n PROVE left(i) \in 0 .. N /\ left(i) # 0
        <5>1. i + 1 \in 1 .. n /\ (i + 1) - 1 = i
          BY <1>2, <4>1
        <5>2. P[i + 1] = P[i] + Len(x[i + 1]) + 1 /\ P[i + 1] <= N /\ Len(x[i + 1]) \in Nat
          BY <1>3, <1>10, <1>11, <5>1
        <5> DEFINE p == P[i]
                   q == P[i + 1]
                   l == Len(x[i + 1])
        <5>3. p \in Nat /\ N \in Nat /\ l \in Nat /\ q = p + l + 1 /\ q <= N
          BY <1>3, <2>1, <5>2
        <5> HIDE DEF p, q, l
        <5>4. N - p \in 0 .. N /\ N - p # 0
          BY <5>3
        <5> QED
          BY <5>4 DEF p
      <4> QED
        BY <4>1
    <3>3. i = n => left(i) = 0
      BY <1>3, <2>1
    <3> QED
      BY <1>2, <1>3, <3>1, <3>2, <3>3
  <2> HIDE DEF left
  <2> QED
    BY <2>2, <2>3, <2>5, <2>6
<1>14. ASSUME NEW i \in 0 .. d, i < n, i < m
       PROVE  /\ fields(left(i)) \in Int
              /\ fields(left(i)) < 0 <=> BytesBefore(x[i + 1], y[i + 1])
              /\ fields(left(i)) = 0 <=> x[i + 1] = y[i + 1]
  <2>1. /\ i + 1 \in 1 .. n /\ i + 1 \in 1 .. m /\ (i + 1) - 1 = i
    BY <1>2, <1>14
  <2>2. P[i] = Q[i] /\ P[i] \in Nat
    BY <1>3, <1>9, <1>12
  <2> DEFINE p == 4 + P[i]
  <2>3. /\ KeyByte(first, p) = Len(x[i + 1]) /\ KeyByte(second, p) = Len(y[i + 1])
        /\ \A k \in 1 .. Len(x[i + 1]) : KeyByte(first, p + k) = x[i + 1][k]
        /\ \A k \in 1 .. Len(y[i + 1]) : KeyByte(second, p + k) = y[i + 1][k]
    BY <1>10, <2>1, <2>2
  <2>4. p \in Int /\ x[i + 1] \in Bytes /\ y[i + 1] \in Bytes
    BY <1>11, <2>1, <2>2
  <2>5. fields(left(i)) = CompareFields(first, second, p)
    BY <1>13 DEF fields
  <2> HIDE DEF p
  <2> HIDE DEF left
  <2>6. Tells(CompareFields(first, second, p), x[i + 1], y[i + 1])
    BY <2>3, <2>4, FieldVerdict
  <2> QED
    BY <2>5, <2>6 DEF Tells
<1>15. ASSUME NEW i \in 0 .. d - 1 PROVE from[left(i)] = from[left(i + 1)]
  <2>1. i \in 0 .. d /\ i < n /\ i < m /\ i # n /\ i # m /\ i + 1 \in 1 .. d
    BY <1>2, <1>9
  <2>2. fields(left(i)) = 0
    BY <1>9, <1>14, <2>1
  <2>3. ~ (fields(left(i)) < 0)
    BY <2>2
  <2>4. Goes(left(i)) /\ left(i) \in 0 .. N /\ left(i) - size(left(i)) = left(i + 1)
    BY <1>13, <2>1, <2>2, <2>3
  <2> HIDE DEF Goes, left
  <2> QED
    BY <1>8, <2>4
<1>16. from[N] = from[left(d)]
  <2> DEFINE T == {i \in Nat : from[left(i)] = from[N]}
  <2>1. 0 \in T
    <3>1. left(0) = N
      BY <1>3
    <3> QED
      BY <3>1
  <2> HIDE DEF left
  <2>2. \A i \in 0 .. d - 1 : i \in T => i + 1 \in T
    BY <1>15
  <2> HIDE DEF T
  <2>3. d \in T
    <3>1. \A i \in 0 .. d : i \in T
      BY <1>9, <2>1, <2>2, UpTo
    <3> QED
      BY <1>9, <3>1
  <2> QED
    BY <2>3 DEF T
<1>17. /\ left(d) \in 0 .. N
       /\ left(d) = 0 <=> d = n
       /\ right(left(d)) = 0 <=> d = m
  BY <1>9, <1>13
<1>18. d < n /\ d < m => /\ fields(left(d)) \in Int /\ fields(left(d)) # 0
                         /\ fields(left(d)) < 0 <=> BytesBefore(x[d + 1], y[d + 1])
  BY <1>9, <1>14
<1>19. Before(x, y, BytesBefore)
         <=> \/ d = n /\ d < m
             \/ d < n /\ d < m /\ BytesBefore(x[d + 1], y[d + 1])
  BY FieldsDecided
<1>20. /\ d = n \/ d < n
       /\ d = m \/ d < m
       /\ d < n => d # n
       /\ d < m => d # m
  BY <1>2, <1>9
<1> HIDE DEF left, n, m
<1>21. ~ Goes(left(d))
  BY <1>17, <1>18, <1>20
<1>22. from[N] = Outcome(left(d))
  BY <1>8, <1>16, <1>17, <1>21
<1>23. Outcome(left(d)) = IF d = n /\ d = m THEN TieBreak(first, second)
                        ELSE IF Before(x, y, BytesBefore) THEN -1 ELSE 1
  BY <1>17, <1>18, <1>19, <1>20 DEF Outcome
<1> QED
  BY <1>1, <1>22, <1>23 DEF KeyAnswer, n, m

LEMMA SortKeyIs ==
  ASSUME NEW a \in SortKeys
  PROVE  /\ a.fields \in Seq(Bytes)
         /\ a.flags \in Int /\ 0 <= a.flags /\ a.flags <= 255
         /\ a.combined \in Int /\ 0 <= a.combined /\ a.combined < 16384
<1>1. a.fields \in Seq(Bytes)
  BY DEF SortKeys
<1>2. a.flags \in 0 .. 255
  BY DEF SortKeys
<1>3. a.combined \in CombinedWords
  BY DEF SortKeys
<1>4. \A f \in 0 .. 255 : f \in Int /\ 0 <= f /\ f <= 255
  OBVIOUS
<1>5. \A c \in CombinedWords : c \in Int /\ 0 <= c /\ c < 16384
  BY DEF CombinedWords
<1>6. a.flags \in Int /\ 0 <= a.flags /\ a.flags <= 255
  BY <1>2, <1>4
<1>7. a.combined \in Int /\ 0 <= a.combined /\ a.combined < 16384
  BY <1>3, <1>5
<1> QED
  BY <1>1, <1>6, <1>7

\* What KEYCMP reads in front of the fields
LEMMA KeyHead ==
  ASSUME NEW key, key.fields \in Seq(Bytes)
  PROVE  /\ KeyByte(KeyBytes(key), -2) = key.flags
         /\ KeyByte(KeyBytes(key), 2) = key.combined % 256
         /\ KeyByte(KeyBytes(key), 3) = key.combined \div 256
<1> DEFINE fields == key.fields
           s == Laid(fields)
           all == FlattenSeq(s)
           head == <<key.flags, Len(all), 0, 0, key.combined % 256, key.combined \div 256>>
<1>1. s \in Seq(Seq(Nat)) /\ Len(s) \in Nat
  BY LaidIs, LenProperties DEF Bytes
<1>2. KeyBytes(key) = head \o all
  BY DEF KeyBytes, Laid
<1> HIDE DEF s
<1>3. PICK f : Joins(f, s, Nat)
  BY <1>1, JoinsExist
<1>4. all = f[Len(s)]
  BY <1>1, <1>3, FlattenJoins
<1>5. all \in Seq(Nat)
  <2>1. Len(s) \in 0 .. Len(s)
    BY <1>1
  <2> HIDE DEF all
  <2> QED
    BY <1>3, <1>4, <2>1 DEF Joins
<1> HIDE DEF all
<1> QED
  BY <1>2, <1>5 DEF KeyByte

\* Keys with the same fields: the combined words, then the flags
Tie(a, b) ==
  IF a.flags \notin 64 .. 127 \cup 192 .. 255 THEN 0
  ELSE IF BytesBefore(<<a.combined, a.flags % 64>>, <<b.combined, b.flags % 64>>) THEN -1 ELSE 1

LEMMA TieIs ==
  ASSUME NEW a \in SortKeys, NEW b \in SortKeys
  PROVE  TieBreak(KeyBytes(a), KeyBytes(b)) = Tie(a, b)
<1> DEFINE first == KeyBytes(a)
           second == KeyBytes(b)
<1>0. /\ a.fields \in Seq(Bytes) /\ b.fields \in Seq(Bytes)
      /\ a.flags \in Int /\ 0 <= a.flags /\ a.flags <= 255 /\ b.flags \in Int
      /\ a.combined \in Int /\ 0 <= a.combined /\ a.combined < 16384
      /\ b.combined \in Int /\ 0 <= b.combined /\ b.combined < 16384
  BY SortKeyIs
<1>1. /\ Flags(first) = a.flags /\ Flags(second) = b.flags
      /\ KeyByte(first, 2) = a.combined % 256 /\ KeyByte(first, 3) = a.combined \div 256
      /\ KeyByte(second, 2) = b.combined % 256 /\ KeyByte(second, 3) = b.combined \div 256
  BY <1>0, KeyHead DEF Flags
<1> HIDE DEF first, second
<1>2. \A c \in Int : 0 <= c /\ c < 16384 => 256 * ((c \div 256) % 64) + (c % 256) = c
  <2>1. ASSUME NEW c \in Int, 0 <= c, c < 16384 PROVE 256 * ((c \div 256) % 64) + (c % 256) = c
    <3> DEFINE h == c \div 256
    <3>1. c \in Int /\ h \in Int /\ 0 <= h /\ h < 64 /\ 256 * h + (c % 256) = c
      BY <2>1
    <3> HIDE DEF h
    <3>2. h % 64 = h
      BY <3>1
    <3> QED
      BY <3>1, <3>2 DEF h
  <2> QED
    BY <2>1
<1>3. Combined(first) = a.combined /\ Combined(second) = b.combined
  <2> DEFINE c == a.combined
             e == b.combined
  <2>1. 256 * ((c \div 256) % 64) + (c % 256) = c /\ 256 * ((e \div 256) % 64) + (e % 256) = e
    <3>1. c \in Int /\ 0 <= c /\ c < 16384 /\ e \in Int /\ 0 <= e /\ e < 16384
      BY <1>0
    <3> HIDE DEF c, e
    <3> QED
      BY <1>2, <3>1
  <2> HIDE DEF c, e
  <2>2. KeyByte(first, 2) = c % 256 /\ KeyByte(first, 3) = c \div 256
        /\ KeyByte(second, 2) = e % 256 /\ KeyByte(second, 3) = e \div 256
    BY <1>1 DEF c, e
  <2>3. Combined(first) = c /\ Combined(second) = e
    BY <2>1, <2>2 DEF Combined
  <2> QED
    BY <2>3 DEF c, e
<1>4. Structured(first) <=> a.flags \in 64 .. 127 \cup 192 .. 255
  <2> DEFINE f == a.flags
             h == f \div 64
  <2>1. f \in Int /\ 0 <= f /\ f <= 255
    BY <1>0
  <2> HIDE DEF f
  <2>2. h \in Int /\ 0 <= h /\ h <= 3 /\ 64 * h <= f /\ f < 64 * h + 64
    BY <2>1
  <2> HIDE DEF h
  <2>3. h % 2 = 1 <=> h = 1 \/ h = 3
    BY <2>2
  <2>4. (h = 1 <=> f \in 64 .. 127) /\ (h = 3 <=> f \in 192 .. 255)
    BY <2>1, <2>2
  <2> QED
    BY <1>1, <2>3, <2>4 DEF Structured, f, h
<1> DEFINE p == a.combined
           q == b.combined
           f == a.flags % 64
           g == b.flags % 64
<1>5. p \in Nat /\ q \in Nat /\ f \in Nat /\ g \in Nat
  <2>1. /\ a.combined \in Int /\ 0 <= a.combined /\ b.combined \in Int /\ 0 <= b.combined
        /\ a.flags \in Int /\ b.flags \in Int
    BY <1>0
  <2>2. \A v \in Int : v % 64 \in Nat
    OBVIOUS
  <2> QED
    BY <2>1, <2>2
<1>6. TieBreak(first, second)
        = CASE ~Structured(first)          -> 0
            [] Structured(first) /\ p < q -> -1
            [] Structured(first) /\ p > q -> 1
            [] Structured(first) /\ p = q -> IF f < g THEN -1 ELSE 1
  BY <1>1, <1>3, Zenon DEF TieBreak
<1> HIDE DEF p, q, f, g
<1>7. BytesBefore(<<p, f>>, <<q, g>>) <=> p < q \/ (p = q /\ f < g)
  <2> DEFINE x == <<p, f>>
             y == <<q, g>>
  <2>1. x \in Seq(Nat) /\ y \in Seq(Nat) /\ Len(x) = 2 /\ Len(y) = 2
        /\ x[1] = p /\ x[2] = f /\ y[1] = q /\ y[2] = g
    BY <1>5
  <2> HIDE DEF x, y
  <2>2. CASE p # q
    <3>1. Parting(x, y, 0)
      BY <2>1, <2>2 DEF Parting
    <3>2. Lower(x, y, 0) <=> p < q
      BY <2>1, <2>2 DEF Lower
    <3>3. BytesBefore(x, y) <=> Lower(x, y, 0)
      BY <2>1, <3>1, DecidedThere
    <3> QED
      BY <2>2, <3>2, <3>3 DEF x, y
  <2>3. CASE p = q /\ f # g
    <3>1. Parting(x, y, 1)
      BY <2>1, <2>3 DEF Parting
    <3>2. Lower(x, y, 1) <=> f < g
      BY <2>1, <2>3 DEF Lower
    <3>3. BytesBefore(x, y) <=> Lower(x, y, 1)
      BY <2>1, <3>1, DecidedThere
    <3>4. ~ (p < q)
      BY <1>5, <2>3
    <3> QED
      BY <2>3, <3>2, <3>3, <3>4 DEF x, y
  <2>4. CASE p = q /\ f = g
    <3>1. x = y
      BY <2>4 DEF x, y
    <3>2. ~ BytesBefore(x, y)
      BY <2>1, <3>1, NotBeforeItself DEF Bytes
    <3>3. ~ (p < q) /\ ~ (f < g)
      BY <1>5, <2>4
    <3> QED
      BY <3>2, <3>3 DEF x, y
  <2> QED
    BY <2>2, <2>3, <2>4
<1>8. TieBreak(first, second)
        = IF ~Structured(first) THEN 0 ELSE IF BytesBefore(<<p, f>>, <<q, g>>) THEN -1 ELSE 1
  <2>1. p < q \/ p > q \/ p = q
    BY <1>5
  <2>2. (p < q => ~ (p > q) /\ p # q) /\ (p > q => p # q)
    BY <1>5
  <2>3. CASE ~Structured(first)
    BY <1>6, <2>3, Zenon
  <2>4. CASE Structured(first) /\ p < q
    <3>1. TieBreak(first, second) = -1
      BY <1>5, <1>6, <2>4
    <3> QED
      BY <1>7, <2>4, <3>1
  <2>5. CASE Structured(first) /\ p > q
    <3>1. TieBreak(first, second) = 1
      BY <1>5, <1>6, <2>5
    <3>2. ~ (p < q) /\ p # q
      BY <1>5, <2>5
    <3> QED
      BY <1>7, <2>5, <3>1, <3>2
  <2>6. CASE Structured(first) /\ p = q
    <3>1. TieBreak(first, second) = IF f < g THEN -1 ELSE 1
      BY <1>5, <1>6, <2>6
    <3>2. ~ (p < q)
      BY <1>5, <2>6
    <3> QED
      BY <1>7, <2>6, <3>1, <3>2
  <2> QED
    BY <2>1, <2>3, <2>4, <2>5, <2>6
<1> QED
  BY <1>4, <1>8 DEF Tie, first, second, p, q, f, g

\* What StringsOrdered says of two strings
LEMMA StringsAlike ==
  ASSUME NEW first \in Seq(Nat), NEW second \in Seq(Nat), NEW offset \in 0 .. Len(first)
  PROVE  LET n    == Len(first) - offset
             part == SubSeq(first, offset + 1, Len(first))
             a    == Folded(part)
             b    == Folded(second)
             sign == LpstCompareIgnoringCase(first, offset, n, second, Len(second))
         IN  /\ (sign = 1) <=> BytesBefore(a, b)
             /\ (sign = -1) <=> BytesBefore(b, a)
             /\ sign = Lp128CompareIgnoringCase(first, offset, n, second, Len(second))
             /\ Len(a) = Len(b) => sign = CompareBytes(a, b, Len(a))
<1> DEFINE n    == Len(first) - offset
           m    == Len(second)
           part == SubSeq(first, offset + 1, Len(first))
           a    == Folded(part)
           b    == Folded(second)
           sign == LpstCompareIgnoringCase(first, offset, n, second, Len(second))
<1>1. /\ Len(first) \in Nat /\ m \in Nat /\ offset \in Nat /\ n \in Nat /\ offset + n = Len(first)
      /\ \A i \in 1 .. Len(first) : first[i] \in Nat
      /\ \A i \in 1 .. m : second[i] \in Nat
  BY LenProperties, ElementOfSeq
<1>2. part \in Seq(Nat) /\ Len(part) = n /\ \A i \in 1 .. n : part[i] = first[offset + i]
  <2> DEFINE l == offset + 1
             h == Len(first)
  <2>1. l \in Int /\ h \in Int /\ l <= h + 1 /\ h - l + 1 = n /\ \A i \in l .. h : first[i] \in Nat
    BY <1>1
  <2> HIDE DEF l, h
  <2>2. /\ SubSeq(first, l, h) \in Seq(Nat)
        /\ Len(SubSeq(first, l, h)) = IF l <= h THEN h - l + 1 ELSE 0
        /\ \A i \in 1 .. h - l + 1 : SubSeq(first, l, h)[i] = first[l + i - 1]
    BY <2>1, SubSeqProperties
  <2>3. Len(part) = n
    <3>1. l <= h \/ h - l + 1 = 0
      BY <2>1
    <3> QED
      BY <2>1, <2>2, <3>1, Zenon DEF l, h
  <2>4. ASSUME NEW i \in 1 .. n PROVE part[i] = first[offset + i]
    <3>1. i \in 1 .. h - l + 1 /\ l + i - 1 = offset + i
      BY <1>1, <2>1 DEF l
    <3>2. SubSeq(first, l, h)[i] = first[l + i - 1]
      BY <2>2, <3>1
    <3> QED
      BY <3>1, <3>2 DEF l, h
  <2> QED
    BY <2>2, <2>3, <2>4 DEF l, h
<1> HIDE DEF part, n
<1>3. \A v \in Nat : Fold(v) \in Nat
  BY DEF Fold
<1>4. /\ a \in Seq(Nat) /\ Len(a) = n
      /\ \A i \in 1 .. n : a[i] = Fold(first[offset + i]) /\ a[i] \in Nat
  <2>1. DOMAIN part = 1 .. n /\ \A i \in 1 .. n : part[i] \in Nat
    BY <1>2, LenProperties, ElementOfSeq
  <2>2. a = [i \in 1 .. n |-> Fold(part[i])]
    BY <2>1 DEF Folded
  <2> HIDE DEF a
  <2>3. \A i \in 1 .. n : a[i] = Fold(part[i]) /\ a[i] \in Nat
    BY <1>3, <2>1, <2>2
  <2>4. a \in Seq(Nat) /\ Len(a) = n
    BY <1>1, <2>2, <2>3
  <2> QED
    BY <1>2, <2>3, <2>4
<1>5. /\ b \in Seq(Nat) /\ Len(b) = m
      /\ \A i \in 1 .. m : b[i] = Fold(second[i]) /\ b[i] \in Nat
  <2>1. DOMAIN second = 1 .. m
    BY LenProperties
  <2>2. b = [i \in 1 .. m |-> Fold(second[i])]
    BY <2>1 DEF Folded
  <2> HIDE DEF b, m
  <2>3. \A i \in 1 .. m : b[i] = Fold(second[i]) /\ b[i] \in Nat
    BY <1>1, <1>3, <2>2
  <2> QED
    BY <1>1, <2>2, <2>3
<1> HIDE DEF a, b, m
<1>6. \A i \in 0 .. n - 1 : a[i + 1] = Fold(PayloadAt(first, offset + i)) /\ a[i + 1] \in Nat
  <2>1. ASSUME NEW i \in 0 .. n - 1
        PROVE  a[i + 1] = Fold(PayloadAt(first, offset + i)) /\ a[i + 1] \in Nat
    <3>1. i + 1 \in 1 .. n /\ offset + (i + 1) = (offset + i) + 1
      BY <1>1
    <3> QED
      BY <1>4, <3>1 DEF PayloadAt
  <2> QED
    BY <2>1
<1>7. \A i \in 0 .. m - 1 : b[i + 1] = Fold(PayloadAt(second, i)) /\ b[i + 1] \in Nat
  <2>1. ASSUME NEW i \in 0 .. m - 1
        PROVE  b[i + 1] = Fold(PayloadAt(second, i)) /\ b[i + 1] \in Nat
    <3>1. i + 1 \in 1 .. m
      BY <1>1
    <3> QED
      BY <1>5, <3>1 DEF PayloadAt
  <2> QED
    BY <2>1
<1>13. FoldedBytes(a, first, offset, n) /\ FoldedBytes(b, second, 0, m)
  <2>1. \A i \in 0 .. m - 1 : 0 + i = i
    OBVIOUS
  <2> QED
    BY <1>4, <1>5, <1>6, <1>7, <2>1 DEF FoldedBytes
<1>8. PICK d : Parting(a, b, d)
  BY <1>1, <1>4, <1>5, PartingExists
<1>9. LpstCompareIgnoringCase(first, offset, n, second, m) = Verdict(a, b, d)
  BY <1>1, <1>4, <1>5, <1>8, <1>13, LpstVerdict
<1>10. Lp128CompareIgnoringCase(first, offset, n, second, m) = Verdict(a, b, d)
  BY <1>1, <1>4, <1>5, <1>8, <1>13, Lp128Verdict
<1>11. /\ Verdict(a, b, d) = 1 <=> BytesBefore(a, b)
       /\ Verdict(a, b, d) = -1 <=> BytesBefore(b, a)
  BY <1>4, <1>5, <1>8, VerdictIs
<1>12. Len(a) = Len(b) => CompareBytes(a, b, Len(a)) = Verdict(a, b, d)
  BY <1>4, <1>5, <1>8, BytesVerdict
<1> QED
  BY <1>9, <1>10, <1>11, <1>12 DEF n, m, part, a, b

\* What StringsOrdered says of two keys
LEMMA KeysInOrder ==
  ASSUME NEW a \in SortKeys, NEW b \in SortKeys
  PROVE  LET sign == CompareKeys(KeyBytes(a), KeyBytes(b))
             tie  == << <<a.combined, a.flags % 64>>, <<b.combined, b.flags % 64>> >>
         IN  IF a.fields # b.fields
             THEN sign = IF Before(a.fields, b.fields, BytesBefore) THEN -1 ELSE 1
             ELSE sign = IF a.flags \notin 64 .. 127 \cup 192 .. 255 THEN 0
                         ELSE IF BytesBefore(tie[1], tie[2]) THEN -1 ELSE 1
<1> DEFINE x == a.fields
           y == b.fields
           sign == CompareKeys(KeyBytes(a), KeyBytes(b))
<1>0. x \in Seq(Bytes) /\ y \in Seq(Bytes)
  BY SortKeyIs
<1>1. PICK P : Places(KeyBytes(a), x, P)
  BY <1>0, PlacesExist
<1>2. PICK Q : Places(KeyBytes(b), y, Q)
  BY <1>0, PlacesExist
<1>3. Len(x) \in Nat /\ Len(y) \in Nat
  BY <1>0, LenProperties
<1>4. PICK d : Parting(x, y, d)
  BY <1>3, PartingExists
<1>5. sign = KeyAnswer(KeyBytes(a), KeyBytes(b), x, y, d)
  BY <1>0, <1>1, <1>2, <1>4, KeysVerdict
<1>6. d = Len(x) /\ d = Len(y) <=> x = y
  <2>1. ASSUME d = Len(x), d = Len(y) PROVE x = y
    <3>1. Len(x) = Len(y) /\ \A i \in 1 .. Len(x) : x[i] = y[i]
      BY <1>4, <2>1 DEF Parting
    <3> QED
      BY <1>0, <3>1, SeqEqual
  <2>2. ASSUME x = y PROVE d = Len(x) /\ d = Len(y)
    BY <1>3, <1>4, <2>2 DEF Parting
  <2> QED
    BY <2>1, <2>2
<1>7. TieBreak(KeyBytes(a), KeyBytes(b)) = Tie(a, b)
  BY TieIs
<1> HIDE DEF sign
<1>8. CASE x # y
  BY <1>5, <1>6, <1>8 DEF KeyAnswer, sign
<1>9. CASE x = y
  BY <1>5, <1>6, <1>7, <1>9 DEF KeyAnswer, Tie, sign
<1> QED
  BY <1>8, <1>9

----------------------------------------------------------------------------
(* Strings and texts *)

\* TextUnpacks: for every text of 5-bit symbols, cut anywhere.
THEOREM TextsUnpack == OperatorsSpec => []TextUnpacks
<1>1. ASSUME CaseKnown, asked.kind = "unpack" PROVE TextUnpacks
  <2> DEFINE text == asked.text
             n == Len(text) \div 3
             cut == asked.cut
             offset == asked.offset
  <2>1. /\ text \in Seq(Symbol) /\ text # << >> /\ Len(text) % 3 = 0
        /\ cut \in 0 .. n - 1 /\ offset \in Nat
    BY <1>1 DEF CaseKnown, Known, Symbol
  <2>2. n \in Nat \ {0} /\ Len(text) = 3 * n
    <3>1. Len(text) \in Nat /\ Len(text) # 0
      BY <2>1, LenProperties, EmptySeq
    <3> HIDE DEF text
    <3> QED
      BY <2>1, <3>1
  <2> HIDE DEF text, n, cut, offset
  <2> DEFINE words == Packed(text)
             whole == Unpacked(words, Len(words), offset)
             part  == Unpacked(words, cut, offset)
             rest  == Unpacked(SubSeq(words, cut + 1, Len(words)), Len(words) - cut, part.pushed)
  <2>3. /\ whole.bytes = [text EXCEPT ![Len(text)] = @ + 128]
        /\ whole.pushed = FalseWord /\ rest.pushed = FalseWord
        /\ part.bytes \o rest.bytes = whole.bytes
        /\ part.pushed = Word(offset + 3 * cut)
    BY <2>1, <2>2, PackedUnpacks, ZenonT(60)
  <2> QED
    BY <2>3 DEF TextUnpacks, text, cut, offset
<1>2. CaseKnown => TextUnpacks
  BY <1>1 DEF TextUnpacks
<1> QED
  BY <1>2, CasesKnown, PTL

\* StringsOrdered: for every two strings and every two sort keys.
THEOREM StringsAreOrdered == OperatorsSpec => []StringsOrdered
<1>1. ASSUME CaseKnown PROVE StringsOrdered
  <2> DEFINE a == asked.first
             b == asked.second
             offset == asked.offset
  <2>1. asked.kind = "compare" =>
          /\ a \in Seq(Nat) /\ b \in Seq(Nat) /\ offset \in 0 .. Len(a)
    BY <1>1 DEF CaseKnown, Known
  <2>2. asked.kind = "keys" => a \in SortKeys /\ b \in SortKeys
    BY <1>1 DEF CaseKnown, Known
  <2> HIDE DEF a, b, offset
  <2>3. asked.kind = "compare" =>
          LET n    == Len(a) - offset
              x    == Folded(SubSeq(a, offset + 1, Len(a)))
              y    == Folded(b)
              sign == LpstCompareIgnoringCase(a, offset, n, b, Len(b))
          IN  /\ (sign = 1) <=> BytesBefore(x, y)
              /\ (sign = -1) <=> BytesBefore(y, x)
              /\ sign = Lp128CompareIgnoringCase(a, offset, n, b, Len(b))
              /\ Len(x) = Len(y) => sign = CompareBytes(x, y, Len(x))
    BY <2>1, StringsAlike
  <2>4. asked.kind = "keys" =>
          LET sign == CompareKeys(KeyBytes(a), KeyBytes(b))
              tie  == << <<a.combined, a.flags % 64>>, <<b.combined, b.flags % 64>> >>
          IN  IF a.fields # b.fields
              THEN sign = IF Before(a.fields, b.fields, BytesBefore) THEN -1 ELSE 1
              ELSE sign = IF a.flags \notin 64 .. 127 \cup 192 .. 255 THEN 0
                          ELSE IF BytesBefore(tie[1], tie[2]) THEN -1 ELSE 1
    BY <2>2, KeysInOrder, ZenonT(60)
  <2> QED
    BY <2>3, <2>4 DEF StringsOrdered, a, b, offset
<1> QED
  BY <1>1, CasesKnown, PTL
=============================================================================
