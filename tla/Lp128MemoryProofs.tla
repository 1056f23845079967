------------------------- MODULE Lp128MemoryProofs -------------------------
(***************************************************************************)
(* Proofs about Lp128Memory for every heap, page and piece size: the page  *)
(* cache never shows a stale byte to a disciplined program, and the REU    *)
(* build implements the flat memory of the POSIX build.                    *)
(***************************************************************************)
EXTENDS Lp128Memory, SequenceTheorems, WellFoundedInduction, TLAPS

-----------------------------------------------------------------------------
(* Division: pages and pieces.                                              *)

\* What a quotient is.
LEMMA Quotients ==
  ASSUME NEW a \in Nat, NEW b \in Nat \ {0}
  PROVE  /\ a \div b \in Nat /\ b * (a \div b) \in Nat
         /\ b * (a \div b) <= a /\ a < b * (a \div b) + b
OBVIOUS

\* A number without remainder is its quotient times the divisor.
LEMMA Divides ==
  ASSUME NEW a \in Nat, NEW b \in Nat \ {0}, a % b = 0
  PROVE  a = b * (a \div b)
OBVIOUS

\* Multiples of a number are that number apart.
LEMMA MultiplesApart ==
  ASSUME NEW a \in Nat, NEW b \in Nat, NEW c \in Nat, a < b
  PROVE  c * a \in Nat /\ c * b \in Nat /\ c * a + c <= c * b
OBVIOUS

\* Among natural numbers there is always a least.
LEMMA LeastNat ==
  ASSUME NEW T \in SUBSET Nat, T # {}
  PROVE  \E x \in T : \A y \in T : x <= y
<1>1. PICK x \in T : \A y \in T : ~ (<<y, x>> \in OpToRel(<, Nat))
  BY NatLessThanWellFounded, WFMin
<1>2. \A y \in T : ~ (y < x)
  BY <1>1 DEF OpToRel
<1> QED
  BY <1>2

\* The size of the heap is a positive even number, and what a short number
\* counts from inside it is still in the REU.
LEMMA Sizes ==
  /\ HeapBytes \in Nat \ {0} /\ SegmentBytes \in Nat \ {0}
  /\ SegmentBytes \div 2 \in Nat /\ SegmentBytes = 2 * (SegmentBytes \div 2)
  /\ ShortMod \in Nat \ {0} /\ XferMax \in Nat
  /\ ReuBytes \in Nat /\ HeapBytes + ShortMod <= ReuBytes
BY AddressAssumption, WidthAssumption, ReuAssumption DEF HeapBytes, XferMax

-----------------------------------------------------------------------------
(* A copy in pieces is memmove.                                             *)

\* Memory `mem` with the bytes a .. b - 1 of a copy moved.
Part(mem, dst, src, a, b) ==
  [x \in DOMAIN mem |->
     IF x - dst \in a .. b - 1 THEN mem[src + (x - dst)] ELSE mem[x]]

\* The bytes that k pieces have moved.
Done(n, k) == IF k * ScratchBytes > n THEN n ELSE k * ScratchBytes

\* Memory after k pieces: the first or the last bytes are moved.
After(mem, dst, src, n, k) ==
  IF Forwards(dst, src, n) THEN Part(mem, dst, src, 0, Done(n, k))
                           ELSE Part(mem, dst, src, n - Done(n, k), n)

Reu == [0 .. ReuBytes - 1 -> Byte]

\* Piece k moves between 1 and ScratchBytes bytes, next to the ones before it.
LEMMA PieceSizes ==
  ASSUME NEW n \in Nat, NEW k \in 1 .. Pieces(n)
  PROVE  /\ Pieces(n) \in Nat
         /\ Done(n, k - 1) = (k - 1) * ScratchBytes /\ Done(n, k - 1) \in 0 .. n
         /\ Done(n, k) \in 0 .. n
         /\ PieceBytes(n, Done(n, k - 1)) = Done(n, k) - Done(n, k - 1)
         /\ PieceBytes(n, Done(n, k - 1)) \in Nat
<1> DEFINE q == (n + ScratchBytes - 1) \div ScratchBytes
<1>1. ScratchBytes \in Nat \ {0}
  BY MemoryAssumption
<1>2. n + ScratchBytes - 1 \in Nat
  BY <1>1
<1>3. q \in Nat /\ ScratchBytes * q <= n + ScratchBytes - 1
  BY <1>1, <1>2, Quotients
<1>4. k \in 1 .. q
  BY DEF Pieces
<1> HIDE DEF q
<1>5. \A m \in Nat : m < q =>
        ScratchBytes * m \in Nat /\ ScratchBytes * m + ScratchBytes <= ScratchBytes * q
  BY <1>1, <1>3, MultiplesApart
<1>6. k - 1 \in Nat /\ k - 1 < q
  BY <1>3, <1>4
<1>7. ScratchBytes * (k - 1) \in Nat /\ ScratchBytes * (k - 1) <= n - 1
  BY <1>1, <1>3, <1>5, <1>6
<1>8. k * ScratchBytes = (k - 1) * ScratchBytes + ScratchBytes
  BY <1>1, <1>4, <1>3
<1>9. (k - 1) * ScratchBytes = ScratchBytes * (k - 1)
  BY <1>1, <1>6
<1>10. Pieces(n) \in Nat
  BY <1>3 DEF Pieces, q
<1> QED
  BY <1>1, <1>7, <1>8, <1>9, <1>10 DEF Done, PieceBytes

\* All pieces together move all bytes.
LEMMA AllDone ==
  ASSUME NEW n \in Nat
  PROVE  Pieces(n) \in Nat /\ Done(n, Pieces(n)) = n /\ Done(n, 0) = 0
<1>1. ScratchBytes \in Nat \ {0}
  BY MemoryAssumption
<1>2. n + ScratchBytes - 1 \in Nat
  BY <1>1
<1>3. /\ Pieces(n) \in Nat /\ ScratchBytes * Pieces(n) \in Nat
      /\ n + ScratchBytes - 1 < ScratchBytes * Pieces(n) + ScratchBytes
  BY <1>1, <1>2, Quotients DEF Pieces
<1>4. ScratchBytes * Pieces(n) >= n
  BY <1>1, <1>3
<1>5. Pieces(n) * ScratchBytes = ScratchBytes * Pieces(n)
  BY <1>1, <1>3
<1> QED
  BY <1>1, <1>3, <1>4, <1>5 DEF Done

\* A copy of nothing has no pieces.
LEMMA PieceCount == Pieces(0) = 0
<1>1. ScratchBytes \in Nat \ {0} /\ 0 + ScratchBytes - 1 \in Nat
  BY MemoryAssumption
<1> DEFINE q == (0 + ScratchBytes - 1) \div ScratchBytes
<1>2. q \in Nat /\ ScratchBytes * q <= ScratchBytes - 1
  BY <1>1, Quotients
<1> HIDE DEF q
<1>3. ~ (0 < q)
  <2>1. 0 < q => ScratchBytes * 0 + ScratchBytes <= ScratchBytes * q
    BY <1>1, <1>2, MultiplesApart
  <2> QED
    BY <1>1, <1>2, <2>1
<1>4. Pieces(0) = q
  BY DEF Pieces, q
<1> QED
  BY <1>2, <1>3, <1>4

\* One piece of a copy extends the part that is moved: the bytes it reads are
\* still the ones that the copy began with.
LEMMA PieceMoves ==
  ASSUME NEW mem \in Reu, NEW dst \in Nat, NEW src \in Nat, NEW n \in Nat,
         dst + n <= ReuBytes, src + n <= ReuBytes, NEW k \in 1 .. Pieces(n)
  PROVE  PieceOf(After(mem, dst, src, n, k - 1), dst, src, n, k)
           = After(mem, dst, src, n, k)
<1> DEFINE d == Done(n, k - 1)
           e == Done(n, k)
           old == After(mem, dst, src, n, k - 1)
           size == PieceBytes(n, d)
           from == IF Forwards(dst, src, n) THEN d ELSE n - d - size
<1>1. /\ d = (k - 1) * ScratchBytes /\ d \in 0 .. n /\ e \in 0 .. n
      /\ size = e - d /\ size \in Nat
  BY PieceSizes
<1>2. PieceOf(old, dst, src, n, k)
        = Stored(old, dst + from, [i \in 1 .. size |-> old[src + from + i - 1]])
  BY <1>1 DEF PieceOf, Piece
<1> HIDE DEF old, size, d, e
<1>h. ReuBytes \in Nat
  BY Sizes
<1>3. CASE Forwards(dst, src, n)
  <2>1. old = Part(mem, dst, src, 0, d) /\ After(mem, dst, src, n, k) = Part(mem, dst, src, 0, e)
    BY <1>3 DEF After, old, d, e
  <2>2. DOMAIN old = 0 .. ReuBytes - 1 /\ DOMAIN mem = 0 .. ReuBytes - 1
    BY <2>1 DEF Part, Reu
  <2>3. PieceOf(old, dst, src, n, k) =
          [x \in 0 .. ReuBytes - 1 |->
             IF x - (dst + d) + 1 \in 1 .. size THEN old[src + d + (x - (dst + d) + 1) - 1] ELSE old[x]]
    BY <1>2, <1>3, <2>2 DEF Stored
  <2>4. ASSUME NEW x \in 0 .. ReuBytes - 1
        PROVE  (IF x - (dst + d) + 1 \in 1 .. size THEN old[src + d + (x - (dst + d) + 1) - 1] ELSE old[x])
                 = IF x - dst \in 0 .. e - 1 THEN mem[src + (x - dst)] ELSE mem[x]
    <3>1. \A y \in 0 .. ReuBytes - 1 :
            old[y] = IF y - dst \in 0 .. d - 1 THEN mem[src + (y - dst)] ELSE mem[y]
      BY <2>1, <2>2 DEF Part
    <3>2. CASE x - (dst + d) + 1 \in 1 .. size
      <4>1. x - dst \in d .. e - 1
        BY <1>1, <3>2
      <4>2. src + (x - dst) \in 0 .. ReuBytes - 1
        BY <4>1, <1>1, <1>h
      <4>3. src + (x - dst) - dst \notin 0 .. d - 1
        BY <4>1, <1>1, <1>3 DEF Forwards
      <4>4. old[src + (x - dst)] = mem[src + (x - dst)]
        BY <4>2, <4>3, <3>1
      <4>5. src + d + (x - (dst + d) + 1) - 1 = src + (x - dst)
        BY <1>1
      <4>6. x - dst \in 0 .. e - 1
        BY <4>1, <1>1
      <4> QED
        BY <3>2, <4>4, <4>5, <4>6
    <3>3. CASE x - (dst + d) + 1 \notin 1 .. size
      <4>1. x - dst \in 0 .. e - 1 <=> x - dst \in 0 .. d - 1
        BY <1>1, <3>3
      <4> QED
        BY <3>1, <3>3, <4>1
    <3> QED
      BY <3>2, <3>3
  <2> QED
    BY <2>1, <2>2, <2>3, <2>4 DEF Part, old
<1>4. CASE ~ Forwards(dst, src, n)
  <2>1. old = Part(mem, dst, src, n - d, n) /\ After(mem, dst, src, n, k) = Part(mem, dst, src, n - e, n)
    BY <1>4 DEF After, old, d, e
  <2>2. DOMAIN old = 0 .. ReuBytes - 1 /\ DOMAIN mem = 0 .. ReuBytes - 1
    BY <2>1 DEF Part, Reu
  <2>3. from = n - e
    BY <1>1, <1>4 DEF from
  <2>4. PieceOf(old, dst, src, n, k) =
          [x \in 0 .. ReuBytes - 1 |->
             IF x - (dst + (n - e)) + 1 \in 1 .. size
               THEN old[src + (n - e) + (x - (dst + (n - e)) + 1) - 1] ELSE old[x]]
    BY <1>2, <2>2, <2>3 DEF Stored
  <2>5. ASSUME NEW x \in 0 .. ReuBytes - 1
        PROVE  (IF x - (dst + (n - e)) + 1 \in 1 .. size
                  THEN old[src + (n - e) + (x - (dst + (n - e)) + 1) - 1] ELSE old[x])
                 = IF x - dst \in n - e .. n - 1 THEN mem[src + (x - dst)] ELSE mem[x]
    <3>1. \A y \in 0 .. ReuBytes - 1 :
            old[y] = IF y - dst \in n - d .. n - 1 THEN mem[src + (y - dst)] ELSE mem[y]
      BY <2>1, <2>2 DEF Part
    <3>2. CASE x - (dst + (n - e)) + 1 \in 1 .. size
      <4>1. x - dst \in n - e .. n - d - 1
        BY <1>1, <3>2
      <4>2. src + (x - dst) \in 0 .. ReuBytes - 1
        BY <4>1, <1>1, <1>h
      <4>3. src + (x - dst) - dst \notin n - d .. n - 1
        BY <4>1, <1>1, <1>4 DEF Forwards
      <4>4. old[src + (x - dst)] = mem[src + (x - dst)]
        BY <4>2, <4>3, <3>1
      <4>5. src + (n - e) + (x - (dst + (n - e)) + 1) - 1 = src + (x - dst)
        BY <1>1
      <4>6. x - dst \in n - e .. n - 1
        BY <4>1, <1>1
      <4> QED
        BY <3>2, <4>4, <4>5, <4>6
    <3>3. CASE x - (dst + (n - e)) + 1 \notin 1 .. size
      <4>1. x - dst \in n - e .. n - 1 <=> x - dst \in n - d .. n - 1
        BY <1>1, <3>3
      <4> QED
        BY <3>1, <3>3, <4>1
    <3> QED
      BY <3>2, <3>3
  <2> QED
    BY <2>1, <2>2, <2>4, <2>5 DEF Part, old
<1> QED
  BY <1>3, <1>4

\* reu_copy is memmove: whatever the pieces and the overlap, the target ends
\* with the bytes that the source began with.
LEMMA CopiedIsMove ==
  ASSUME NEW mem \in Reu, NEW dst \in Nat, NEW src \in Nat, NEW n \in Nat,
         dst + n <= ReuBytes, n > 0 => src + n <= ReuBytes
  PROVE  Copied(mem, dst, src, n) = Stored(mem, dst, [i \in 1 .. n |-> mem[src + i - 1]])
<1> DEFINE step(f) == [k \in 0 .. Pieces(n) |->
                         IF k = 0 THEN mem ELSE PieceOf(f[k - 1], dst, src, n, k)]
           chain == [k \in 0 .. Pieces(n) |-> After(mem, dst, src, n, k)]
<1>1. Pieces(n) \in Nat /\ Done(n, Pieces(n)) = n /\ Done(n, 0) = 0
  BY AllDone
<1>2. After(mem, dst, src, n, 0) = mem
  <2>1. \A x \in 0 .. ReuBytes - 1 : x - dst \notin 0 .. 0 - 1 /\ x - dst \notin n - 0 .. n - 1
    OBVIOUS
  <2>2. Part(mem, dst, src, 0, 0) = [x \in DOMAIN mem |-> mem[x]]
    BY <2>1 DEF Part, Reu
  <2>3. Part(mem, dst, src, n - 0, n) = [x \in DOMAIN mem |-> mem[x]]
    BY <2>1 DEF Part, Reu
  <2>4. mem = [x \in DOMAIN mem |-> mem[x]]
    BY DEF Reu
  <2> QED
    BY <1>1, <2>2, <2>3, <2>4 DEF After
<1>3. \A k \in 1 .. Pieces(n) :
        PieceOf(After(mem, dst, src, n, k - 1), dst, src, n, k) = After(mem, dst, src, n, k)
  <2>1. CASE n > 0
    BY <2>1, PieceMoves
  <2>2. CASE n = 0
    <3>1. 1 .. Pieces(0) = {}
      BY PieceCount
    <3> QED
      BY <2>2, <3>1
  <2> QED
    BY <2>1, <2>2
<1>4. chain = step(chain)
  <2>1. ASSUME NEW k \in 0 .. Pieces(n)
        PROVE  chain[k] = IF k = 0 THEN mem ELSE PieceOf(chain[k - 1], dst, src, n, k)
    <3>1. CASE k = 0
      BY <1>1, <1>2, <3>1
    <3>2. CASE k # 0
      <4>1. k - 1 \in 0 .. Pieces(n) /\ k \in 1 .. Pieces(n)
        BY <1>1, <3>2
      <4> QED
        BY <1>3, <3>2, <4>1
    <3> QED
      BY <3>1, <3>2
  <2> QED
    BY <2>1
<1>5. ASSUME NEW f, f = step(f)
      PROVE  f[Pieces(n)] = After(mem, dst, src, n, Pieces(n))
  <2> DEFINE Wrong == {k \in 0 .. Pieces(n) : f[k] # After(mem, dst, src, n, k)}
  <2>0. \A k \in 0 .. Pieces(n) :
          f[k] = IF k = 0 THEN mem ELSE PieceOf(f[k - 1], dst, src, n, k)
    BY <1>5
  <2>1. ASSUME Wrong # {} PROVE FALSE
    <3>1. Wrong \in SUBSET Nat
      BY <1>1
    <3>2. PICK k \in Wrong : \A j \in Wrong : k <= j
      BY <2>1, <3>1, LeastNat
    <3>3. k # 0
      BY <1>1, <1>2, <2>0, <3>2
    <3>4. k \in 1 .. Pieces(n) /\ k - 1 \in 0 .. Pieces(n) /\ ~ (k <= k - 1)
      BY <1>1, <3>2, <3>3
    <3>5. f[k - 1] = After(mem, dst, src, n, k - 1)
      BY <3>2, <3>4
    <3>6. f[k] = PieceOf(f[k - 1], dst, src, n, k)
      BY <2>0, <3>3, <3>4
    <3>7. f[k] = After(mem, dst, src, n, k)
      BY <1>3, <3>4, <3>5, <3>6
    <3> QED
      BY <3>2, <3>7
  <2> QED
    BY <1>1, <2>1
<1>6. Copied(mem, dst, src, n) = (CHOOSE f : f = step(f))[Pieces(n)]
  BY DEF Copied
<1> HIDE DEF step, chain
<1>7. (CHOOSE f : f = step(f)) = step(CHOOSE f : f = step(f))
  BY <1>4
<1>8. Copied(mem, dst, src, n) = After(mem, dst, src, n, Pieces(n))
  BY <1>5, <1>6, <1>7
<1>9. After(mem, dst, src, n, Pieces(n)) = Part(mem, dst, src, 0, n)
  BY <1>1 DEF After
<1>10. Part(mem, dst, src, 0, n) = Stored(mem, dst, [i \in 1 .. n |-> mem[src + i - 1]])
  <2>1. ASSUME NEW x \in DOMAIN mem
        PROVE  (IF x - dst \in 0 .. n - 1 THEN mem[src + (x - dst)] ELSE mem[x])
                 = IF x - dst + 1 \in 1 .. n THEN mem[src + (x - dst + 1) - 1] ELSE mem[x]
    <3>1. x \in Int
      BY Sizes DEF Reu
    <3>2. x - dst \in 0 .. n - 1 <=> x - dst + 1 \in 1 .. n
      BY <3>1
    <3>3. src + (x - dst) = src + (x - dst + 1) - 1
      BY <3>1
    <3> QED
      BY <3>2, <3>3
  <2>2. Stored(mem, dst, [i \in 1 .. n |-> mem[src + i - 1]])
          = [x \in DOMAIN mem |-> IF x - dst + 1 \in 1 .. n THEN mem[src + (x - dst + 1) - 1] ELSE mem[x]]
    BY DEF Stored
  <2> QED
    BY <2>1, <2>2 DEF Part
<1> QED
  BY <1>8, <1>9, <1>10

-----------------------------------------------------------------------------
(* The invariant: a page in the cache lies in the heap and is true to it,   *)
(* and behind the heap stands the image.                                    *)

\* What TypeOK says of a page.
PageType == [valid : BOOLEAN, base : 0 .. HeapBytes - 1,
             bytes : [0 .. PageBytes - 1 -> Byte]]

\* Page p lies in the heap, and if it is valid holds the bytes of `mem` there.
TruePage(p, mem) ==
  /\ p \in PageType
  /\ p.base + PageBytes <= HeapBytes
  /\ p.valid => \A i \in 0 .. PageBytes - 1 : p.bytes[i] = mem[p.base + i]

\* Nothing behind the heap has changed since the image was loaded.
Behind(mem) == \A x \in HeapBytes .. ReuBytes - 1 : mem[x] = Loaded[x]

IInv == TypeOK /\ TruePage(page, reu) /\ Behind(reu)

\* `new` is `old` but for n bytes of the heap at `at`.
OnlyHeap(old, new, at, n) ==
  \A x \in 0 .. ReuBytes - 1 : x \notin at .. at + n - 1 \/ x >= HeapBytes => new[x] = old[x]

\* The page of a byte of the heap lies in the heap.
LEMMA PageInside ==
  ASSUME NEW x \in 0 .. HeapBytes - 1
  PROVE  /\ PageOf(x) \in 0 .. HeapBytes - 1
         /\ PageOf(x) + PageBytes <= HeapBytes
         /\ x - PageOf(x) \in 0 .. PageBytes - 1
<1>1. PageBytes \in Nat \ {0} /\ HeapBytes \in Nat /\ HeapBytes % PageBytes = 0
  BY MemoryAssumption, Sizes
<1>2. PICK a \in Nat : a = x \div PageBytes
  BY <1>1, Quotients
<1>3. PICK b \in Nat : b = HeapBytes \div PageBytes
  BY <1>1, Quotients
<1>4. PageBytes * a <= x /\ x < PageBytes * a + PageBytes /\ PageBytes * a \in Nat
  BY <1>1, <1>2, Quotients
<1>5. HeapBytes = PageBytes * b
  BY <1>1, <1>3, Divides
<1>6. CASE a < b
  <2>1. PageBytes * a + PageBytes <= PageBytes * b
    BY <1>1, <1>6, MultiplesApart
  <2> QED
    BY <1>1, <1>2, <1>4, <1>5, <2>1 DEF PageOf
<1>7. CASE b < a
  <2>1. PageBytes * b + PageBytes <= PageBytes * a
    BY <1>1, <1>7, MultiplesApart
  <2> QED
    BY <1>1, <1>4, <1>5, <2>1
<1>8. CASE a = b
  BY <1>1, <1>4, <1>5, <1>8
<1> QED
  BY <1>6, <1>7, <1>8

\* What page p has for byte x of the heap.
Shown(p, x) == p.bytes[x - p.base]

\* After read_heap_byte_cached the cache holds the page of the byte, true.
LEMMA FetchedTrue ==
  ASSUME NEW p, NEW x \in 0 .. HeapBytes - 1, reu \in Reu, TruePage(p, reu)
  PROVE  /\ TruePage(Fetched(p, x), reu)
         /\ Shown(Fetched(p, x), x) = reu[x]
<1>1. PageBytes \in Nat \ {0} /\ HeapBytes \in Nat
  BY MemoryAssumption, Sizes
<1>2. /\ PageOf(x) \in 0 .. HeapBytes - 1
      /\ PageOf(x) + PageBytes <= HeapBytes
      /\ x - PageOf(x) \in 0 .. PageBytes - 1
  BY PageInside
<1>3. CASE p.valid /\ p.base = PageOf(x)
  <2>1. p.bytes[x - PageOf(x)] = reu[PageOf(x) + (x - PageOf(x))]
    BY <1>2, <1>3 DEF TruePage
  <2>2. PageOf(x) + (x - PageOf(x)) = x
    BY <1>2
  <2>3. Fetched(p, x) = p
    BY <1>3 DEF Fetched
  <2> QED
    BY <1>3, <2>1, <2>2, <2>3 DEF Shown
<1>4. CASE ~ (p.valid /\ p.base = PageOf(x))
  <2> DEFINE q == [valid |-> TRUE, base |-> PageOf(x),
                   bytes |-> [i \in 0 .. PageBytes - 1 |-> reu[PageOf(x) + i]]]
  <2>1. Fetched(p, x) = q
    BY <1>4 DEF Fetched
  <2>2. \A i \in 0 .. PageBytes - 1 : reu[PageOf(x) + i] \in Byte
    BY <1>1, <1>2, Sizes DEF Reu
  <2>3. q \in PageType
    BY <1>2, <2>2 DEF PageType
  <2>4. PageOf(x) + (x - PageOf(x)) = x
    BY <1>2
  <2>5. q.bytes[x - q.base] = reu[x]
    BY <1>2, <2>4
  <2> QED
    BY <1>2, <2>1, <2>3, <2>5 DEF TruePage, Shown
<1> QED
  BY <1>3, <1>4

\* A write that changes the heap only where the cache is told so leaves the
\* cache true.
LEMMA InvalidatedTrue ==
  ASSUME NEW p, NEW old, NEW new, NEW at \in Nat, NEW n \in Nat, TruePage(p, old),
         \A x \in 0 .. HeapBytes - 1 : x \notin at .. at + n - 1 => new[x] = old[x]
  PROVE  TruePage(Invalidated(p, at, n), new)
<1>1. PageBytes \in Nat \ {0} /\ HeapBytes \in Nat
  BY MemoryAssumption, Sizes
<1>2. CASE Overlaps(p, at, n)
  <2>1. Invalidated(p, at, n) = [p EXCEPT !.valid = FALSE]
    BY <1>2 DEF Invalidated
  <2>2. /\ [p EXCEPT !.valid = FALSE] \in PageType
        /\ ~ [p EXCEPT !.valid = FALSE].valid
        /\ [p EXCEPT !.valid = FALSE].base = p.base
    BY DEF TruePage, PageType
  <2> QED
    BY <2>1, <2>2 DEF TruePage
<1>3. CASE ~ Overlaps(p, at, n)
  <2>1. Invalidated(p, at, n) = p
    BY <1>3 DEF Invalidated
  <2>2. ASSUME p.valid, NEW i \in 0 .. PageBytes - 1
        PROVE  p.bytes[i] = new[p.base + i]
    <3>1. p.base \in 0 .. HeapBytes - 1 /\ p.base + i \in 0 .. HeapBytes - 1
      BY <1>1 DEF TruePage, PageType
    <3>2. p.base + i \notin at .. at + n - 1
      BY <1>1, <1>3, <2>2, <3>1 DEF Overlaps
    <3> QED
      BY <2>2, <3>1, <3>2 DEF TruePage
  <2> QED
    BY <2>1, <2>2 DEF TruePage
<1> QED
  BY <1>2, <1>3

-----------------------------------------------------------------------------
(* Each request keeps the invariant, and answers what the flat memory does. *)

\* The two builds share the functions on addresses.
LEMMA SharedCode ==
  /\ Plain!HeapBytes = HeapBytes
  /\ \A mem, at, bytes : Plain!Stored(mem, at, bytes) = Stored(mem, at, bytes)
  /\ \A mem, at, n, cell : Plain!Filled(mem, at, n, cell) = Filled(mem, at, n, cell)
  /\ \A bytes, n : Plain!Padded(bytes, n) = Padded(bytes, n)
  /\ \A start, n : Plain!ImageBytes(start, n) = ImageBytes(start, n)
  /\ \A record, raw, int : Plain!RecordStart(record, raw, int) = RecordStart(record, raw, int)
  /\ \A words, raw, int : /\ Plain!ByteCount(words, raw, int) = ByteCount(words, raw, int)
                           /\ Plain!Asked(words, raw, int) = Asked(words, raw, int)
  /\ \A start, count : Plain!Transferred(start, count) = Transferred(start, count)
<1>1. Plain!HeapBytes = HeapBytes
  BY DEF Plain!HeapBytes, HeapBytes
<1>2. \A bytes, start, n : Plain!Slice(bytes, start, n) = Slice(bytes, start, n)
  BY DEF Plain!Slice, Slice
<1>3. \A start, n : Plain!ImageBytes(start, n) = ImageBytes(start, n)
  BY <1>2 DEF Plain!ImageBytes, ImageBytes
<1>4. \A mem, at, n, cell : Plain!Filled(mem, at, n, cell) = Filled(mem, at, n, cell)
  BY <1>1 DEF Plain!Filled, Filled
<1>5. \A mem, at, bytes : Plain!Stored(mem, at, bytes) = Stored(mem, at, bytes)
  BY DEF Plain!Stored, Stored
<1>6. \A bytes, n : Plain!Padded(bytes, n) = Padded(bytes, n)
  BY DEF Plain!Padded, Padded
<1>7. \A x, mod : Plain!Signed(x, mod) = Signed(x, mod)
  BY DEF Plain!Signed, Signed
<1>8. \A raw, int : Plain!RecordSize(raw, int) = RecordSize(raw, int)
  BY <1>7 DEF Plain!RecordSize, RecordSize
<1>9. \A record, raw, int : Plain!RecordStart(record, raw, int) = RecordStart(record, raw, int)
  BY <1>8 DEF Plain!RecordStart, RecordStart
<1>10. \A words, raw, int : Plain!ByteCount(words, raw, int) = ByteCount(words, raw, int)
  BY <1>7, <1>8 DEF Plain!ByteCount, ByteCount
<1>11. \A words, raw, int : Plain!Asked(words, raw, int) = Asked(words, raw, int)
  BY <1>10 DEF Plain!Asked, Asked
<1>12. \A start, count : Plain!Transferred(start, count) = Transferred(start, count)
  BY DEF Plain!Transferred, Transferred, Plain!Available, Available
<1> QED
  BY <1>1, <1>3, <1>4, <1>5, <1>6, <1>9, <1>10, <1>11, <1>12

\* The heap of a REU that a write changes is the heap with that write.
LEMMA HeapOfWrites ==
  ASSUME NEW mem \in Reu
  PROVE  /\ Heap(mem) \in [0 .. HeapBytes - 1 -> Byte]
         /\ \A at, bytes : Heap(Stored(mem, at, bytes)) = Stored(Heap(mem), at, bytes)
         /\ \A at, n, cell : Heap(Filled(mem, at, n, cell)) = Filled(Heap(mem), at, n, cell)
<1>1. /\ DOMAIN mem = 0 .. ReuBytes - 1 /\ DOMAIN Heap(mem) = 0 .. HeapBytes - 1
      /\ \A x \in 0 .. HeapBytes - 1 : x \in 0 .. ReuBytes - 1 /\ Heap(mem)[x] = mem[x]
      /\ \A x \in 0 .. ReuBytes - 1 : mem[x] \in Byte
  BY Sizes DEF Reu, Heap
<1>2. Heap(mem) \in [0 .. HeapBytes - 1 -> Byte]
  BY <1>1 DEF Heap
<1>3. ASSUME NEW at, NEW bytes
      PROVE  Heap(Stored(mem, at, bytes)) = Stored(Heap(mem), at, bytes)
  BY <1>1 DEF Stored, Heap
<1>4. ASSUME NEW at, NEW n, NEW cell
      PROVE  Heap(Filled(mem, at, n, cell)) = Filled(Heap(mem), at, n, cell)
  BY <1>1 DEF Filled, Heap
<1> QED
  BY <1>2, <1>3, <1>4

\* A write of bytes leaves bytes, and changes the place it is told to.
LEMMA StoredType ==
  ASSUME NEW mem \in Reu, NEW at \in Nat, NEW n \in Nat, NEW bytes \in [1 .. n -> Byte],
         at + n <= HeapBytes
  PROVE  Stored(mem, at, bytes) \in Reu /\ OnlyHeap(mem, Stored(mem, at, bytes), at, n)
<1>1. DOMAIN mem = 0 .. ReuBytes - 1 /\ DOMAIN bytes = 1 .. n
  BY DEF Reu
<1>2. ASSUME NEW x \in 0 .. ReuBytes - 1
      PROVE  /\ x - at + 1 \in 1 .. n <=> x \in at .. at + n - 1
             /\ x \in at .. at + n - 1 => x < HeapBytes
  BY Sizes
<1>3. Stored(mem, at, bytes) \in Reu
  BY <1>1 DEF Stored, Reu
<1>4. OnlyHeap(mem, Stored(mem, at, bytes), at, n)
  BY <1>1, <1>2, Sizes DEF Stored, OnlyHeap
<1> QED
  BY <1>3, <1>4

\* Filled changes the cells it is told to and nothing else.
LEMMA FilledType ==
  ASSUME NEW mem \in Reu, NEW at \in Nat, NEW n \in Nat, NEW cell \in Seq(Byte),
         Len(cell) \in {1, 2}
  PROVE  /\ Filled(mem, at, n, cell) \in Reu
         /\ OnlyHeap(mem, Filled(mem, at, n, cell), at, n * Len(cell))
<1> DEFINE touched(x) == /\ x >= at
                         /\ (x - at) \div Len(cell) < n
                         /\ at + ((x - at) \div Len(cell) + 1) * Len(cell) <= HeapBytes
<1>1. Filled(mem, at, n, cell) = [x \in 0 .. ReuBytes - 1 |->
        IF touched(x) THEN cell[((x - at) % Len(cell)) + 1] ELSE mem[x]]
  BY DEF Filled, Reu
<1>2. ASSUME NEW x \in 0 .. ReuBytes - 1, touched(x)
      PROVE  x \in at .. at + n * Len(cell) - 1 /\ x < HeapBytes
  <2>1. CASE Len(cell) = 1
    BY <1>2, <2>1, Sizes
  <2>2. CASE Len(cell) = 2
    BY <1>2, <2>2, Sizes
  <2> QED
    BY <2>1, <2>2
<1>3. ASSUME NEW x \in 0 .. ReuBytes - 1, x >= at
      PROVE  cell[((x - at) % Len(cell)) + 1] \in Byte
  <2>1. x - at \in Nat
    BY <1>3, Sizes
  <2>2. \A m \in Nat : m % 1 = 0 /\ m % 2 \in 0 .. 1
    OBVIOUS
  <2>3. ((x - at) % Len(cell)) + 1 \in 1 .. Len(cell)
    <3>1. CASE Len(cell) = 1
      BY <2>1, <2>2, <3>1
    <3>2. CASE Len(cell) = 2
      BY <2>1, <2>2, <3>2
    <3> QED
      BY <3>1, <3>2
  <2> QED
    BY <2>3
<1>4. Filled(mem, at, n, cell) \in Reu
  BY <1>1, <1>3 DEF Reu
<1>5. OnlyHeap(mem, Filled(mem, at, n, cell), at, n * Len(cell))
  <2> HIDE DEF touched
  <2>1. ASSUME NEW x \in 0 .. ReuBytes - 1,
               x \notin at .. at + n * Len(cell) - 1 \/ x >= HeapBytes
        PROVE  Filled(mem, at, n, cell)[x] = mem[x]
    <3>1. ~ touched(x)
      BY <1>2, <2>1, Sizes
    <3> QED
      BY <1>1, <3>1
  <2> QED
    BY <2>1 DEF OnlyHeap
<1> QED
  BY <1>4, <1>5

\* A step that writes n bytes of the heap and tells the cache keeps the
\* invariant.
LEMMA WriteKeeps ==
  ASSUME IInv, NEW at \in Nat, NEW n \in Nat, reu' \in Reu, OnlyHeap(reu, reu', at, n),
         page' = Invalidated(page, at, n), out' \in Seq(Byte \cup Nat), halted' = halted
  PROVE  IInv'
<1>1. TruePage(page, reu) /\ halted \in BOOLEAN /\ Behind(reu)
  BY DEF IInv, TypeOK
<1>2. \A x \in 0 .. HeapBytes - 1 : x \notin at .. at + n - 1 => reu'[x] = reu[x]
  BY Sizes DEF OnlyHeap
<1>3. TruePage(Invalidated(page, at, n), reu')
  BY <1>1, <1>2, InvalidatedTrue
<1>4. TruePage(page', reu')
  BY <1>3
<1>5. Behind(reu')
  BY <1>1, Sizes DEF OnlyHeap, Behind
<1> QED
  BY <1>1, <1>4, <1>5 DEF IInv, TypeOK, TruePage, PageType, Reu, Behind

\* So does one that writes nothing.
LEMMA NothingWritten ==
  ASSUME IInv, reu' = reu, TruePage(page', reu), out' \in Seq(Byte \cup Nat),
         halted' \in BOOLEAN
  PROVE  IInv'
BY DEF IInv, TypeOK, TruePage, PageType, Behind

\* vm_read_byte and vm_read_word.
LEMMA ReadStep ==
  ASSUME IInv, NEW at \in Nat, NEW n \in {1, 2}, Read(at, n)
  PROVE  IInv' /\ Plain!Read(at, n)
<1>0. /\ reu \in Reu /\ TruePage(page, reu) /\ halted \in BOOLEAN
      /\ reu' = reu /\ halted' = halted
      /\ HeapBytes \in Nat /\ Zero \in Byte /\ Heap(reu)' = Heap(reu)
  BY Sizes, AddressAssumption DEF IInv, TypeOK, Reu, Read, Heap
<1>1. CASE at + n > HeapBytes
  <2>1. page' = page /\ out' = [i \in 1 .. n |-> Zero]
    BY <1>1 DEF Read, Outside
  <2>2. out' \in Seq(Byte \cup Nat)
    BY <1>0, <2>1
  <2>3. IInv'
    BY <1>0, <2>1, <2>2, NothingWritten
  <2>4. ~ (at + n <= HeapBytes)
    BY <1>0, <1>1
  <2> QED
    BY <1>0, <2>1, <2>3, <2>4, SharedCode DEF Plain!Read
<1>2. CASE ~ (at + n > HeapBytes)
  <2> DEFINE first == Fetched(page, at)
             last == IF n = 2 THEN Fetched(first, at + 1) ELSE first
  <2>1. at \in 0 .. HeapBytes - 1 /\ (n = 2 => at + 1 \in 0 .. HeapBytes - 1)
    BY <1>0, <1>2
  <2>2. TruePage(first, reu) /\ Shown(first, at) = reu[at]
    BY <1>0, <2>1, FetchedTrue
  <2>3. /\ TruePage(last, reu)
        /\ n = 2 => Shown(last, at + 1) = reu[at + 1]
    <3> HIDE DEF first
    <3>1. CASE n = 2
      <4>1. last = Fetched(first, at + 1) /\ at + 1 \in 0 .. HeapBytes - 1
        BY <2>1, <3>1
      <4>2. /\ TruePage(Fetched(first, at + 1), reu)
            /\ Shown(Fetched(first, at + 1), at + 1) = reu[at + 1]
        BY <1>0, <2>2, <4>1, FetchedTrue
      <4> QED
        BY <4>1, <4>2
    <3>2. CASE n # 2
      BY <2>2, <3>2
    <3> QED
      BY <3>1, <3>2
  <2>4. page' = last
    BY <1>2 DEF Read, Outside
  <2>5. out' = [i \in 1 .. n |-> IF i = 1 THEN first.bytes[at - first.base]
                                           ELSE last.bytes[at + 1 - last.base]]
    BY <1>2 DEF Read, Outside
  <2> HIDE DEF first, last
  <2>6. out' = [i \in 1 .. n |-> reu[at + i - 1]]
    <3>1. ASSUME NEW i \in 1 .. n
          PROVE  (IF i = 1 THEN first.bytes[at - first.base] ELSE last.bytes[at + 1 - last.base])
                   = reu[at + i - 1]
      <4>1. CASE i = 1
        BY <2>2, <4>1 DEF Shown
      <4>2. CASE i # 1
        <5>1. n = 2 /\ i = 2 /\ at + i - 1 = at + 1
          BY <4>2
        <5>2. last.bytes[at + 1 - last.base] = reu[at + 1]
          <6>1. last.base \in Int
            BY <2>3 DEF TruePage, PageType
          <6>2. at + 1 - last.base = (at + 1) - last.base
            BY <6>1
          <6> QED
            BY <2>3, <5>1, <6>2 DEF Shown
        <5> QED
          BY <4>2, <5>1, <5>2, Zenon
      <4> QED
        BY <4>1, <4>2
    <3> QED
      BY <2>5, <3>1
  <2>10. \A i \in 1 .. n : /\ at + i - 1 \in 0 .. HeapBytes - 1
                           /\ at + i - 1 \in 0 .. ReuBytes - 1
    BY <1>0, <1>2, Sizes
  <2>7. out' \in Seq(Byte \cup Nat)
    <3>1. \A i \in 1 .. n : reu[at + i - 1] \in Byte \cup Nat
      BY <1>0, <2>10 DEF Reu
    <3> QED
      BY <2>6, <3>1
  <2>11. out' = [i \in 1 .. n |-> Heap(reu)[at + i - 1]]
    BY <2>6, <2>10 DEF Heap
  <2>8. IInv'
    BY <1>0, <2>3, <2>4, <2>7, NothingWritten
  <2>9. at + n <= HeapBytes
    BY <1>0, <1>2
  <2> QED
    BY <1>0, <2>8, <2>9, <2>11, SharedCode DEF Plain!Read
<1> QED
  BY <1>1, <1>2

\* vm_write_byte and vm_write_word.
LEMMA FillStep ==
  ASSUME IInv, NEW at \in Nat, NEW n \in Nat, NEW cell \in Seq(Byte),
         Len(cell) \in {1, 2}, Fill(at, n, cell)
  PROVE  IInv' /\ Plain!Fill(at, n, cell)
<1>1. /\ reu \in Reu
      /\ reu' = Filled(reu, at, n, cell) /\ out' = <<>> /\ halted' = halted
      /\ page' = Invalidated(page, at, n * Len(cell))
  BY DEF IInv, TypeOK, Reu, Fill
<1>2. reu' \in Reu /\ OnlyHeap(reu, reu', at, n * Len(cell))
  BY <1>1, FilledType
<1>3. n * Len(cell) \in Nat /\ <<>> \in Seq(Byte \cup Nat)
  OBVIOUS
<1>4. IInv'
  <2> DEFINE m == n * Len(cell)
  <2>1. m \in Nat /\ page' = Invalidated(page, at, m) /\ OnlyHeap(reu, reu', at, m)
    BY <1>1, <1>2, <1>3
  <2> HIDE DEF m
  <2> QED
    BY <1>1, <1>2, <1>3, <2>1, WriteKeeps
<1>5. Heap(reu)' = Filled(Heap(reu), at, n, cell)
  BY <1>1, HeapOfWrites DEF Heap
<1> QED
  BY <1>1, <1>4, <1>5, SharedCode DEF Plain!Fill

\* vm_zero_bytes, for a block that one transfer can clear.
LEMMA ClearStep ==
  ASSUME IInv, NEW at \in Nat, NEW n \in Nat, n <= XferMax, Clear(at, n)
  PROVE  IInv' /\ Plain!Clear(at, n)
<1>1. /\ reu \in Reu /\ TruePage(page, reu) /\ halted \in BOOLEAN
      /\ out' = <<>> /\ halted' = halted /\ <<>> \in Seq(Byte \cup Nat)
      /\ HeapBytes \in Nat /\ XferMax \in Nat /\ Zero \in Byte
  BY Sizes, AddressAssumption DEF IInv, TypeOK, Reu, Clear
<1>2. CASE at + n > HeapBytes
  <2>1. reu' = reu /\ page' = page /\ ~ (at + n <= HeapBytes)
    BY <1>1, <1>2 DEF Clear, Outside
  <2>2. IInv'
    BY <1>1, <2>1, NothingWritten
  <2>3. Heap(reu)' = Heap(reu)
    BY <2>1 DEF Heap
  <2> QED
    BY <1>1, <2>1, <2>2, <2>3, SharedCode DEF Plain!Clear
<1>3. CASE ~ (at + n > HeapBytes)
  <2> DEFINE zeroes == [i \in 1 .. n |-> Zero]
  <2>1. /\ page' = Invalidated(page, at, n) /\ reu' = Stored(reu, at, zeroes)
        /\ at + n <= HeapBytes /\ zeroes \in [1 .. n -> Byte]
    BY <1>1, <1>3 DEF Clear, Outside
  <2>2. reu' \in Reu /\ OnlyHeap(reu, reu', at, n)
    <3> HIDE DEF zeroes
    <3> QED
      BY <1>1, <2>1, StoredType
  <2>3. IInv'
    BY <1>1, <2>1, <2>2, WriteKeeps
  <2>4. Heap(reu)' = Stored(Heap(reu), at, zeroes)
    <3> HIDE DEF zeroes
    <3> QED
      BY <1>1, <2>1, HeapOfWrites DEF Heap
  <2> QED
    BY <1>1, <2>1, <2>3, <2>4, SharedCode DEF Plain!Clear
<1> QED
  BY <1>2, <1>3

\* Storing what is there, or nothing, changes nothing.
LEMMA IdleMoves ==
  ASSUME NEW mem \in Reu, NEW dst \in Nat, NEW n \in Nat,
         NEW moved, DOMAIN moved = 1 .. n,
         n = 0 \/ \A i \in 1 .. n : moved[i] = mem[dst + i - 1]
  PROVE  Stored(mem, dst, moved) = mem
<1>1. Stored(mem, dst, moved)
        = [x \in 0 .. ReuBytes - 1 |-> IF x - dst + 1 \in 1 .. n THEN moved[x - dst + 1] ELSE mem[x]]
  BY DEF Stored, Reu
<1>2. ASSUME NEW x \in 0 .. ReuBytes - 1, x - dst + 1 \in 1 .. n
      PROVE  moved[x - dst + 1] = mem[x]
  <2>1. n # 0 /\ dst + (x - dst + 1) - 1 = x
    BY <1>2, Sizes
  <2> QED
    BY <1>2, <2>1
<1>3. mem = [x \in 0 .. ReuBytes - 1 |-> mem[x]]
  BY DEF Reu
<1> QED
  BY <1>1, <1>2, <1>3

\* vm_move_bytes, for what one transfer can move.
LEMMA MoveStep ==
  ASSUME IInv, NEW dst \in Nat, NEW src \in Nat, NEW n \in Nat, n <= XferMax,
         Move(dst, src, n)
  PROVE  IInv' /\ Plain!Move(dst, src, n)
<1> DEFINE moved == [i \in 1 .. n |-> reu[src + i - 1]]
           inside == dst + n <= HeapBytes /\ src + n <= HeapBytes
<1>1. /\ reu \in Reu /\ TruePage(page, reu) /\ halted \in BOOLEAN
      /\ out' = <<>> /\ halted' = halted /\ <<>> \in Seq(Byte \cup Nat)
      /\ HeapBytes \in Nat /\ XferMax \in Nat
  BY Sizes DEF IInv, TypeOK, Reu, Move
<1>2. inside => moved = [i \in 1 .. n |-> Heap(reu)[src + i - 1]]
  <2>1. inside => \A i \in 1 .. n : src + i - 1 \in 0 .. HeapBytes - 1
    BY <1>1
  <2> QED
    BY <2>1 DEF Heap
<1>3. CASE n = 0 \/ dst = src \/ dst + n > HeapBytes \/ src + n > HeapBytes
  <2>1. reu' = reu /\ page' = page
    BY <1>3 DEF Move, Outside
  <2>2. IInv'
    BY <1>1, <2>1, NothingWritten
  <2>3. inside => reu' = Stored(reu, dst, moved)
    <3>1. ASSUME inside PROVE Stored(reu, dst, moved) = reu
      <4>1. DOMAIN moved = 1 .. n
        OBVIOUS
      <4>2. n = 0 \/ \A i \in 1 .. n : moved[i] = reu[dst + i - 1]
        BY <1>1, <1>3, <3>1
      <4>3. reu \in Reu
        BY <1>1
      <4> HIDE DEF moved, inside
      <4> QED
        BY <4>1, <4>2, <4>3, IdleMoves
    <3> QED
      BY <2>1, <3>1
  <2>4. ~ inside => reu' = reu
    BY <2>1
  <2> HIDE DEF moved, inside
  <2>5. Heap(reu)' = IF inside THEN Stored(Heap(reu), dst, moved) ELSE Heap(reu)
    BY <1>1, <2>3, <2>4, HeapOfWrites DEF Heap
  <2> USE DEF inside
  <2> QED
    BY <1>1, <1>2, <2>2, <2>5, SharedCode DEF Plain!Move
<1>4. CASE ~ (n = 0 \/ dst = src \/ dst + n > HeapBytes \/ src + n > HeapBytes)
  <2>1. /\ page' = Invalidated(Invalidated(page, dst, n), src, n)
        /\ reu' = Copied(reu, dst, src, n) /\ inside
        /\ dst + n <= ReuBytes /\ src + n <= ReuBytes
    BY <1>1, <1>4, Sizes DEF Move, Outside
  <2>2. reu' = Stored(reu, dst, moved)
    BY <1>1, <2>1, CopiedIsMove
  <2>3. moved \in [1 .. n -> Byte]
    <3>1. \A i \in 1 .. n : src + i - 1 \in 0 .. ReuBytes - 1
      BY <1>1, <2>1, Sizes
    <3> QED
      BY <1>1, <3>1 DEF Reu
  <2>4. dst + n <= HeapBytes
    BY <2>1
  <2> HIDE DEF moved
  <2>5. reu' \in Reu /\ OnlyHeap(reu, reu', dst, n)
    BY <1>1, <2>2, <2>3, <2>4, StoredType
  <2>6. IInv'
    <3>1. \A x \in 0 .. HeapBytes - 1 : x \notin dst .. dst + n - 1 => reu'[x] = reu[x]
      BY <2>5, Sizes DEF OnlyHeap
    <3>2. TruePage(Invalidated(page, dst, n), reu')
      BY <1>1, <3>1, InvalidatedTrue
    <3>3. TruePage(page', reu')
      BY <2>1, <3>2, InvalidatedTrue
    <3>4. Behind(reu')
      BY <2>5, Sizes DEF IInv, OnlyHeap, Behind
    <3> QED
      BY <1>1, <2>5, <3>3, <3>4 DEF IInv, TypeOK, TruePage, PageType, Reu, Behind
  <2>7. Heap(reu)' = Stored(Heap(reu), dst, moved)
    BY <1>1, <2>2, HeapOfWrites DEF Heap
  <2> QED
    BY <1>1, <1>2, <2>1, <2>6, <2>7, SharedCode DEF Plain!Move
<1> QED
  BY <1>3, <1>4

\* A part of a sequence of bytes is one, of the length asked for if it has that.
LEMMA SliceType ==
  ASSUME NEW bytes \in Seq(Byte), NEW start \in Nat, NEW n \in Nat
  PROVE  /\ Slice(bytes, start, n) \in Seq(Byte)
         /\ start + n <= Len(bytes) =>
              /\ Len(Slice(bytes, start, n)) = n
              /\ \A i \in 1 .. n : Slice(bytes, start, n)[i] = bytes[start + i]
<1>1. CASE start >= Len(bytes)
  <2>1. Slice(bytes, start, n) = <<>>
    BY <1>1 DEF Slice
  <2>2. start + n <= Len(bytes) => n = 0
    BY <1>1, LenProperties
  <2> QED
    BY <2>1, <2>2
<1>2. CASE ~ (start >= Len(bytes))
  <2> DEFINE end == IF start + n < Len(bytes) THEN start + n ELSE Len(bytes)
  <2>1. start + 1 \in 1 .. Len(bytes) + 1 /\ end \in start .. Len(bytes)
    BY <1>2, LenProperties
  <2>2. Slice(bytes, start, n) = SubSeq(bytes, start + 1, end)
    BY <1>2 DEF Slice
  <2>3. start + n <= Len(bytes) => end = start + n
    BY LenProperties
  <2> HIDE DEF end
  <2>4. \A i \in start + 1 .. end : bytes[i] \in Byte
    BY <2>1, ElementOfSeq
  <2>5. /\ SubSeq(bytes, start + 1, end) \in Seq(Byte)
        /\ Len(SubSeq(bytes, start + 1, end)) = end - start
        /\ \A i \in 1 .. end - start : SubSeq(bytes, start + 1, end)[i] = bytes[start + i]
    <3>1. /\ SubSeq(bytes, start + 1, end) \in Seq(Byte)
          /\ Len(SubSeq(bytes, start + 1, end)) =
               IF start + 1 <= end THEN end - (start + 1) + 1 ELSE 0
          /\ \A i \in 1 .. end - (start + 1) + 1 :
               SubSeq(bytes, start + 1, end)[i] = bytes[(start + 1) + i - 1]
      BY <2>1, <2>4, SubSeqProperties
    <3>2. end \in Nat
      BY <2>1
    <3> QED
      BY <3>1, <3>2, <2>1
  <2>6. Slice(bytes, start, n) \in Seq(Byte)
    BY <2>2, <2>5
  <2>7. ASSUME start + n <= Len(bytes)
        PROVE  /\ Len(Slice(bytes, start, n)) = n
               /\ \A i \in 1 .. n : Slice(bytes, start, n)[i] = bytes[start + i]
    <3>1. end - start = n
      BY <2>3, <2>7
    <3> QED
      BY <2>2, <2>5, <3>1
  <2> QED
    BY <2>6, <2>7
<1> QED
  BY <1>1, <1>2

\* A padded block has the length it should have.
LEMMA PaddedType ==
  ASSUME NEW bytes \in Seq(Byte), NEW n \in Nat
  PROVE  Padded(bytes, n) \in [1 .. n -> Byte]
BY AddressAssumption DEF Padded

-----------------------------------------------------------------------------
(* Where the two builds agree on a record.                                  *)

\* A number that a signed type holds is not changed by it, and one that only
\* the unsigned type of the width holds comes out lower by its range.
LEMMA SignedValues ==
  ASSUME NEW mod \in Nat \ {0}, mod % 2 = 0, NEW x \in 0 .. mod - 1
  PROVE  Signed(x, mod) = IF x < mod \div 2 THEN x ELSE x - mod
<1> DEFINE half == mod \div 2
<1>1. half \in Nat /\ mod = 2 * half
  OBVIOUS
<1>2. Signed(x, mod) = ((x + half) % mod) - half
  BY DEF Signed
<1> HIDE DEF half
<1>3. CASE x < half
  <2>1. x + half \in 0 .. mod - 1
    BY <1>1, <1>3
  <2>2. (x + half) % mod = x + half
    BY <2>1
  <2> QED
    BY <1>1, <1>2, <1>3, <2>2 DEF half
<1>4. CASE ~ (x < half)
  <2>1. x + half = mod + (x + half - mod) /\ x + half - mod \in 0 .. mod - 1
    BY <1>1, <1>4
  <2>2. (x + half) % mod = x + half - mod
    BY <2>1
  <2> QED
    BY <1>1, <1>2, <1>4, <2>2 DEF half
<1> QED
  BY <1>3, <1>4

\* What the rules for records say of the numbers in READREC: its n bytes are a
\* short number, and both builds compute it and where the record starts.
LEMMA SameSizes ==
  ASSUME NEW words \in Count, NEW record \in Index, NEW raw \in RecordWord,
         raw <= ShortMod \div 2 - 1,
         words * RecordSize(raw, ShortMod) <= XferMax
  PROVE  /\ words * RecordSize(raw, ShortMod) \in 0 .. ShortMod - 1
         /\ RecordSize(raw, LongMod) = RecordSize(raw, ShortMod)
         /\ RecordStart(record, raw, LongMod) = RecordStart(record, raw, ShortMod)
         /\ RecordStart(record, raw, ShortMod) \in Nat
         /\ ByteCount(words, raw, LongMod) % LongMod = words * RecordSize(raw, ShortMod)
         /\ Asked(words, raw, LongMod) = words * RecordSize(raw, ShortMod)
         /\ Asked(words, raw, ShortMod) = words * RecordSize(raw, ShortMod)
         /\ \A count \in Widened(words, raw) :
              \/ count = words * RecordSize(raw, ShortMod)
              \/ /\ words * RecordSize(raw, ShortMod) > ShortMod \div 2 - 1
                 /\ count \in Nat /\ count >= ReuBytes
<1> DEFINE rs == RecordSize(raw, ShortMod)
           n == words * rs
<1>1. /\ ShortMod \in Nat \ {0} /\ LongMod \in Nat \ {0} /\ ReuBytes \in Nat
      /\ ShortMod % 2 = 0 /\ LongMod % ShortMod = 0
      /\ ReuBytes + ShortMod <= LongMod /\ 2 * ShortMod <= LongMod
  BY WidthAssumption, ReuAssumption, Sizes
<1>h. PICK half \in Nat : half = ShortMod \div 2 /\ ShortMod = 2 * half
  <2>1. ShortMod = 2 * (ShortMod \div 2) /\ ShortMod \div 2 \in Nat
    <3>1. 2 \in Nat \ {0} /\ ShortMod \in Nat
      BY <1>1
    <3> QED
      BY <1>1, <3>1, Divides, Quotients
  <2> QED
    BY <2>1
<1>2. LongMod % 2 = 0
  <2>1. LongMod = ShortMod * (LongMod \div ShortMod) /\ LongMod \div ShortMod \in Nat
    BY <1>1, Divides, Quotients
  <2>2. PICK b \in Nat : LongMod = ShortMod * b
    BY <2>1
  <2>3. LongMod = 2 * (half * b) /\ half * b \in Nat
    BY <1>h, <2>2
  <2> DEFINE c == half * b
  <2>4. LongMod = 2 * c /\ c \in Nat
    BY <2>3
  <2> HIDE DEF c
  <2> QED
    BY <2>4
<1>3. raw \in 0 .. ShortMod - 1 /\ words \in 0 .. ShortMod - 1 /\ record \in Nat
  BY MemoryAssumption, <1>1
<1>4. Signed(raw, ShortMod) = raw /\ Signed(raw, LongMod) = raw
  <2>1. raw < ShortMod \div 2 /\ raw \in 0 .. LongMod - 1 /\ raw < LongMod \div 2
    BY <1>1, <1>2, <1>3, <1>h
  <2>2. Signed(raw, ShortMod) = raw
    BY <1>1, <1>3, <2>1, SignedValues
  <2>3. Signed(raw, LongMod) = raw
    BY <1>1, <1>2, <2>1, SignedValues
  <2> QED
    BY <2>2, <2>3
<1>5. RecordSize(raw, LongMod) = rs /\ rs \in Nat /\ rs >= 2
  BY <1>3, <1>4, AddressAssumption DEF RecordSize
<1> HIDE DEF rs
<1>6. n \in Nat /\ n <= XferMax /\ words \in Nat
  BY <1>3, <1>5 DEF rs
<1>7. n \in 0 .. ShortMod - 1 /\ n \in 0 .. LongMod - 1 /\ n < LongMod \div 2
  <2> HIDE DEF n
  <2> QED
    BY <1>1, <1>2, <1>6 DEF XferMax
<1>8. words < half
  <2>1. 2 * words <= words * rs
    <3>1. PICK more \in Nat : rs = 2 + more
      BY <1>5
    <3>2. words * rs = 2 * words + words * more /\ words * more \in Nat
      BY <1>6, <3>1
    <3> QED
      BY <1>6, <3>2
  <2>2. 2 * words <= n
    BY <2>1
  <2> HIDE DEF n
  <2> QED
    BY <1>1, <1>6, <1>7, <1>h, <2>2
<1>9. Signed(words, ShortMod) = words
  BY <1>1, <1>3, <1>8, <1>h, SignedValues
<1>10. /\ Signed(n, LongMod) = n
       /\ Signed(n, ShortMod) = IF n < half THEN n ELSE n - ShortMod
  <2> HIDE DEF n
  <2> QED
    BY <1>1, <1>2, <1>7, <1>h, SignedValues
<1>11. /\ n % ShortMod = n /\ n % LongMod = n
       /\ (n - ShortMod) % ShortMod = n /\ (n - ShortMod) % LongMod = LongMod + (n - ShortMod)
  <2> HIDE DEF n
  <2>1. n % ShortMod = n /\ n % LongMod = n
    BY <1>1, <1>7
  <2>2. n - ShortMod = ShortMod * (-1) + n
    BY <1>1, <1>7
  <2>3. (n - ShortMod) % ShortMod = n
    BY <1>1, <1>7, <2>2
  <2>4. (n - ShortMod) % LongMod = LongMod + (n - ShortMod)
    BY <1>1, <1>7
  <2> QED
    BY <2>1, <2>3, <2>4
<1>12. ByteCount(words, raw, LongMod) = n
  BY <1>5, <1>10 DEF ByteCount
<1>13. ByteCount(words, raw, ShortMod) = IF n < half THEN n ELSE n - ShortMod
  BY <1>10 DEF ByteCount, rs
<1>14. Asked(words, raw, LongMod) = n /\ Asked(words, raw, ShortMod) = n
  <2> HIDE DEF n
  <2> QED
    BY <1>11, <1>12, <1>13 DEF Asked
<1>15. ASSUME NEW count \in Widened(words, raw)
       PROVE  count = n \/ (n > half - 1 /\ count \in Nat /\ count >= ReuBytes)
  <2>1. Signed(words, ShortMod) * RecordSize(raw, ShortMod) = n
    BY <1>9 DEF rs
  <2>2. count = ByteCount(words, raw, ShortMod) % LongMod \/ count = n % LongMod
    BY <1>15, <2>1 DEF Widened
  <2> HIDE DEF n
  <2> QED
    BY <1>1, <1>7, <1>h, <1>11, <1>13, <2>2
<1>16. /\ RecordStart(record, raw, LongMod) = RecordStart(record, raw, ShortMod)
       /\ RecordStart(record, raw, ShortMod) \in Nat
  <2>1. \A int : RecordStart(record, raw, int) = (record * RecordSize(raw, int)) % LongMod
    BY DEF RecordStart
  <2>2. record * rs \in Nat
    BY <1>3, <1>5
  <2>3. (record * rs) % LongMod \in Nat
    BY <1>1, <2>2
  <2> QED
    BY <1>5, <2>1, <2>3 DEF rs
<1> QED
  BY <1>5, <1>7, <1>11, <1>12, <1>14, <1>15, <1>16, <1>h DEF rs

\* Whatever the operands, a record has a length and a place in its file.
LEMMA AnySizes ==
  ASSUME NEW words \in Count, NEW record \in Index, NEW raw \in RecordWord
  PROVE  /\ Asked(words, raw, ShortMod) \in Nat
         /\ RecordStart(record, raw, ShortMod) \in Nat
<1>1. ShortMod \in Nat \ {0} /\ LongMod \in Nat \ {0} /\ ShortMod \div 2 \in Nat
  BY WidthAssumption
<1>2. raw \in Nat /\ words \in Nat /\ record \in Nat
  BY MemoryAssumption, <1>1
<1>3. \A x \in Int : Signed(x, ShortMod) \in Int /\ x % ShortMod \in Nat /\ x % LongMod \in Nat
  BY <1>1 DEF Signed
<1>4. RecordSize(raw, ShortMod) \in Int
  BY <1>2, <1>3, AddressAssumption DEF RecordSize
<1>5. words * RecordSize(raw, ShortMod) \in Int /\ record * RecordSize(raw, ShortMod) \in Int
  BY <1>2, <1>4
<1> QED
  BY <1>3, <1>5 DEF Asked, ByteCount, RecordStart

-----------------------------------------------------------------------------
(* The two forms of READREC.                                                *)

\* Behind the heap stand the bytes of channel 1.
LEMMA ImageInReu ==
  ASSUME NEW mem \in Reu, Behind(mem), NEW start \in Nat, NEW k \in Nat,
         k <= Available(start)
  PROVE  /\ ImageBytes(start, k) \in Seq(Byte) /\ Len(ImageBytes(start, k)) = k
         /\ ImageAt(start) \in Nat
         /\ k > 0 => ImageAt(start) + k <= ReuBytes
         /\ \A i \in 1 .. k : mem[ImageAt(start) + i - 1] = ImageBytes(start, k)[i]
<1>1. /\ Code \in Seq(Byte) /\ RoData \in Seq(Byte)
      /\ Len(Code) \in Nat /\ Len(RoData) \in Nat
      /\ DOMAIN Code = 1 .. Len(Code) /\ DOMAIN RoData = 1 .. Len(RoData)
      /\ HeapBytes \in Nat /\ RoDataAt \in Nat /\ ReuBytes \in Nat
      /\ HeapBytes + Len(Code) <= RoDataAt /\ RoDataAt + Len(RoData) <= ReuBytes
  BY AddressAssumption, ReuAssumption, Sizes, LenProperties
<1>2. \A x \in 0 .. ReuBytes - 1 :
        Loaded[x] = IF x - RoDataAt + 1 \in 1 .. Len(RoData) THEN RoData[x - RoDataAt + 1]
                    ELSE IF x - HeapBytes + 1 \in 1 .. Len(Code) THEN Code[x - HeapBytes + 1]
                    ELSE Zero
  BY <1>1 DEF Loaded, Stored, CodeAt
<1>3. \A x \in HeapBytes .. ReuBytes - 1 : mem[x] = Loaded[x]
  BY DEF Behind
<1>4. CASE start < Len(Code)
  <2>1. /\ ImageAt(start) = HeapBytes + start /\ ImageBytes(start, k) = Slice(Code, start, k)
        /\ start + k <= Len(Code)
    BY <1>1, <1>4 DEF ImageAt, ImageBytes, Available, CodeAt
  <2>2. /\ Slice(Code, start, k) \in Seq(Byte) /\ Len(Slice(Code, start, k)) = k
        /\ \A i \in 1 .. k : Slice(Code, start, k)[i] = Code[start + i]
    BY <1>1, <2>1, SliceType
  <2>3. ASSUME NEW i \in 1 .. k
        PROVE  mem[HeapBytes + start + i - 1] = Code[start + i]
    <3> DEFINE x == HeapBytes + start + i - 1
    <3>1. /\ x \in HeapBytes .. ReuBytes - 1 /\ x \in 0 .. ReuBytes - 1
          /\ x - RoDataAt + 1 \notin 1 .. Len(RoData)
          /\ x - HeapBytes + 1 = start + i /\ start + i \in 1 .. Len(Code)
      BY <1>1, <2>1
    <3> HIDE DEF x
    <3>2. mem[x] = Code[start + i]
      BY <1>2, <1>3, <3>1
    <3> QED
      BY <3>2 DEF x
  <2>4. HeapBytes + start \in Nat /\ HeapBytes + start + k <= ReuBytes
    BY <1>1, <2>1
  <2> QED
    BY <2>1, <2>2, <2>3, <2>4
<1>5. CASE start >= Len(Code)
  <2> DEFINE from == start - Len(Code)
  <2>1. /\ ImageAt(start) = RoDataAt + from /\ ImageBytes(start, k) = Slice(RoData, from, k)
        /\ from \in Nat /\ (from + k <= Len(RoData) \/ (k = 0 /\ from >= Len(RoData)))
    BY <1>1, <1>5 DEF ImageAt, ImageBytes, Available
  <2> HIDE DEF from
  <2>2. CASE from + k <= Len(RoData)
    <3>2. /\ Slice(RoData, from, k) \in Seq(Byte) /\ Len(Slice(RoData, from, k)) = k
          /\ \A i \in 1 .. k : Slice(RoData, from, k)[i] = RoData[from + i]
      BY <1>1, <2>1, <2>2, SliceType
    <3>3. ASSUME NEW i \in 1 .. k
          PROVE  mem[RoDataAt + from + i - 1] = RoData[from + i]
      <4> DEFINE x == RoDataAt + from + i - 1
      <4>1. /\ x \in HeapBytes .. ReuBytes - 1 /\ x \in 0 .. ReuBytes - 1
            /\ x - RoDataAt + 1 = from + i /\ from + i \in 1 .. Len(RoData)
        BY <1>1, <2>1, <2>2
      <4> HIDE DEF x
      <4>2. mem[x] = RoData[from + i]
        BY <1>2, <1>3, <4>1
      <4> QED
        BY <4>2 DEF x
    <3>4. RoDataAt + from \in Nat /\ RoDataAt + from + k <= ReuBytes
      BY <1>1, <2>1, <2>2
    <3> QED
      BY <2>1, <3>2, <3>3, <3>4
  <2>3. CASE k = 0 /\ from >= Len(RoData)
    <3>1. ImageBytes(start, k) = <<>>
      BY <2>1, <2>3 DEF Slice
    <3>2. RoDataAt + from \in Nat /\ 1 .. 0 = {}
      BY <1>1, <2>1
    <3>3. Len(ImageBytes(start, k)) = k /\ ImageBytes(start, k) \in Seq(Byte)
      <4>1. <<>> \in Seq(Byte) /\ Len(<<>>) = 0
        OBVIOUS
      <4> QED
        BY <2>3, <3>1, <4>1
    <3>4. 1 .. k = {} /\ ~ (k > 0)
      BY <2>3
    <3> QED
      BY <2>1, <3>2, <3>3, <3>4
  <2> QED
    BY <2>1, <2>2, <2>3
<1> QED
  BY <1>1, <1>4, <1>5

\* What the two builds transfer of a record that the rules allow.
LEMMA SameTransfer ==
  ASSUME NEW h \in Handle, NEW words \in Count, NEW record \in Index, NEW raw \in RecordWord,
         MayRead(h, words, record, raw), NEW count \in Widened(words, raw)
  PROVE  LET n == words * RecordSize(raw, ShortMod)
             start == RecordStart(record, raw, ShortMod)
             k == IF n < Available(start) THEN n ELSE Available(start)
         IN  /\ n \in Nat /\ start \in Nat /\ k \in 0 .. n /\ k <= Available(start)
             /\ Transferred(start, count) = k
             /\ Asked(words, raw, ShortMod) = n
             /\ RecordStart(record, raw, LongMod) = start
             /\ Transferred(start, ByteCount(words, raw, LongMod) % LongMod) = k
             /\ Asked(words, raw, LongMod) = n
<1> DEFINE n == words * RecordSize(raw, ShortMod)
           start == RecordStart(record, raw, ShortMod)
           k == IF n < Available(start) THEN n ELSE Available(start)
<1>1. /\ raw <= ShortMod \div 2 - 1 /\ n <= XferMax
      /\ n > ShortMod \div 2 - 1 => Available(start) <= n
  BY DEF MayRead
<1>2. /\ n \in 0 .. ShortMod - 1 /\ start \in Nat
      /\ RecordStart(record, raw, LongMod) = start
      /\ ByteCount(words, raw, LongMod) % LongMod = n
      /\ Asked(words, raw, LongMod) = n /\ Asked(words, raw, ShortMod) = n
      /\ \/ count = n
         \/ n > ShortMod \div 2 - 1 /\ count \in Nat /\ count >= ReuBytes
  BY <1>1, SameSizes
<1> HIDE DEF n, start
<1>3. /\ Available(start) \in Nat /\ Available(start) <= ReuBytes
      /\ ShortMod \in Nat \ {0} /\ ReuBytes \in Nat
  <2>1. /\ Len(Code) \in Nat /\ Len(RoData) \in Nat /\ HeapBytes \in Nat
        /\ RoDataAt \in Nat /\ ReuBytes \in Nat /\ ShortMod \in Nat \ {0}
        /\ HeapBytes + Len(Code) <= RoDataAt /\ RoDataAt + Len(RoData) <= ReuBytes
    BY AddressAssumption, ReuAssumption, Sizes, LenProperties
  <2> QED
    BY <1>2, <2>1 DEF Available
<1>4. k \in 0 .. n /\ k <= Available(start) /\ k \in 0 .. ShortMod - 1
  BY <1>2, <1>3
<1>5. k % ShortMod = k
  <2> HIDE DEF k
  <2> QED
    BY <1>3, <1>4
<1>6. (IF count < Available(start) THEN count ELSE Available(start)) = k
  BY <1>1, <1>2, <1>3
<1>7. Transferred(start, count) = k /\ Transferred(start, n) = k
  BY <1>5, <1>6 DEF Transferred
<1> QED
  BY <1>2, <1>4, <1>7 DEF n, start

\* Bytes and zeroes written one behind the other are one padded block.
LEMMA PaddedInTwo ==
  ASSUME NEW mem \in Reu, NEW at \in Nat, NEW n \in Nat, NEW k \in 0 .. n,
         NEW bytes \in Seq(Byte), Len(bytes) = k
  PROVE  Stored(Stored(mem, at, [i \in 1 .. k |-> bytes[i]]),
                at + k, [i \in 1 .. n - k |-> Zero])
           = Stored(mem, at, Padded(bytes, n))
<1>1. DOMAIN mem = 0 .. ReuBytes - 1 /\ DOMAIN bytes = 1 .. k /\ ReuBytes \in Nat
  BY LenProperties, Sizes DEF Reu
<1>2. ASSUME NEW x \in 0 .. ReuBytes - 1
      PROVE  /\ x - at + 1 \in 1 .. n <=>
                  (x - at + 1 \in 1 .. k \/ x - (at + k) + 1 \in 1 .. n - k)
             /\ ~ (x - at + 1 \in 1 .. k /\ x - (at + k) + 1 \in 1 .. n - k)
  BY <1>1
<1> QED
  BY <1>1, <1>2 DEF Stored, Padded

\* READREC on channel 1, for a record that keeps the rules.
LEMMA ImageRecordStep ==
  ASSUME IInv, ~ halted, NEW h \in Handle, NEW words \in Count, NEW record \in Index,
         NEW raw \in RecordWord, Usable(h), HandleToByteOffset(h) \in Nat,
         MayRead(h, words, record, raw), ImageRecord(h, words, record, raw)
  PROVE  IInv' /\ Plain!Next
<1> DEFINE n == words * RecordSize(raw, ShortMod)
           start == RecordStart(record, raw, ShortMod)
           k == IF n < Available(start) THEN n ELSE Available(start)
           bytes == ImageBytes(start, k)
           at == HandleToByteOffset(h)
           pad(c, a) == IF c < a THEN a - c ELSE 0
           moved == [i \in 1 .. k |-> reu[ImageAt(start) + i - 1]]
<1>1. PICK count \in Widened(words, raw) :
        /\ op' = [call |-> "record", at |-> at, words |-> words, record |-> record, raw |-> raw]
        /\ reu' = Stored(Copied(reu, at, ImageAt(start), Transferred(start, count)),
                         at + Transferred(start, count),
                         [i \in 1 .. pad(Transferred(start, count), Asked(words, raw, ShortMod))
                            |-> Zero])
        /\ out' = <<Transferred(start, count)>> /\ page' = page /\ halted' = halted
  BY DEF ImageRecord
<1>2. /\ n \in Nat /\ start \in Nat /\ k \in 0 .. n /\ k <= Available(start)
      /\ Transferred(start, count) = k
      /\ Asked(words, raw, ShortMod) = n
      /\ RecordStart(record, raw, LongMod) = start
      /\ Transferred(start, ByteCount(words, raw, LongMod) % LongMod) = k
      /\ Asked(words, raw, LongMod) = n
  BY SameTransfer
<1>3. at \in Nat /\ at + n <= HeapBytes /\ ~ Overlaps(page, at, n)
  <2>1. ~ (at + n > HeapBytes) /\ ~ Overlaps(page, at, n)
    BY DEF MayRead, Outside
  <2> HIDE DEF n, at
  <2>2. at + n <= HeapBytes
    BY <1>2, <2>1, Sizes DEF at
  <2> QED
    BY <2>1, <2>2 DEF at
<1> HIDE DEF n, start, k, at
<1>4. pad(k, n) = n - k /\ k \in Nat /\ at + k <= ReuBytes /\ HeapBytes \in Nat
  BY <1>2, <1>3, Sizes
<1>5. /\ reu' = Stored(Copied(reu, at, ImageAt(start), k), at + k, [i \in 1 .. n - k |-> Zero])
      /\ out' = <<k>>
  BY <1>1, <1>2, <1>4
<1>6. reu \in Reu /\ Behind(reu)
  BY DEF IInv, TypeOK, Reu
<1>7. /\ bytes \in Seq(Byte) /\ Len(bytes) = k /\ ImageAt(start) \in Nat
      /\ k > 0 => ImageAt(start) + k <= ReuBytes
      /\ \A i \in 1 .. k : reu[ImageAt(start) + i - 1] = bytes[i]
  BY <1>2, <1>4, <1>6, ImageInReu
<1>8. Copied(reu, at, ImageAt(start), k) = Stored(reu, at, moved)
  BY <1>3, <1>4, <1>6, <1>7, CopiedIsMove
<1> HIDE DEF bytes
<1>9. moved = [i \in 1 .. k |-> bytes[i]]
  BY <1>7
<1>10. reu' = Stored(reu, at, Padded(bytes, n))
  <2> DEFINE block == Stored(reu, at, [i \in 1 .. k |-> bytes[i]])
  <2>1. reu' = Stored(block, at + k, [i \in 1 .. n - k |-> Zero])
    BY <1>5, <1>8, <1>9
  <2>2. Stored(block, at + k, [i \in 1 .. n - k |-> Zero]) = Stored(reu, at, Padded(bytes, n))
    <3>1. /\ reu \in Reu /\ at \in Nat /\ n \in Nat /\ k \in 0 .. n
          /\ bytes \in Seq(Byte) /\ Len(bytes) = k
      BY <1>2, <1>3, <1>6, <1>7
    <3> HIDE DEF pad, moved
    <3> QED
      BY <3>1, PaddedInTwo
  <2> QED
    BY <2>1, <2>2
<1>11. Padded(bytes, n) \in [1 .. n -> Byte]
  BY <1>2, <1>7, PaddedType
<1>12. reu' \in Reu /\ OnlyHeap(reu, reu', at, n)
  BY <1>2, <1>3, <1>6, <1>10, <1>11, StoredType
<1>13. page' = Invalidated(page, at, n)
  BY <1>1, <1>3 DEF Invalidated
<1>14. out' \in Seq(Byte \cup Nat)
  <2>1. <<k>> \in Seq(Byte \cup Nat)
    BY <1>4
  <2> QED
    BY <1>5, <2>1
<1>15. IInv'
  BY <1>1, <1>2, <1>3, <1>12, <1>13, <1>14, WriteKeeps
<1>16. Heap(reu)' = Stored(Heap(reu), at, Padded(bytes, n))
  BY <1>6, <1>10, HeapOfWrites DEF Heap
<1>17. Plain!Record(at, words, record, raw)
  <2>1. (IF k < n THEN n ELSE k) = n
    BY <1>2
  <2>2. /\ at + n <= HeapBytes /\ out' = <<k>> /\ halted' = halted
        /\ Heap(reu)' = Stored(Heap(reu), at, Padded(ImageBytes(start, k), n))
    BY <1>1, <1>3, <1>5, <1>16 DEF bytes
  <2>3. /\ Plain!RecordStart(record, raw, LongMod) = start
        /\ Plain!Transferred(start, Plain!ByteCount(words, raw, LongMod) % LongMod) = k
        /\ Plain!Asked(words, raw, LongMod) = n
    BY <1>2, SharedCode
  <2> QED
    BY <2>1, <2>2, <2>3, SharedCode DEF Plain!Record
<1>18. /\ op'.call = "record" /\ op'.at = at /\ op'.words = words /\ op'.record = record
       /\ op'.raw = raw
  BY <1>1
<1> QED
  BY <1>15, <1>17, <1>18 DEF Plain!Next

\* READREC on a file.
LEMMA FileRecordStep ==
  ASSUME IInv, ~ halted, NEW h \in Handle, NEW words \in Count, NEW record \in Index,
         NEW raw \in RecordWord, NEW good \in 0 .. Len(File),
         Usable(h), HandleToByteOffset(h) \in 0 .. HeapBytes - 1,
         FileRecord(h, words, record, raw, good)
  PROVE  IInv' /\ Plain!Next
<1> DEFINE n == Asked(words, raw, ShortMod)
           bytes == Delivered(RecordStart(record, raw, ShortMod), n, good)
           at == HandleToByteOffset(h)
           m == InHeap(at, n)
<1>1. /\ op' = [call |-> "file", at |-> at, bytes |-> bytes, n |-> n]
      /\ reu' = Stored(reu, at, Padded(bytes, m))
      /\ out' = <<Len(bytes)>> /\ page' = Invalidated(page, at, n) /\ halted' = halted
  BY DEF FileRecord
<1>2. n \in Nat /\ at \in 0 .. HeapBytes - 1 /\ HeapBytes \in Nat
  BY AnySizes, Sizes
<1>3. bytes \in Seq(Byte) /\ Len(bytes) \in Nat
  <2>1. File \in Seq(Byte)
    BY MemoryAssumption
  <2>2. SubSeq(File, 1, good) \in Seq(Byte)
    BY <2>1, SubSeqProperties
  <2>3. RecordStart(record, raw, ShortMod) \in Nat
    BY AnySizes
  <2>4. bytes \in Seq(Byte)
    BY <1>2, <2>2, <2>3, SliceType DEF Delivered
  <2> HIDE DEF bytes
  <2> QED
    BY <2>4, LenProperties
<1> HIDE DEF n, bytes, at
<1>4. m \in 0 .. n /\ at + m <= HeapBytes /\ (m = n \/ at + m = HeapBytes)
  BY <1>2 DEF InHeap, Outside
<1> HIDE DEF m
<1>5. reu \in Reu
  BY DEF IInv, TypeOK, Reu
<1>6. Padded(bytes, m) \in [1 .. m -> Byte] /\ m \in Nat /\ at \in Nat
  BY <1>2, <1>3, <1>4, PaddedType
<1>7. reu' \in Reu /\ OnlyHeap(reu, reu', at, m)
  BY <1>1, <1>4, <1>5, <1>6, StoredType
<1>8. OnlyHeap(reu, reu', at, n)
  <2>1. \A x \in 0 .. ReuBytes - 1 : x \notin at .. at + n - 1 => x \notin at .. at + m - 1
    BY <1>2, <1>4
  <2> QED
    BY <1>7, <2>1 DEF OnlyHeap
<1>9. out' \in Seq(Byte \cup Nat)
  <2> DEFINE length == Len(bytes)
  <2>1. length \in Nat /\ out' = <<length>>
    BY <1>1, <1>3
  <2> HIDE DEF length
  <2> QED
    BY <2>1
<1>10. IInv'
  BY <1>1, <1>2, <1>6, <1>7, <1>8, <1>9, WriteKeeps
<1>11. Heap(reu)' = Stored(Heap(reu), at, Padded(bytes, n))
  <2>1. Heap(reu)' = Stored(Heap(reu), at, Padded(bytes, m))
    BY <1>1, <1>5, HeapOfWrites DEF Heap
  <2>2. DOMAIN Heap(reu) = 0 .. HeapBytes - 1
    BY DEF Heap
  <2>3. \A x \in 0 .. HeapBytes - 1 : x - at + 1 \in 1 .. n <=> x - at + 1 \in 1 .. m
    BY <1>2, <1>4
  <2>4. Stored(Heap(reu), at, Padded(bytes, m)) = Stored(Heap(reu), at, Padded(bytes, n))
    BY <2>2, <2>3 DEF Stored, Padded
  <2> QED
    BY <2>1, <2>4
<1>12. Plain!FileRecord(at, bytes, n)
  BY <1>1, <1>11, SharedCode DEF Plain!FileRecord
<1>13. op'.call = "file" /\ op'.at = at /\ op'.bytes = bytes /\ op'.n = n
  BY <1>1
<1> QED
  BY <1>1, <1>10, <1>12, <1>13 DEF Plain!Next

\* A step that leaves the heap alone.
LEMMA QuietStep ==
  ASSUME IInv, ~ halted, NoRequest(<<>>) \/ NoRequest(<< 0 >>) \/ Halt
  PROVE  IInv' /\ Plain!Next
<1>0. TruePage(page, reu) /\ <<>> \in Seq(Byte \cup Nat) /\ << 0 >> \in Seq(Byte \cup Nat)
      /\ halted \in BOOLEAN
  BY DEF IInv, TypeOK
<1>1. CASE NoRequest(<<>>) \/ NoRequest(<< 0 >>)
  <2>1. /\ op'.call = "none" /\ out' \in {<<>>, << 0 >>}
        /\ reu' = reu /\ page' = page /\ halted' = halted
    BY <1>1 DEF NoRequest
  <2>2. IInv'
    BY <1>0, <2>1, NothingWritten
  <2>3. Heap(reu)' = Heap(reu)
    BY <2>1 DEF Heap
  <2> QED
    BY <2>1, <2>2, <2>3 DEF Plain!Next
<1>2. CASE Halt
  <2>1. op'.call = "halt" /\ out' = <<>> /\ reu' = reu /\ page' = page /\ halted' = TRUE
    BY <1>2 DEF Halt
  <2>2. IInv'
    BY <1>0, <2>1, NothingWritten
  <2>3. Heap(reu)' = Heap(reu)
    BY <2>1 DEF Heap
  <2> QED
    BY <2>1, <2>2, <2>3 DEF Plain!Next
<1> QED
  BY <1>1, <1>2

-----------------------------------------------------------------------------
(* The instructions make such requests.                                     *)

\* Where the operands of an instruction point to.
LEMMA Operands ==
  ASSUME NEW h \in Handle
  PROVE  /\ h \in Nat /\ HandleToByteOffset(h) \in Nat
         /\ HandleToByteOffset(h) \in 0 .. HeapBytes - 1
         /\ \A i \in Index : /\ i \in Nat
                             /\ WordAt(h, i) \in Nat /\ WordAt(h, Resolved(h, i)) \in Nat
                             /\ PayloadAt(h, i) \in Nat /\ PayloadAt(h, i - 1) \in Nat
         /\ WordAt(h, 0) \in Nat /\ PayloadAt(h, 0) \in Nat
<1>1. h \in Nat /\ \A i \in Index : i \in Nat
  BY MemoryAssumption, Sizes
<1>2. HandleToByteOffset(h) \in Nat /\ HandleToByteOffset(h) \in 0 .. HeapBytes - 1
  <2>1. h \in 0 .. SegmentBytes - 1
    BY MemoryAssumption
  <2>2. PICK half \in Nat : half = SegmentBytes \div 2 /\ SegmentBytes = 2 * half
    BY Sizes
  <2> QED
    BY <2>1, <2>2 DEF HandleToByteOffset, HeapBytes
<1>3. \A i \in Index : Resolved(h, i) \in Nat
  BY <1>1 DEF Resolved
<1> QED
  BY <1>1, <1>2, <1>3 DEF WordAt, PayloadAt

\* A request for one word or one byte, or for a block of them.
LEMMA RequestStep ==
  ASSUME IInv, ~ halted,
         \/ \E at \in Nat, n \in {1, 2} : Read(at, n)
         \/ \E at \in Nat, n \in Nat, w \in Word : Fill(at, n, w)
         \/ \E at \in Nat, n \in Nat, b \in Byte : Fill(at, n, <<b>>)
         \/ \E at \in Nat, n \in Nat : n <= XferMax /\ Clear(at, n)
         \/ \E dst \in Nat, src \in Nat, n \in Nat : n <= XferMax /\ Move(dst, src, n)
         \/ NoRequest(<<>>) \/ NoRequest(<< 0 >>) \/ Halt
  PROVE  IInv' /\ Plain!Next
<1>1. ASSUME NEW at \in Nat, NEW n \in {1, 2}, Read(at, n)
      PROVE  IInv' /\ Plain!Next
  <2>1. IInv' /\ Plain!Read(at, n)
    BY <1>1, ReadStep
  <2>2. op'.call = "read" /\ op'.at = at /\ op'.n = n /\ halted' = halted
    BY <1>1 DEF Read
  <2> QED
    BY <2>1, <2>2 DEF Plain!Next
<1>2. ASSUME NEW at \in Nat, NEW n \in Nat, NEW cell \in Seq(Byte),
             Len(cell) \in {1, 2}, Fill(at, n, cell)
      PROVE  IInv' /\ Plain!Next
  <2>1. IInv' /\ Plain!Fill(at, n, cell)
    BY <1>2, FillStep
  <2>2. op'.call = "fill" /\ op'.at = at /\ op'.n = n /\ op'.cell = cell /\ halted' = halted
    BY <1>2 DEF Fill
  <2> QED
    BY <2>1, <2>2 DEF Plain!Next
<1>3. ASSUME NEW at \in Nat, NEW n \in Nat, n <= XferMax, Clear(at, n)
      PROVE  IInv' /\ Plain!Next
  <2>1. IInv' /\ Plain!Clear(at, n)
    BY <1>3, ClearStep
  <2>2. op'.call = "clear" /\ op'.at = at /\ op'.n = n /\ halted' = halted
    BY <1>3 DEF Clear
  <2> QED
    BY <2>1, <2>2 DEF Plain!Next
<1>4. ASSUME NEW dst \in Nat, NEW src \in Nat, NEW n \in Nat, n <= XferMax, Move(dst, src, n)
      PROVE  IInv' /\ Plain!Next
  <2>1. IInv' /\ Plain!Move(dst, src, n)
    BY <1>4, MoveStep
  <2>2. op'.call = "move" /\ op'.dst = dst /\ op'.src = src /\ op'.n = n /\ halted' = halted
    BY <1>4 DEF Move
  <2> QED
    BY <2>1, <2>2 DEF Plain!Next
<1>5. ASSUME NEW w \in Word
      PROVE  w \in Seq(Byte) /\ Len(w) = 2
  <2>1. PICK lo \in Byte, hi \in Byte : w = <<lo, hi>>
    BY DEF Word
  <2>2. <<lo, hi>> \in Seq(Byte) /\ Len(<<lo, hi>>) = 2
    OBVIOUS
  <2> QED
    BY <2>1, <2>2
<1>6. \A b \in Byte : <<b>> \in Seq(Byte) /\ Len(<<b>>) = 1
  OBVIOUS
<1> QED
  BY <1>1, <1>2, <1>3, <1>4, <1>5, <1>6, QuietStep

\* Every instruction but READREC.
LEMMA AccessStep ==
  ASSUME IInv, ~ halted, Access
  PROVE  IInv' /\ Plain!Next
<1> DEFINE Request ==
      \/ \E at \in Nat, n \in {1, 2} : Read(at, n)
      \/ \E at \in Nat, n \in Nat, w \in Word : Fill(at, n, w)
      \/ \E at \in Nat, n \in Nat, b \in Byte : Fill(at, n, <<b>>)
      \/ \E at \in Nat, n \in Nat : n <= XferMax /\ Clear(at, n)
      \/ \E dst \in Nat, src \in Nat, n \in Nat : n <= XferMax /\ Move(dst, src, n)
      \/ NoRequest(<<>>) \/ NoRequest(<< 0 >>) \/ Halt
<1>1. \A n \in Count : n \in Nat
  BY MemoryAssumption
<1>2. ASSUME NEW h \in Handle, NEW i \in Index,
             VLoadW(h, i) \/ VLoadWImmediate(h, i) \/ VLoadB(h, i) \/ VLoadBImmediate(h, i)
      PROVE  Request
  BY <1>2, Operands DEF VLoadW, VLoadWImmediate, VLoadB, VLoadBImmediate
<1>3. ASSUME NEW h \in Handle, NEW i \in Index, NEW w \in Word,
             VPutW(h, i, w) \/ VPutWImmediate(h, i, w)
      PROVE  Request
  BY <1>3, Operands DEF VPutW, VPutWImmediate
<1>4. ASSUME NEW h \in Handle, NEW i \in Index, NEW b \in Byte,
             VPutB(h, i, b) \/ VPutBImmediate(h, i, b)
      PROVE  Request
  BY <1>4, Operands DEF VPutB, VPutBImmediate
<1>5. ASSUME NEW h \in Handle, NEW n \in Count,
             \/ \E w \in Word : VFillW(h, n, w)
             \/ \E b \in Byte : VFillB(h, n, b)
      PROVE  Request
  BY <1>1, <1>5, Operands DEF VFillW, VFillB
<1>6. ASSUME NEW h \in Handle, NEW n \in Count, 2 * n <= XferMax, ClearBlock(h, n)
      PROVE  Request
  <2>1. 2 * n \in Nat
    BY <1>1
  <2> QED
    BY <1>6, <2>1, Operands DEF ClearBlock
<1>7. ASSUME Copy PROVE Request
  <2>1. ASSUME NEW src \in Handle, NEW dst \in Handle, NEW n \in Count,
               2 * n <= XferMax, VecCpyW(src, n, dst)
        PROVE  Request
    <3>1. 2 * n \in Nat
      BY <1>1
    <3> QED
      BY <2>1, <3>1, Operands DEF VecCpyW
  <2>2. ASSUME NEW src \in Handle, NEW dst \in Handle, NEW n \in Count,
               NEW i \in Index, NEW j \in Index, n <= XferMax, VecCpyB(src, n, dst, i, j)
        PROVE  Request
    BY <1>1, <2>2, Operands DEF VecCpyB
  <2> QED
    BY <1>7, <2>1, <2>2 DEF Copy
<1>8. Request
  <2> HIDE DEF Request
  <2> QED
    BY <1>2, <1>3, <1>4, <1>5, <1>6, <1>7 DEF Access
<1> QED
  BY <1>8, RequestStep

\* Every step of a disciplined program keeps the invariant and is a step of
\* the flat memory.
LEMMA DisciplinedStep ==
  ASSUME IInv, DisciplinedNext
  PROVE  IInv' /\ Plain!Next
<1>1. ~ halted
  BY DEF DisciplinedNext
<1>2. CASE Access
  BY <1>1, <1>2, AccessStep
<1>3. CASE ApartRecords
  <2>1. PICK h \in Handle, words \in Count, record \in Index, raw \in RecordWord :
          /\ Usable(h) => MayRead(h, words, record, raw)
          /\ ImageRecord(h, words, record, raw)
    BY <1>3 DEF ApartRecords
  <2>2. CASE Usable(h)
    BY <1>1, <2>1, <2>2, Operands, ImageRecordStep
  <2>3. CASE ~ Usable(h)
    BY <1>1, <2>1, <2>3, QuietStep DEF ImageRecord
  <2> QED
    BY <2>2, <2>3
<1>4. CASE FileRecords
  <2>1. CASE NoChannel
    BY <1>1, <2>1, QuietStep DEF NoChannel
  <2>2. CASE ~ NoChannel
    <3>1. PICK h \in Handle, words \in Count, record \in Index, raw \in RecordWord,
               good \in 0 .. Len(File) : FileRecord(h, words, record, raw, good)
      BY <1>4, <2>2 DEF FileRecords
    <3>2. CASE Usable(h)
      BY <1>1, <3>1, <3>2, Operands, FileRecordStep
    <3>3. CASE ~ Usable(h)
      BY <1>1, <3>1, <3>3, QuietStep DEF FileRecord
    <3> QED
      BY <3>2, <3>3
  <2> QED
    BY <2>1, <2>2
<1> QED
  BY <1>2, <1>3, <1>4 DEF DisciplinedNext

-----------------------------------------------------------------------------
(* The theorems.                                                            *)

\* The REU starts with bytes, and with an empty heap.
LEMMA LoadedType == Loaded \in Reu /\ \A x \in 0 .. HeapBytes - 1 : Loaded[x] = Zero
<1>1. /\ Code \in Seq(Byte) /\ RoData \in Seq(Byte) /\ Zero \in Byte
      /\ Len(Code) \in Nat /\ Len(RoData) \in Nat
      /\ DOMAIN Code = 1 .. Len(Code) /\ DOMAIN RoData = 1 .. Len(RoData)
      /\ \A i \in DOMAIN Code : Code[i] \in Byte
      /\ \A i \in DOMAIN RoData : RoData[i] \in Byte
      /\ HeapBytes \in Nat /\ RoDataAt \in Nat /\ ReuBytes \in Nat
      /\ HeapBytes + Len(Code) <= RoDataAt /\ HeapBytes + ShortMod <= ReuBytes
      /\ ShortMod \in Nat
  BY AddressAssumption, ReuAssumption, Sizes, LenProperties, ElementOfSeq
<1>2. Loaded = [x \in 0 .. ReuBytes - 1 |->
                  IF x - RoDataAt + 1 \in DOMAIN RoData THEN RoData[x - RoDataAt + 1]
                  ELSE IF x - HeapBytes + 1 \in DOMAIN Code THEN Code[x - HeapBytes + 1]
                  ELSE Zero]
  BY DEF Loaded, Stored, CodeAt
<1>3. Loaded \in Reu
  BY <1>1, <1>2 DEF Reu
<1>4. ASSUME NEW x \in 0 .. HeapBytes - 1 PROVE Loaded[x] = Zero
  <2>1. x \in 0 .. ReuBytes - 1 /\ x - RoDataAt + 1 \notin 1 .. Len(RoData)
        /\ x - HeapBytes + 1 \notin 1 .. Len(Code)
    BY <1>1
  <2> QED
    BY <1>1, <1>2, <2>1
<1> QED
  BY <1>3, <1>4

\* The inductive invariant holds of every disciplined program.
LEMMA Invariant == DisciplinedSpec => []IInv
<1>1. Init => IInv
  <2> SUFFICES ASSUME Init PROVE IInv
    OBVIOUS
  <2>1. Zero \in Byte /\ HeapBytes \in Nat \ {0} /\ PageBytes \in Nat \ {0}
    BY AddressAssumption, MemoryAssumption, Sizes
  <2>2. 0 \in 0 .. HeapBytes - 1
    BY <2>1
  <2>3. PageOf(0) + PageBytes <= HeapBytes /\ 0 - PageOf(0) \in 0 .. PageBytes - 1
        /\ PageOf(0) \in 0 .. HeapBytes - 1
    BY <2>2, PageInside
  <2>4. PageBytes <= HeapBytes
    BY <2>1, <2>3
  <2>5. page \in PageType /\ ~ page.valid /\ page.base = 0
    BY <2>1, <2>2 DEF Init, PageType
  <2>6. TruePage(page, reu)
    BY <2>1, <2>4, <2>5 DEF TruePage
  <2>7. reu \in Reu /\ Behind(reu)
    BY LoadedType DEF Init, Behind
  <2>8. out \in Seq(Byte \cup Nat) /\ halted \in BOOLEAN
    <3>1. out = <<>> /\ halted = FALSE
      BY DEF Init
    <3>2. <<>> \in Seq(Byte \cup Nat)
      OBVIOUS
    <3> QED
      BY <3>1, <3>2
  <2> QED
    BY <2>5, <2>6, <2>7, <2>8 DEF IInv, TypeOK, PageType, Reu
<1>2. IInv /\ [DisciplinedNext]_vars => IInv'
  <2> SUFFICES ASSUME IInv, [DisciplinedNext]_vars PROVE IInv'
    OBVIOUS
  <2>1. CASE DisciplinedNext
    BY <2>1, DisciplinedStep
  <2>2. CASE UNCHANGED vars
    BY <2>2 DEF vars, IInv, TypeOK, TruePage, PageType, Behind
  <2> QED
    BY <2>1, <2>2
<1> QED
  BY <1>1, <1>2, PTL DEF DisciplinedSpec

\* The heap, the cache and the answers keep their types.
THEOREM MemoryTypes == DisciplinedSpec => []TypeOK
<1>1. IInv => TypeOK
  BY DEF IInv
<1> QED
  BY <1>1, Invariant, PTL

\* The page cache never holds a byte that the REU no longer has, for a program
\* that reads records of channel 1 only into memory the cache does not hold.
THEOREM CacheStaysTrue == DisciplinedSpec => []CachedPageTrue
<1>1. IInv => CachedPageTrue
  BY DEF IInv, TruePage, CachedPageTrue
<1> QED
  BY <1>1, Invariant, PTL

\* For such a program every request is served as the POSIX build serves it.
THEOREM RefinesPlainMemory == DisciplinedSpec => ImplementsPlainMemory
<1>1. Init => Plain!Init
  <2>1. ASSUME NEW x \in 0 .. HeapBytes - 1 PROVE Loaded[x] = Zero
    BY <2>1, LoadedType
  <2>2. Heap(Loaded) = [x \in 0 .. HeapBytes - 1 |-> Zero]
    BY <2>1 DEF Heap
  <2> QED
    BY <2>2, SharedCode DEF Init, Plain!Init
<1>2. IInv /\ [DisciplinedNext]_vars => [Plain!Next]_(Plain!vars)
  <2> SUFFICES ASSUME IInv, [DisciplinedNext]_vars PROVE [Plain!Next]_(Plain!vars)
    OBVIOUS
  <2>1. CASE DisciplinedNext
    BY <2>1, DisciplinedStep
  <2>2. CASE UNCHANGED vars
    BY <2>2 DEF vars, Plain!vars, Heap
  <2> QED
    BY <2>1, <2>2
<1> QED
  BY <1>1, <1>2, Invariant, PTL DEF DisciplinedSpec, ImplementsPlainMemory, Plain!Spec
=============================================================================
