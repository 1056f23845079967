---------------------------- MODULE Lp128Memory ----------------------------
(***************************************************************************)
(* The heap of the C128 build of Linchpin128 (the __mos__ branches of      *)
(* lp128_run.c, lp128_reu.c): the bytes live in the REU, reads go through  *)
(* a cache of one page, writes drop the page they touch and go to the REU, *)
(* copies are made in pieces through a small buffer.  One action per       *)
(* instruction that reads or writes aggregates.                            *)
(***************************************************************************)
EXTENDS Lp128Addresses

CONSTANTS
  PageBytes,      \* LP128_CODE_PAGE_SIZE
  ScratchBytes,   \* REU_SCRATCH_SIZE
  RoDataAt,       \* ro_data_reu_offset
  ReuBytes,       \* the size of the REU
  File,           \* the bytes of a file on the disk
  Handle, Index, Count,   \* the operands the program uses
  RecordWord      \* the values of slot 0xCC

ASSUME MemoryAssumption ==
  /\ PageBytes \in Nat \ {0} /\ HeapBytes % PageBytes = 0
  /\ ScratchBytes \in Nat \ {0}
  /\ File \in Seq(Byte)
  /\ Handle \subseteq 0 .. SegmentBytes - 1
  /\ Index \subseteq 0 .. ShortMod - 1 /\ Count \subseteq 0 .. ShortMod - 1
  /\ RecordWord \subseteq 0 .. ShortMod - 1

\* The code pages follow the heap, the read-only data stand somewhere behind
\* them, and a transfer that starts in the heap does not reach the end.
ASSUME ReuAssumption ==
  /\ RoDataAt \in Nat /\ ReuBytes \in Nat
  /\ HeapBytes + Len(Code) <= RoDataAt /\ RoDataAt + Len(RoData) <= ReuBytes
  /\ HeapBytes + ShortMod <= ReuBytes /\ ReuBytes + ShortMod <= LongMod

VARIABLES
  reu,      \* the heap at REU_VM_HEAP_OFFSET, which is 0, and what follows it
  page,     \* heap_page_cache with its valid flag and its base
  op,       \* history: the last request for memory
  out,      \* what it answered
  halted    \* is_halted

vars == <<reu, page, op, out, halted>>

\* REU_CODE_PAGES_OFFSET
CodeAt == HeapBytes

\* The longest transfer: 0xFFFF.
XferMax == ShortMod - 1

TypeOK ==
  /\ reu \in [0 .. ReuBytes - 1 -> Byte]
  /\ page \in [valid : BOOLEAN, base : 0 .. HeapBytes - 1,
               bytes : [0 .. PageBytes - 1 -> Byte]]
  /\ out \in Seq(Byte \cup Nat)
  /\ halted \in BOOLEAN

\* The image behind an empty heap.
Loaded == Stored(Stored([x \in 0 .. ReuBytes - 1 |-> Zero], CodeAt, Code), RoDataAt, RoData)

Init ==
  /\ reu = Loaded
  /\ page = [valid |-> FALSE, base |-> 0, bytes |-> [i \in 0 .. PageBytes - 1 |-> Zero]]
  /\ op = [call |-> "none"] /\ out = <<>> /\ halted = FALSE

-----------------------------------------------------------------------------
(* The page cache.                                                          *)

PageOf(x) == PageBytes * (x \div PageBytes)

\* The cache after read_heap_byte_cached has read byte x.
Fetched(p, x) ==
  IF p.valid /\ p.base = PageOf(x) THEN p
  ELSE [valid |-> TRUE, base |-> PageOf(x),
        bytes |-> [i \in 0 .. PageBytes - 1 |-> reu[PageOf(x) + i]]]

\* Variant of Overlaps: only a write that starts in the page is taken to touch it.
StartsIn(p, at, n) == p.valid /\ n > 0 /\ at < p.base + PageBytes /\ at >= p.base

Overlaps(p, at, n) == p.valid /\ n > 0 /\ at < p.base + PageBytes /\ at + n > p.base

\* invalidate_heap_cache_range
Invalidated(p, at, n) == IF Overlaps(p, at, n) THEN [p EXCEPT !.valid = FALSE] ELSE p

-----------------------------------------------------------------------------
(* Requests for memory.                                                     *)

\* Variant of Outside: only the first byte is looked at, with > for >=.
StartsOutside(at, n) == at > HeapBytes

\* The test against LP128_FULL_RAM_BYTES.
Outside(at, n) == at + n > HeapBytes

\* vm_read_byte, vm_read_word: the bytes of a word may lie in two pages.
Read(at, n) ==
  /\ op' = [call |-> "read", at |-> at, n |-> n]
  /\ IF Outside(at, n)
       THEN UNCHANGED page /\ out' = [i \in 1 .. n |-> Zero]
       ELSE LET first == Fetched(page, at)
                last == IF n = 2 THEN Fetched(first, at + 1) ELSE first
            IN  /\ page' = last
                /\ out' = [i \in 1 .. n |->
                     IF i = 1 THEN first.bytes[at - first.base]
                              ELSE last.bytes[at + 1 - last.base]]
  /\ UNCHANGED <<reu, halted>>

\* vm_write_byte or vm_write_word, for n cells one after the other.
Fill(at, n, cell) ==
  /\ op' = [call |-> "fill", at |-> at, n |-> n, cell |-> cell]
  /\ page' = Invalidated(page, at, n * Len(cell))
  /\ reu' = Filled(reu, at, n, cell)
  /\ out' = <<>> /\ UNCHANGED halted

\* vm_zero_bytes, reu_fill_zero
Clear(at, n) ==
  /\ op' = [call |-> "clear", at |-> at, n |-> n]
  /\ IF Outside(at, n) THEN UNCHANGED <<reu, page>>
     ELSE /\ page' = Invalidated(page, at, n)
          /\ reu' = IF n > XferMax THEN reu ELSE Stored(reu, at, [i \in 1 .. n |-> Zero])
  /\ out' = <<>> /\ UNCHANGED halted

\* One piece of reu_copy, through reu_scratch.
Piece(mem, dst, src, n) == Stored(mem, dst, [i \in 1 .. n |-> mem[src + i - 1]])

\* The piece that starts `done` bytes from the end that the copy begins at.
PieceBytes(n, done) == IF n - done > ScratchBytes THEN ScratchBytes ELSE n - done

\* Variant of Forwards: every copy goes forwards.
AlwaysForwards(dst, src, n) == TRUE

\* reu_copy: forwards, or from the end when the target overlaps the source
\* from above.
Forwards(dst, src, n) == dst < src \/ dst >= src + n

\* Piece k of a copy of n bytes, in the memory `mem` that the ones before it left.
PieceOf(mem, dst, src, n, k) ==
  LET done == (k - 1) * ScratchBytes
      size == PieceBytes(n, done)
      from == IF Forwards(dst, src, n) THEN done ELSE n - done - size
  IN  Piece(mem, dst + from, src + from, size)

Pieces(n) == (n + ScratchBytes - 1) \div ScratchBytes

Copied(mem, dst, src, n) ==
  LET after[k \in 0 .. Pieces(n)] ==
        IF k = 0 THEN mem ELSE PieceOf(after[k - 1], dst, src, n, k)
  IN after[Pieces(n)]

\* vm_move_bytes
Move(dst, src, n) ==
  /\ op' = [call |-> "move", dst |-> dst, src |-> src, n |-> n]
  /\ IF n = 0 \/ dst = src \/ Outside(dst, n) \/ Outside(src, n)
       THEN UNCHANGED <<reu, page>>
       ELSE /\ page' = Invalidated(Invalidated(page, dst, n), src, n)
            /\ reu' = IF n > XferMax THEN reu ELSE Copied(reu, dst, src, n)
  /\ out' = <<>> /\ UNCHANGED halted

NoRequest(answer) ==
  op' = [call |-> "none"] /\ out' = answer /\ UNCHANGED <<reu, page, halted>>

Halt ==
  op' = [call |-> "halt"] /\ halted' = TRUE /\ out' = <<>> /\ UNCHANGED <<reu, page>>

-----------------------------------------------------------------------------
(* Instructions.  A load from FALSE halts; a store to it is ignored.        *)

Word == {<<lo, hi>> : lo \in Byte, hi \in Byte}

VLoadW(h, i) == IF h = False THEN Halt ELSE Read(WordAt(h, Resolved(h, i)), 2)
VLoadWImmediate(h, i) == IF h = False THEN Halt ELSE Read(WordAt(h, i), 2)
VLoadB(h, i) == IF h = False THEN Halt ELSE Read(PayloadAt(h, i - 1), 1)
VLoadBImmediate(h, i) == IF h = False THEN Halt ELSE Read(PayloadAt(h, i), 1)

VPutW(h, i, w) ==
  IF h = False THEN NoRequest(<<>>) ELSE Fill(WordAt(h, Resolved(h, i)), 1, w)
VPutWImmediate(h, i, w) == IF h = False THEN NoRequest(<<>>) ELSE Fill(WordAt(h, i), 1, w)
VPutB(h, i, b) == IF h = False THEN NoRequest(<<>>) ELSE Fill(PayloadAt(h, i - 1), 1, <<b>>)
VPutBImmediate(h, i, b) == IF h = False THEN NoRequest(<<>>) ELSE Fill(PayloadAt(h, i), 1, <<b>>)

VFillW(h, n, w) == Fill(WordAt(h, 0), n, w)
VFillB(h, n, b) == Fill(PayloadAt(h, 0), n, <<b>>)
VecCpyW(src, n, dst) == Move(HandleToByteOffset(dst), HandleToByteOffset(src), 2 * n)
VecCpyB(src, n, dst, srcOff, dstOff) == Move(PayloadAt(dst, dstOff), PayloadAt(src, srcOff), n)

\* The words of a new block, in VALLOC and PVALLOC.
ClearBlock(h, n) == Clear(HandleToByteOffset(h), 2 * n)

-----------------------------------------------------------------------------
(* READREC.                                                                 *)

\* Where byte `start` of channel 1 stands in the REU.
ImageAt(start) ==
  IF start < Len(Code) THEN CodeAt + start ELSE RoDataAt + (start - Len(Code))

\* (uint32_t)byte_count.  The int has 16 bits, and a product that it does not
\* hold is undefined: it wraps before it is widened, or is computed wide.
Widened(words, raw) ==
  {ByteCount(words, raw, ShortMod) % LongMod,
   (Signed(words, ShortMod) * RecordSize(raw, ShortMod)) % LongMod}

\* A record of channel 1: reu_copy and reu_fill_zero straight into the REU.
\* They look neither at the end of the heap, behind which the code pages
\* stand, nor at the cached page.
ImageRecord(h, words, record, raw) ==
  IF ~Usable(h) THEN NoRequest(<<0>>)
  ELSE \E count \in Widened(words, raw) :
         LET start == RecordStart(record, raw, ShortMod)
             at == HandleToByteOffset(h)
             copied == Transferred(start, count)
             asked == Asked(words, raw, ShortMod)
             pad == IF copied < asked THEN asked - copied ELSE 0
         IN  /\ op' = [call |-> "record", at |-> at, words |-> words,
                       record |-> record, raw |-> raw]
             /\ reu' = Stored(Copied(reu, at, ImageAt(start), copied),
                              at + copied, [i \in 1 .. pad |-> Zero])
             /\ out' = <<copied>>
             /\ UNCHANGED <<page, halted>>

\* The bytes c128_read_runtime_file_range gets of a file whose drive delivers
\* `good` of its bytes before it fails.
Delivered(start, count, good) == Slice(SubSeq(File, 1, good), start, count)

\* vm_write_byte leaves the bytes behind the heap out.
InHeap(at, n) == IF Outside(at, n) THEN HeapBytes - at ELSE n

\* A record of a file: each byte, and each zero after them, by vm_write_byte.
FileRecord(h, words, record, raw, good) ==
  IF ~Usable(h) THEN NoRequest(<<0>>)
  ELSE LET n == Asked(words, raw, ShortMod)
           bytes == Delivered(RecordStart(record, raw, ShortMod), n, good)
           at == HandleToByteOffset(h)
       IN  /\ op' = [call |-> "file", at |-> at, bytes |-> bytes, n |-> n]
           /\ reu' = Stored(reu, at, Padded(bytes, InHeap(at, n)))
           /\ page' = Invalidated(page, at, n)
           /\ out' = <<Len(bytes)>>
           /\ UNCHANGED halted

\* READREC on a channel that is not open changes nothing.
NoChannel == NoRequest(<<0>>)

-----------------------------------------------------------------------------
\* The program copies no more than one transfer moves, as vectors are shorter.
Copy ==
  \/ \E src \in Handle, dst \in Handle, n \in Count :
       2 * n <= XferMax /\ VecCpyW(src, n, dst)
  \/ \E src \in Handle, dst \in Handle, n \in Count, i \in Index, j \in Index :
       n <= XferMax /\ VecCpyB(src, n, dst, i, j)

Access ==
  \/ \E h \in Handle, i \in Index :
       \/ VLoadW(h, i) \/ VLoadWImmediate(h, i) \/ VLoadB(h, i) \/ VLoadBImmediate(h, i)
       \/ \E w \in Word : VPutW(h, i, w) \/ VPutWImmediate(h, i, w)
       \/ \E b \in Byte : VPutB(h, i, b) \/ VPutBImmediate(h, i, b)
  \/ \E h \in Handle, n \in Count :
       \/ \E w \in Word : VFillW(h, n, w)
       \/ \E b \in Byte : VFillB(h, n, b)
       \/ 2 * n <= XferMax /\ ClearBlock(h, n)
  \/ Copy

Records ==
  \E h \in Handle, words \in Count, record \in Index, raw \in RecordWord :
    ImageRecord(h, words, record, raw)

FileRecords ==
  \/ NoChannel
  \/ \E h \in Handle, words \in Count, record \in Index, raw \in RecordWord :
       \E good \in 0 .. Len(File) : FileRecord(h, words, record, raw, good)

Next == ~halted /\ (Access \/ Records \/ FileRecords)

Spec == Init /\ [][Next]_vars

\* The rules for records of channel 1: the record is as long as memory behind
\* its handle, none of it is in the page that is cached, and the builds agree
\* on its length.  Where the int of 16 bits is negative, they do only if the
\* region ends within the record.
MayRead(h, words, record, raw) ==
  LET at == HandleToByteOffset(h)
      n == words * RecordSize(raw, ShortMod)
      IntMax == ShortMod \div 2 - 1
  IN /\ ~Outside(at, n) /\ ~Overlaps(page, at, n)
     /\ raw <= IntMax /\ n <= XferMax
     /\ n > IntMax => Available(RecordStart(record, raw, ShortMod)) <= n

ApartRecords ==
  \E h \in Handle, words \in Count, record \in Index, raw \in RecordWord :
    (Usable(h) => MayRead(h, words, record, raw)) /\ ImageRecord(h, words, record, raw)

DisciplinedNext == ~halted /\ (Access \/ ApartRecords \/ FileRecords)

DisciplinedSpec == Init /\ [][DisciplinedNext]_vars

-----------------------------------------------------------------------------
(* Properties.                                                              *)

\* What invalidate_heap_cache_range is for: a page in the cache is what the REU
\* holds at its place.
CachedPageTrue ==
  page.valid => \A i \in 0 .. PageBytes - 1 : page.bytes[i] = reu[page.base + i]

\* For such a program the C128 build serves every request as the POSIX build
\* does: the cache, the transfers, the pieces of a copy and the width of the
\* int do not show, and the image behind the heap stays what it was.
Heap(mem) == [x \in 0 .. HeapBytes - 1 |-> mem[x]]

Plain == INSTANCE Lp128PlainMemory WITH ram <- Heap(reu)

ImplementsPlainMemory == Plain!Spec
=============================================================================
