--------------------------- MODULE Lp128Addresses ---------------------------
(***************************************************************************)
(* The heap addresses of Linchpin128 and the operands that its bytecode    *)
(* names them with (lp128_run.c).  Both builds share this code: only the   *)
(* functions that touch the heap itself differ (Lp128PlainMemory,          *)
(* Lp128Memory).                                                           *)
(***************************************************************************)
EXTENDS Integers, Sequences

CONSTANTS
  ShortMod,       \* 2^16: uint16_t, and the int of llvm-mos
  LongMod,        \* 2^32: uint32_t, and the int of the POSIX build
  SegmentBytes,   \* LP128_SEGMENT_SIZE
  Byte, Zero,     \* what a byte may hold
  Code, RoData,   \* the bytes of the code pages and of the read-only data
  DefaultRecord,  \* the record size when slot 0xCC is 0: 256
  WordLimit       \* a record size below this counts words: 0x80

ASSUME WidthAssumption ==
  /\ ShortMod \in Nat \ {0} /\ ShortMod % 2 = 0
  /\ LongMod \in Nat \ {0} /\ LongMod % ShortMod = 0

ASSUME AddressAssumption ==
  /\ SegmentBytes \in Nat \ {0} /\ SegmentBytes % 2 = 0
  /\ Zero \in Byte
  /\ Code \in Seq(Byte) /\ RoData \in Seq(Byte)
  /\ DefaultRecord \in Nat \ {0, 1} /\ WordLimit \in Nat \ {0, 1}

HeapBytes == 2 * SegmentBytes   \* LP128_FULL_RAM_BYTES

\* handle_to_byte_offset: the top bit is the segment, the rest a word number.
HandleToByteOffset(h) ==
  IF h >= SegmentBytes \div 2 THEN SegmentBytes + 2 * (h - SegmentBytes \div 2)
                              ELSE 2 * h

\* LP128_FALSE_SENTINEL, 0x8001
False == SegmentBytes \div 2 + 1

\* is_usable_handle
Usable(h) == h # 0 /\ h # False

\* Word i of an aggregate, and byte i after its first word.
WordAt(h, i) == HandleToByteOffset(h) + 2 * i
PayloadAt(h, i) == HandleToByteOffset(h) + 2 + i

\* Word indexes on the stack count from 1, except for handle 0.
Resolved(h, i) == IF Usable(h) /\ i > 0 THEN i - 1 ELSE i

\* A number converted to a signed type of `mod` values.
Signed(x, mod) == ((x + mod \div 2) % mod) - mod \div 2

-----------------------------------------------------------------------------
(* READREC.  `int` is the number of values of the build's int: only there   *)
(* do the builds differ before they touch the heap.                         *)

\* rec_size, from slot 0xCC
RecordSize(raw, int) ==
  IF raw = 0 THEN DefaultRecord ELSE IF raw < WordLimit THEN 2 * raw ELSE Signed(raw, int)

\* src_off
RecordStart(record, raw, int) == (record * RecordSize(raw, int)) % LongMod

\* byte_count.  A product that is too large for the int wraps; the standard
\* leaves it open.
ByteCount(words, raw, int) == Signed(words * RecordSize(raw, int), int)

\* (uint16_t)byte_count
Asked(words, raw, int) == ByteCount(words, raw, int) % ShortMod

\* avail: what the region of the image that `start` lies in has from there on.
Available(start) ==
  IF start < Len(Code) THEN Len(Code) - start
  ELSE IF start < Len(Code) + Len(RoData) THEN Len(Code) + Len(RoData) - start ELSE 0

\* to_copy, from (uint32_t)byte_count.
Transferred(start, count) ==
  (IF count < Available(start) THEN count ELSE Available(start)) % ShortMod

\* The part of `bytes` from `start` on, count bytes of it at most.
Slice(bytes, start, count) ==
  IF start >= Len(bytes) THEN <<>>
  ELSE SubSeq(bytes, start + 1,
              IF start + count < Len(bytes) THEN start + count ELSE Len(bytes))

\* The bytes of channel 1: the code pages, then the read-only data.  A read
\* that starts in the code pages ends with them.
ImageBytes(start, count) ==
  IF start >= Len(Code) THEN Slice(RoData, start - Len(Code), count)
                        ELSE Slice(Code, start, count)

\* A block of count bytes that starts with `bytes` and is zero after them.
Padded(bytes, count) ==
  [i \in 1 .. count |-> IF i \in DOMAIN bytes THEN bytes[i] ELSE Zero]

\* Memory `mem` after `bytes` are written at `at`.
Stored(mem, at, bytes) ==
  [x \in DOMAIN mem |-> IF x - at + 1 \in DOMAIN bytes THEN bytes[x - at + 1] ELSE mem[x]]

\* The bytes a fill of n cells writes at `at`: cells that cross the end of the
\* heap are left out.
Filled(mem, at, n, cell) ==
  [x \in DOMAIN mem |->
     LET k == (x - at) \div Len(cell) IN
       IF x >= at /\ k < n /\ at + (k + 1) * Len(cell) <= HeapBytes
         THEN cell[((x - at) % Len(cell)) + 1] ELSE mem[x]]
=============================================================================
