-------------------------- MODULE ProcedureHeaders --------------------------
(***************************************************************************)
(* The header in front of a procedure's code: how Chisel writes it, and    *)
(* how the two C runtimes read it.  A header is the byte of the locals,    *)
(* then one record for every local that does not start as FALSE.           *)
(*                                                                         *)
(* Code is a sequence of bytes and an offset counts from 0, as in the      *)
(* source, so the byte at offset o is code[o + 1].                         *)
(***************************************************************************)
EXTENDS Integers, SequencesExt

CONSTANT MaxInitializers \* LPST_MAX_INITIALIZERS_PER_PROC

ByteAt(code, o) == code[o + 1]

LE16(low, high) == low + 256 * high

----------------------------------------------------------------------------
(* Chisel: EncodeProcedureHeader *)

(* Variant of ByteSized: the byte is taken for an unsigned one *)
ByteSizedUnsigned(value) == value < 256

(* ShouldEncodeInitializerAsByte: the word is a sign-extended byte *)
ByteSized(value) == value < 128 \/ value >= 65408

EncodeInitializer(init, last) ==
  LET marker == (init.local % 64) + (IF last THEN 128 ELSE 0)
  IN  IF ByteSized(init.value)
      THEN <<marker + 64, init.value % 256>>
      ELSE <<marker, init.value % 256, init.value \div 256>>

EncodeHeader(locals, inits) ==
  << (locals % 128) + (IF inits = <<>> THEN 0 ELSE 128) >>
    \o FlattenSeq([i \in DOMAIN inits |->
                     EncodeInitializer(inits[i], i = Len(inits))])

----------------------------------------------------------------------------
(* LinchpinST: parse_procedure_header, and parse_private_header, which     *)
(* reads the same records from the code file while the program runs        *)

SignExtended(byte) == IF byte < 128 THEN byte ELSE byte + 65280

(* One record at cursor c, its size with it *)
InitializerAt(code, c) ==
  LET marker == ByteAt(code, c)
      short  == (marker \div 64) % 2 = 1
  IN  [local |-> marker % 64,
       value |-> IF short THEN SignExtended(ByteAt(code, c + 1))
                          ELSE LE16(ByteAt(code, c + 1), ByteAt(code, c + 2)),
       last  |-> marker >= 128]

RecordSize(code, c) == IF (ByteAt(code, c) \div 64) % 2 = 1 THEN 2 ELSE 3

Truncated == [ok |-> FALSE]

(* The records from cursor c on, none of which may pass the limit *)
InitializersFrom(code, limit, from) ==
  LET read[c \in 0..limit] ==
        IF c >= limit THEN Truncated
        ELSE IF c + RecordSize(code, c) > limit THEN Truncated
        ELSE LET record == InitializerAt(code, c)
                 next   == c + RecordSize(code, c)
                 first  == <<[local |-> record.local, value |-> record.value]>>
             IN  IF record.last
                 THEN [ok |-> TRUE, inits |-> first, end |-> next]
                 ELSE IF ~read[next].ok THEN Truncated
                 ELSE [read[next] EXCEPT !.inits = first \o @]
  IN  read[from]

(* Records past the sixty-fourth are read and dropped, and the size of the *)
(* header is kept in a byte                                                *)
HeaderAt(code, limit, start) ==
  IF start >= limit THEN Truncated
  ELSE LET intro == ByteAt(code, start)
           tail  == IF intro >= 128
                    THEN InitializersFrom(code, limit, start + 1)
                    ELSE [ok |-> TRUE, inits |-> <<>>, end |-> start + 1]
       IN  IF ~tail.ok THEN Truncated
           ELSE [ok     |-> TRUE,
                 locals |-> intro % 128,
                 inits  |-> SubSeq(tail.inits, 1, Min({Len(tail.inits), MaxInitializers})),
                 size   |-> (tail.end - start) % 256]

----------------------------------------------------------------------------
(* Linchpin128: parse_private_header, a count and then whole records, of   *)
(* which four are kept                                                     *)
CompactHeaderAt(code, start) ==
  LET intro == ByteAt(code, start)
      count == IF intro >= 128 THEN ByteAt(code, start + 1) ELSE 0
      from  == start + (IF intro >= 128 THEN 2 ELSE 1)
      kept  == IF count > 4 THEN 4 ELSE count
  IN  [locals |-> intro % 128,
       inits  |-> [i \in 1..kept |->
                    [local |-> ByteAt(code, from + 3 * (i - 1)),
                     value |-> LE16(ByteAt(code, from + 3 * (i - 1) + 1),
                                    ByteAt(code, from + 3 * (i - 1) + 2))]],
       size   |-> (from + 3 * count) - start]
=============================================================================
