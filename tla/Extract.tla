------------------------------- MODULE Extract -------------------------------
(***************************************************************************)
(* EXTRACT (handle_ext37): finds a record or a field in the words of an    *)
(* aggregate, and copies it to another one.  Memory from the base handle   *)
(* on is a sequence of bytes; word w of it is at bytes 2 * w + 1 and       *)
(* 2 * w + 2.  What the code calls a payload byte is two bytes further on, *)
(* also where the words it counts from have no length word.                *)
(***************************************************************************)
EXTENDS Words, Sequences

WordOf(memory, w) == memory[2 * w + 1] + 256 * memory[2 * w + 2]

PayloadOf(memory, o) == memory[o + 3]

\* The memory as the handle w words further on sees it
From(memory, w) == SubSeq(memory, 2 * w + 1, Len(memory))

\* A span is kept in 16 bits.
Span(words) == Word(words)

Failed == [ok |-> FALSE]

\* try_measure_ext37_packed_field, at a payload byte and with words left
PackedField(memory, at, left) ==
  LET first == PayloadOf(memory, at)
      bytes == IF first >= 128 THEN 8 ELSE first + 1
      words == (bytes + 1) \div 2
  IN  IF left <= 0 \/ words > left THEN Failed
      ELSE [ok |-> TRUE, at |-> at, first |-> first, bytes |-> bytes,
            words |-> words, left |-> left - words]

\* The n packed fields that follow one another from a payload byte on
PackedFields(memory, start, left, n) ==
  LET field[i \in 1 .. n] ==
        IF i = 1 THEN PackedField(memory, start, left)
        ELSE IF ~field[i - 1].ok THEN Failed
        ELSE PackedField(memory, field[i - 1].at + 2 * field[i - 1].words,
                         field[i - 1].left)
  IN  field

\* The fields' words or bytes together
TotalOf(fields, part) ==
  LET total[i \in 0 .. Len(fields)] ==
        IF i = 0 THEN 0 ELSE total[i - 1] + fields[i][part]
  IN  total[Len(fields)]

\* try_measure_ext37_record, the payload of which try_measure_ext37_payload
\* measures.  A count of 0 stands for one field.
Record(memory, at, left) ==
  LET header == WordOf(memory, at)
      count  == header \div 256
      start  == 2 * at + 2
      fields == PackedFields(memory, start, left - 1, IF count = 0 THEN 1 ELSE count)
  IN  IF left <= 0 THEN Failed
      ELSE IF \E i \in DOMAIN fields : ~fields[i].ok THEN Failed
      ELSE [ok |-> TRUE, kind |-> "record", at |-> at, start |-> start,
            words |-> 1 + TotalOf(fields, "words"),
            bytes |-> TotalOf(fields, "bytes"),
            tag |-> header % 256, count |-> count]

\* try_measure_ext37_typed_field
TypedField(memory, at, left) ==
  LET header == WordOf(memory, at)
      tag    == header % 256
      count  == header \div 256
      words  == CASE header = 0             -> 1
                  [] header # 0 /\ tag = 0  -> WordOf(memory, at + 1)
                  [] tag # 0                -> 1 + count * ((tag + 1) \div 2)
      bytes  == CASE header = 0             -> 0
                  [] header # 0 /\ tag = 0  -> (words - 1) * 2
                  [] tag # 0                -> count * tag
  IN  IF left <= 0 \/ (header # 0 /\ tag = 0 /\ left < 2) THEN Failed
      ELSE IF words = 0 \/ words > left THEN Failed
      ELSE [ok |-> TRUE, kind |-> "typed", at |-> at, start |-> 2 * at,
            words |-> words, bytes |-> bytes, tag |-> tag, count |-> count]

----------------------------------------------------------------------------
(* The components of what was selected *)

\* try_resolve_ext37_subfield: the length is the byte of the length itself.
RecordComponent(memory, selection, n) ==
  LET fields == PackedFields(memory, selection.start, selection.words - 1, n)
  IN  IF n > selection.count \/ ~fields[n].ok THEN Failed
      ELSE [ok |-> TRUE, start |-> fields[n].at + 1, bytes |-> fields[n].first]

\* try_resolve_ext37_typed_subfield
TypedComponent(memory, selection, n) ==
  LET fields == PackedFields(memory, selection.start, selection.words - 2, n)
      each   == (selection.tag + 1) \div 2
  IN  IF n > selection.count THEN Failed
      ELSE IF selection.tag # 0
      THEN [ok |-> TRUE, start |-> selection.start + (n - 1) * each * 2,
            bytes |-> selection.tag]
      ELSE IF ~fields[n].ok THEN Failed
      ELSE [ok |-> TRUE, start |-> fields[n].at + 1, bytes |-> fields[n].bytes - 1]

Component(memory, selection, n) ==
  IF selection.kind = "typed" THEN TypedComponent(memory, selection, n)
                              ELSE RecordComponent(memory, selection, n)

----------------------------------------------------------------------------
(* The answer: what is pushed, and the bytes the destination's payload     *)
(* starts with afterwards, none if it is too small or there is none        *)

Answer(pushed, bytes) == [pushed |-> pushed, copied |-> bytes]

Nothing == Answer(FalseWord, <<>>)

\* can_write_ext37_destination; room is 0 where there is no destination.
HasRoom(room, count) == room >= count

\* Variant of CopyIf: the room of the destination is not looked at.
CopyAlways(memory, from, count, room) == SubSeq(memory, from + 1, from + count)

\* Bytes from a byte of the memory on
CopyIf(memory, from, count, room) ==
  IF HasRoom(room, count) THEN SubSeq(memory, from + 1, from + count) ELSE <<>>

AllZero(memory, from, count) ==
  \A i \in 1 .. count : memory[from + i] = 0

\* extract_ext37_selection with no mode: the whole selection.  A typed field
\* is copied with two bytes more than it is said to have.
Whole(memory, selection, guard, room) ==
  LET count == Span(selection.bytes)
      extra == IF selection.kind = "typed" THEN 2 ELSE 0
  IN  IF guard # FalseWord
           /\ AllZero(memory, selection.start + 2, selection.bytes)
      THEN Nothing
      ELSE Answer(count, CopyIf(memory, selection.start + 2, count + extra, room))

\* extract_ext37_selection with a mode: the count, or a component
Selected(memory, selection, guard, mode, room) ==
  LET component == Component(memory, selection, mode)
  IN  IF mode \in {0, 65535} THEN Answer(selection.count, <<>>)
      ELSE IF ~component.ok THEN Nothing
      ELSE IF selection.kind = "typed" /\ guard # FalseWord
                /\ AllZero(memory, component.start + 2, component.bytes)
      THEN Nothing
      ELSE Answer(component.bytes,
                  CopyIf(memory, component.start + 2, component.bytes, room))

\* compute_ext37_skip_offset: as many typed fields as can be measured
Skipped(memory, span, fields, start) ==
  LET at[i \in 0 .. fields] ==
        IF i = 0 THEN [words |-> start, more |-> TRUE]
        ELSE LET before == at[i - 1]
                 typed  == TypedField(memory, before.words, span - before.words)
             IN  IF before.more /\ typed.ok
                 THEN [words |-> before.words + typed.words, more |-> TRUE]
                 ELSE [words |-> before.words, more |-> FALSE]
  IN  Span(at[fields].words)

\* try_select_ext37_record, which is only called with no tag and no records
\* to skip.  An explicit offset does not shorten the span.
SelectRecord(memory, offset, span) ==
  Record(memory, IF offset = FalseWord THEN 0 ELSE offset, span)

\* The first field of the memory, where there is no offset and no mode
Leading(memory, room) ==
  LET length == WordOf(memory, 0) % 256
  IN  IF length = 0 THEN Nothing
      ELSE Answer(length, CopyIf(memory, 2, length, room))

\* The same with a guard: as many bytes as the guard says
Guarded(memory, guard, room) ==
  IF AllZero(memory, 0, guard) THEN Nothing
  ELSE Answer(guard, CopyIf(memory, 0, guard, room))

\* handle_ext37.  The call is a record of what was popped, where handles are
\* gone: the memory is the base's, and room the length word of a usable
\* destination or 0.  The typed field that the code falls back on is never
\* found where there is an offset.
ExtractFrom(memory, call) ==
  LET F      == FalseWord
      skip   == IF call.skip # F
                THEN Skipped(memory, call.span, call.tag, call.skip)
                ELSE call.tag
      base   == From(memory, skip)
      span   == Span(call.span - skip)
      record == SelectRecord(base, call.offset, span)
      taken  == IF record.ok \/ call.offset # F THEN record
                                                ELSE TypedField(base, 0, span)
  IN  CASE call.offset # F \/ call.mode # F ->
             IF ~taken.ok THEN Nothing
             ELSE IF call.mode = F THEN Whole(base, taken, call.guard, call.room)
             ELSE Selected(base, taken, call.guard, call.mode, call.room)
        [] call.offset = F /\ call.mode = F /\ call.guard # F ->
             Guarded(base, call.guard, call.room)
        [] call.offset = F /\ call.mode = F /\ call.guard = F ->
             Leading(base, call.room)
==============================================================================
