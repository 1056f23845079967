------------------------------ MODULE Operators ------------------------------
(***************************************************************************)
(* The instructions that only compute, each executed by itself: a step     *)
(* presents one with its operands, and the next takes it away.  What the   *)
(* instructions answer is defined in the modules this one extends, for     *)
(* LinchpinST, for Linchpin128, and for Chisel, which writes what they     *)
(* read; the properties relate the answers.                                *)
(***************************************************************************)
EXTENDS Jumps, BitFields, Strings, Extract, ProcedureHeaders

CONSTANTS
  SampleWords,                 \* operands of arithmetic and conditions
  Starts, Displacements,       \* of jumps
  FieldWords, FieldControls,   \* words as sets of bits, and control words
  Texts, Keys,                 \* strings, and well-formed sort keys
  Messages,                    \* texts of 5-bit symbols, in whole words
  Headers,                     \* records [locals, inits] of a procedure
  Records                      \* records [prefix, tag, fields, room, guard]

ASSUME OperatorsAssumption ==
  /\ SampleWords \subseteq 0 .. W - 1
  /\ Starts \subseteq 0 .. W - 1 /\ Displacements \subseteq Int
  /\ FieldWords \subseteq SUBSET Bits
  /\ FieldControls \subseteq {c \in Controls : c.local \in {0, 1}}
  /\ Texts \subseteq Seq(0 .. 255)
  /\ Keys \subseteq [flags : 0 .. 255, combined : 0 .. 16383, fields : Seq(Seq(0 .. 255))]
  /\ Messages \subseteq {t \in Seq(0 .. 31) : t # <<>> /\ Len(t) % 3 = 0}
(* Chisel takes up to 127 locals and initial values for the first 64 of    *)
(* them, here at most one for each.                                        *)
ASSUME HeadersAssumption ==
  Headers \subseteq [locals : 0 .. 127,
                     inits : {s \in Seq([local : 0 .. 63, value : 0 .. W - 1]) : Len(s) <= 64}]

VARIABLE asked \* the instruction and its operands

None == [kind |-> "none"]

OperatorsInit == asked = None

Present(instruction) == asked = None /\ asked' = instruction

\* C does not define a shift by more than the width of an int.
Compute ==
  \E op \in Operations, a, b \in SampleWords :
    /\ op \in {"ASHIFT", "SHIFT"} => Signed(b) \in -31 .. 31
    /\ Present([kind |-> "compute", op |-> op, a |-> a, b |-> b])

Jump ==
  \E style \in Styles, start \in Starts, displacement \in Displacements :
    LET target == start + 2 + displacement
    IN  /\ target \in 0 .. W - 1
        /\ Encodable(style, start, target)
        /\ Present([kind |-> "jump", style |-> style, start |-> start,
                    target |-> target])

Branch ==
  \E top, below \in SampleWords :
    Present([kind |-> "branch", top |-> top, below |-> below])

AccessField ==
  \E word, value \in FieldWords, c \in FieldControls,
     form \in {"local", "stack"}, handle \in Handles :
    Present([kind |-> "field", word |-> word, value |-> value, c |-> c,
             form |-> form, handle |-> handle])

\* A part of the first string is compared with the whole of the second.
Compare ==
  \E first, second \in Texts : \E offset \in 0 .. Len(first) :
    Present([kind |-> "compare", first |-> first, offset |-> offset,
             second |-> second])

CompareSortKeys ==
  \E first, second \in Keys :
    Present([kind |-> "keys", first |-> first, second |-> second])

Unpack ==
  \E text \in Messages : \E cut \in 0 .. Len(text) \div 3 - 1, offset \in {0, 65535} :
    Present([kind |-> "unpack", text |-> text, cut |-> cut, offset |-> offset])

Enter == \E header \in Headers : Present([kind |-> "header", header |-> header])

ExtractItem ==
  \E r \in Records, mode \in {0, 1, 2, 3, 65535, FalseWord} :
    Present([kind |-> "extract", record |-> r, mode |-> mode])

TakeAway == asked # None /\ asked' = None

OperatorsNext ==
  \/ Compute \/ Jump \/ Branch \/ AccessField \/ Compare \/ CompareSortKeys
  \/ Unpack \/ Enter \/ ExtractItem \/ TakeAway

OperatorsSpec == OperatorsInit /\ [][OperatorsNext]_asked

----------------------------------------------------------------------------
(* The two runtimes compute the same but for a remainder below 0, which    *)
(* only LinchpinST corrects, and an arithmetic shift of a negative word to *)
(* the right, where only LinchpinST keeps the sign.  With a divisor above  *)
(* 0 the modulus of LinchpinST is that of mathematics; with one below 0 it *)
(* is congruent to the dividend until the correction leaves 16 bits.       *)
ArithmeticAgrees ==
  asked.kind = "compute" =>
    LET a == Signed(asked.a)
        b == Signed(asked.b)
        adjusted == asked.op = "MOD" /\ b # 0 /\ Remainder(a, b) < 0
        negative == asked.op = "ASHIFT" /\ a < 0 /\ b < 0
    IN  /\ LpstResult(asked.op, asked.a, asked.b) = Lp128Result(asked.op, asked.a, asked.b)
             <=> ~adjusted /\ ~negative
        /\ b > 0 => LpstModulus(asked.a, asked.b) = a % b
        /\ -16384 <= b /\ b < 0 =>
             (Signed(LpstModulus(asked.a, asked.b)) - a) % (-b) = 0

(* A jump that Chisel writes lands on its target, whichever form Chisel    *)
(* chose and whatever bytes follow it.                                     *)
JumpsLand ==
  asked.kind = "jump" =>
    \A following \in {<<0, 0>>, <<255, 1>>} :
      LET bytes == Selector(asked.style, asked.start, asked.target) \o following
      IN  /\ LpstTarget(bytes, asked.start) = asked.target
          /\ Lp128Target(bytes, asked.start) = asked.target

(* Of two opposite conditions one is met, and of JUMPL, JUMPEQ and JUMPG   *)
(* one; the conditions on one word are those on two with 0 below it.       *)
BranchesDecided ==
  asked.kind = "branch" =>
    LET met(c) == LpstTaken(c, asked.top, asked.below)
        zero(c) == LpstTaken(c, asked.top, 0)
    IN  /\ \A c \in Conditions : met(c) = Lp128Taken(c, asked.top, asked.below)
        /\ \A pair \in {<<"JUMPZ", "JUMPNZ">>, <<"JUMPF", "JUMPNF">>,
                        <<"JUMPGZ", "JUMPLEZ">>, <<"JUMPLZ", "JUMPGEZ">>,
                        <<"JUMPL", "JUMPGE">>, <<"JUMPLE", "JUMPG">>,
                        <<"JUMPEQ", "JUMPNE">>} : met(pair[1]) # met(pair[2])
        /\ met("JUMPLE") <=> met("JUMPL") \/ met("JUMPEQ")
        /\ ~(met("JUMPL") /\ met("JUMPEQ")) /\ ~(met("JUMPG") /\ met("JUMPEQ"))
        /\ \A pair \in {<<"JUMPZ", "JUMPEQ">>, <<"JUMPGZ", "JUMPG">>,
                        <<"JUMPLZ", "JUMPL">>} : zero(pair[1]) = zero(pair[2])

(* What is stored in a field is what is loaded from it, if the word holds  *)
(* the whole field, and no other bit of the aggregate changes; a single    *)
(* bit is a field of width 1.  The stores of the runtimes agree on usable  *)
(* handles, their loads where shift and word index are 0.  The first 32    *)
(* words stand for all 256.                                                *)
FieldsKeep ==
  asked.kind = "field" =>
    LET c      == asked.c
        form   == asked.form
        at     == WordIndex(c, form)
        agg    == [i \in 0 .. 31 |-> IF i = at THEN asked.word ELSE {0, i % 16}]
        stored == LpstStore(agg, c, form, asked.value)
        field  == Bits \cap (c.shift .. c.shift + c.width - 1)
        bit    == [c EXCEPT !.width = 1]
    IN  /\ c.shift + c.width <= 16 =>
             LpstLoad(stored, c, form) = asked.value \cap Mask(c.width)
        /\ \A i \in 0 .. 31 : i # at => stored[i] = agg[i]
        /\ stored[at] \ field = agg[at] \ field
        /\ LpstStore(agg, c, form, LpstLoad(agg, c, form)) = agg
        /\ LpstSetBit(agg, c, form)
             = LpstStore(agg, bit, form, IF c.width % 2 = 1 THEN {0} ELSE {})
        /\ asked.handle = "usable" =>
             /\ Lp128Store(agg, c, form, asked.handle, asked.value) = stored
             /\ Lp128SetBit(agg, c, form, asked.handle) = LpstSetBit(agg, c, form)
             /\ c.shift = 0 /\ at = 0 =>
                  Lp128Load(agg, c, asked.handle) = LpstLoad(agg, c, form)
             /\ Lp128LoadPops(form, asked.handle) = IF form = "stack" THEN 1 ELSE 0

----------------------------------------------------------------------------
(* Strings and keys *)

\* The order of a dictionary on sequences, for an order on their members
Before(s, t, below(_, _)) ==
  \E i \in 1 .. Len(t) :
    /\ i <= Len(s) + 1
    /\ \A j \in 1 .. i - 1 : s[j] = t[j]
    /\ i = Len(s) + 1 \/ below(s[i], t[i])

BytesBefore(s, t) == Before(s, t, <)

Folded(s) == [i \in DOMAIN s |-> Fold(s[i])]

\* The bytes of a key [flags, combined, fields], its length word first
KeyBytes(key) ==
  LET fields == FlattenSeq([i \in DOMAIN key.fields |->
                              <<Len(key.fields[i])>> \o key.fields[i]])
  IN  <<key.flags, Len(fields), 0, 0,
        key.combined % 256, key.combined \div 256>> \o fields

(* Without regard to case the runtimes order strings alike, as a           *)
(* dictionary does, and MEMCMP orders the folded bytes the same way.  Two  *)
(* sort keys are ordered by their fields, the fields by their bytes; with  *)
(* equal fields the combined word and then the flags decide, and only if   *)
(* the first key is structured.                                            *)
StringsOrdered ==
  /\ asked.kind = "compare" =>
       LET n    == Len(asked.first) - asked.offset
           part == SubSeq(asked.first, asked.offset + 1, Len(asked.first))
           a    == Folded(part)
           b    == Folded(asked.second)
           sign == LpstCompareIgnoringCase(asked.first, asked.offset, n,
                                           asked.second, Len(asked.second))
       IN  /\ (sign = 1) <=> BytesBefore(a, b)
           /\ (sign = -1) <=> BytesBefore(b, a)
           /\ sign = Lp128CompareIgnoringCase(asked.first, asked.offset, n,
                                              asked.second, Len(asked.second))
           /\ Len(a) = Len(b) => sign = CompareBytes(a, b, Len(a))
  /\ asked.kind = "keys" =>
       LET a    == asked.first
           b    == asked.second
           sign == CompareKeys(KeyBytes(a), KeyBytes(b))
           tie  == << <<a.combined, a.flags % 64>>, <<b.combined, b.flags % 64>> >>
       IN  IF a.fields # b.fields
           THEN sign = IF Before(a.fields, b.fields, BytesBefore) THEN -1 ELSE 1
           ELSE sign = IF a.flags \notin 64 .. 127 \cup 192 .. 255 THEN 0
                       ELSE IF BytesBefore(tie[1], tie[2]) THEN -1 ELSE 1

\* Three symbols in a word, bit 15 in the last
Packed(text) ==
  [i \in 1 .. Len(text) \div 3 |->
     1024 * text[3 * i - 2] + 32 * text[3 * i - 1] + text[3 * i]
       + IF 3 * i = Len(text) THEN 32768 ELSE 0]

(* A packed text comes out as it went in, with bit 7 on its last symbol,   *)
(* also if it is unpacked in two parts, the second of which starts at the  *)
(* offset that the first pushed.                                           *)
TextUnpacks ==
  asked.kind = "unpack" =>
    LET words == Packed(asked.text)
        whole == Unpacked(words, Len(words), asked.offset)
        part  == Unpacked(words, asked.cut, asked.offset)
        rest  == Unpacked(SubSeq(words, asked.cut + 1, Len(words)),
                          Len(words) - asked.cut, part.pushed)
    IN  /\ whole.bytes = [asked.text EXCEPT ![Len(asked.text)] = @ + 128]
        /\ whole.pushed = FalseWord /\ rest.pushed = FalseWord
        /\ part.bytes \o rest.bytes = whole.bytes
        /\ part.pushed = Word(asked.offset + 3 * asked.cut)

(* LinchpinST reads a header that Chisel wrote as it was written, and code *)
(* starts behind it; Linchpin128 does so for the private headers that      *)
(* initialize nothing, and takes no other for one of the same size and     *)
(* initializers.                                                           *)
HeadersRead ==
  asked.kind = "header" =>
    LET h     == asked.header
        bytes == EncodeHeader(h.locals, h.inits)
        code  == bytes \o [i \in 1 .. 12 |-> 0]
        lpst  == HeaderAt(code, Len(bytes), 0)
        lp128 == CompactHeaderAt(code, 0)
    IN  /\ lpst.ok /\ lpst.locals = h.locals
        /\ lpst.inits = SubSeq(h.inits, 1, Min({Len(h.inits), MaxInitializers}))
        /\ lpst.size = Len(bytes)
        /\ (lp128.size = lpst.size /\ lp128.inits = h.inits) <=> h.inits = <<>>

----------------------------------------------------------------------------
(* EXTRACT *)

\* The bytes of a typed field of components that are all of one size, and
\* of a record with the word that the code leaves out behind its header
TypedBytes(components) ==
  LET size == Len(components[1])
  IN  <<size, Len(components)>>
        \o FlattenSeq([i \in DOMAIN components |->
             components[i] \o (IF size % 2 = 1 THEN <<0>> ELSE <<>>)])

FieldBytes(text) ==
  <<Len(text)>> \o text \o (IF Len(text) % 2 = 0 THEN <<0>> ELSE <<>>)

RecordFields(r) == FlattenSeq([i \in DOMAIN r.fields |-> FieldBytes(r.fields[i])])

PrefixBytes(r) == FlattenSeq([i \in DOMAIN r.prefix |-> TypedBytes(r.prefix[i])])

(* The sizes and numbers of components and of fields are bytes, and bit 7  *)
(* of the length of a field means something else; the span of them all is  *)
(* a word.                                                                 *)
ASSUME RecordsAssumption ==
  \A r \in Records :
    /\ r.prefix \in Seq(Seq(Seq(0 .. 255))) /\ r.fields \in Seq(Seq(0 .. 255))
    /\ \A i \in DOMAIN r.prefix :
         /\ Len(r.prefix[i]) \in 1 .. 255 /\ Len(r.prefix[i][1]) \in 1 .. 255
         /\ \A j \in DOMAIN r.prefix[i] : Len(r.prefix[i][j]) = Len(r.prefix[i][1])
    /\ Len(r.fields) \in 1 .. 255
    /\ \A i \in DOMAIN r.fields : Len(r.fields[i]) <= 127
    /\ r.tag \in 0 .. 255 /\ r.room \in 0 .. W - 1 /\ r.guard \in 0 .. W - 1
    /\ Len(PrefixBytes(r)) + Len(RecordFields(r)) < 2 * (W - 1)

\* The record behind its typed fields, and the call that skips these
MemoryOf(r) ==
  PrefixBytes(r) \o <<r.tag, Len(r.fields), 0, 0>> \o RecordFields(r)
    \o [i \in 1 .. 40 |-> 0]

CallOf(r, mode) ==
  [span |-> (Len(PrefixBytes(r)) + Len(RecordFields(r))) \div 2 + 1,
   tag |-> Len(r.prefix), skip |-> 0, offset |-> FalseWord,
   guard |-> r.guard, mode |-> mode, room |-> r.room]

(* Behind the typed fields that are skipped, EXTRACT finds the record, and *)
(* in it the number of its fields, any one of them, and no other; what it  *)
(* copies fits in the destination.                                         *)
ExtractsFields ==
  asked.kind = "extract" =>
    LET r      == asked.record
        answer == ExtractFrom(MemoryOf(r), CallOf(r, asked.mode))
        found(text) == answer = Answer(Len(text), IF Len(text) <= r.room
                                                  THEN text ELSE <<>>)
    IN  /\ Len(answer.copied) <= r.room
        /\ asked.mode \in {0, 65535} => answer = Answer(Len(r.fields), <<>>)
        /\ asked.mode \in DOMAIN r.fields => found(r.fields[asked.mode])
        /\ asked.mode \in Len(r.fields) + 1 .. 3 => answer = Nothing
==============================================================================
