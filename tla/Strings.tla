------------------------------- MODULE Strings -------------------------------
(***************************************************************************)
(* The instructions that compare and unpack the bytes of strings and sort  *)
(* keys.  A string is the sequence of its payload bytes, and an offset     *)
(* into it counts from 0, as in the source.                                *)
(***************************************************************************)
EXTENDS Words, SequencesExt

PayloadAt(string, o) == string[o + 1]

Fold(byte) == IF byte \in 97 .. 122 THEN byte - 32 ELSE byte

----------------------------------------------------------------------------
(* Comparison that ignores case.  The two runtimes agree on the sign: 1 if *)
(* the first string is the lower, and -1 if it is the higher.              *)

\* compare_vm_strings_ignore_case: both strings a byte at a time, until one
\* of them ends
LpstCompareIgnoringCase(first, offset, firstLength, second, secondLength) ==
  LET a(i)        == Fold(PayloadAt(first, offset + i))
      b(i)        == Fold(PayloadAt(second, i))
      inFirst(i)  == i < firstLength
      inSecond(i) == i < secondLength
      from[i \in 0 .. firstLength] ==
        IF ~inFirst(i) /\ ~inSecond(i) THEN 0
        ELSE IF ~inSecond(i) THEN -1
        ELSE IF ~inFirst(i) THEN 1
        ELSE IF a(i) = b(i) THEN from[i + 1]
        ELSE IF a(i) < b(i) THEN 1 ELSE -1
  IN  from[0]

\* STRCMPI: the bytes that both have, then the lengths
Lp128CompareIgnoringCase(first, offset, firstLength, second, secondLength) ==
  LET common == Min({firstLength, secondLength})
      a(i)   == Fold(PayloadAt(first, offset + i))
      b(i)   == Fold(PayloadAt(second, i))
      apart  == {i \in 0 .. common - 1 : a(i) # b(i)}
  IN  CASE apart # {}                            ->
             IF a(Min(apart)) < b(Min(apart)) THEN 1 ELSE -1
        [] apart = {} /\ firstLength < secondLength -> 1
        [] apart = {} /\ firstLength > secondLength -> -1
        [] apart = {} /\ firstLength = secondLength -> 0

----------------------------------------------------------------------------
(* MEMCMP, the same in both runtimes *)

CompareBytes(first, second, count) ==
  LET apart == {i \in 0 .. count - 1 : PayloadAt(first, i) # PayloadAt(second, i)}
  IN  CASE apart = {} -> 0
        [] apart # {} ->
             IF PayloadAt(first, Min(apart)) < PayloadAt(second, Min(apart))
             THEN 1 ELSE -1

----------------------------------------------------------------------------
(* KEYCMP.  A key is a sequence of bytes that starts with the two of its   *)
(* length word, so payload byte o is key[o + 3].  The second of them is    *)
(* the number of bytes of the fields, which start at payload byte 4, and   *)
(* every field is its length and its bytes.                                *)

KeyByte(key, o) == key[o + 3]

Flags(key) == KeyByte(key, -2)

Structured(key) == (Flags(key) \div 64) % 2 = 1

Combined(key) == 256 * (KeyByte(key, 3) % 64) + KeyByte(key, 2)

\* What decides between two keys with the same fields
TieBreak(first, second) ==
  CASE ~Structured(first)                                -> 0
    [] Structured(first) /\ Combined(first) < Combined(second) -> -1
    [] Structured(first) /\ Combined(first) > Combined(second) -> 1
    [] Structured(first) /\ Combined(first) = Combined(second) ->
         IF Flags(first) % 64 < Flags(second) % 64 THEN -1 ELSE 1

\* Variant of CompareFields: the shorter field comes first in any case.
CompareLengthsFirst(first, second, at) ==
  KeyByte(first, at) - KeyByte(second, at)

\* The fields at payload byte at: the bytes that both have, then the lengths
CompareFields(first, second, at) ==
  LET m      == KeyByte(first, at)
      n      == KeyByte(second, at)
      apart  == {i \in 1 .. Min({m, n}) :
                   KeyByte(first, at + i) # KeyByte(second, at + i)}
  IN  IF apart # {}
      THEN KeyByte(first, at + Min(apart)) - KeyByte(second, at + Min(apart))
      ELSE m - n

\* compare_vm_strings: how many bytes are left is counted down for each key.
\* In well-formed keys no field is longer than what is left.
CompareKeys(first, second) ==
  LET at(left)     == 4 + KeyByte(first, -1) - left
      right(left)  == KeyByte(second, -1) - (KeyByte(first, -1) - left)
      fields(left) == CompareFields(first, second, at(left))
      size(left)   == KeyByte(first, at(left)) + 1
      from[left \in 0 .. KeyByte(first, -1)] ==
        IF left = 0 /\ right(left) = 0 THEN TieBreak(first, second)
        ELSE IF left = 0 THEN -1
        ELSE IF right(left) = 0 THEN 1
        ELSE IF fields(left) < 0 THEN -1
        ELSE IF fields(left) = 0 /\ size(left) <= left THEN from[left - size(left)]
        ELSE 1
  IN  from[KeyByte(first, -1)]

----------------------------------------------------------------------------
(* UNPACK, the same in both runtimes: three symbols of five bits in every  *)
(* word; in a word with bit 15 the third gets bit 7, and no word follows   *)

\* Variant of Symbols: the low bits are the first symbol.
SymbolsBackwards(word) == <<word % 32, (word \div 32) % 32, (word \div 1024) % 32>>

Symbols(word) == <<(word \div 1024) % 32, (word \div 32) % 32, word % 32>>

Stops(word) == word >= 32768

\* The bytes of the destination from its offset on, and what is pushed
Unpacked(words, count, offset) ==
  LET last  == {i \in 1 .. count : Stops(words[i])}
      upto  == IF last = {} THEN count ELSE Min(last)
      plain == FlattenSeq([i \in 1 .. upto |-> Symbols(words[i])])
  IN  IF last = {}
      THEN [bytes |-> plain, pushed |-> (offset + Len(plain)) % W]
      ELSE [bytes  |-> [plain EXCEPT ![Len(plain)] = @ + 128],
            pushed |-> FalseWord]
==============================================================================
