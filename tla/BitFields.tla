------------------------------ MODULE BitFields ------------------------------
(***************************************************************************)
(* The instructions that read and write a part of a word of an aggregate.  *)
(* A word is the set of the bits that are 1; a control word is a record of *)
(* its four nibbles: shift, width, local and index.  The forms that take   *)
(* the handle from a local name one of 16 words by the nibble index; the   *)
(* forms that take it from the stack name one of 256 words by the byte.    *)
(***************************************************************************)
EXTENDS Integers

Bits == 0 .. 15

Nibbles == 0 .. 15

Controls == [shift : Nibbles, width : Nibbles, local : Nibbles, index : Nibbles]

\* An aggregate as these instructions reach it
Aggregates == [0 .. 255 -> SUBSET Bits]

ShiftedLeft(word, count) == {b + count : b \in word} \cap Bits

ShiftedRight(word, count) == {b - count : b \in word} \cap Bits

Mask(width) == 0 .. width - 1

WordIndex(c, form) == IF form = "local" THEN c.index ELSE 16 * c.local + c.index

Extracted(word, c) == ShiftedRight(word, c.shift) \cap Mask(c.width)

\* Variant of Replaced: the mask is not moved to where the field is.
ReplacedUnshifted(word, c, value) ==
  (word \ Mask(c.width))
    \cup ShiftedLeft(value \cap Mask(c.width), c.shift)

Replaced(word, c, value) ==
  (word \ ShiftedLeft(Mask(c.width), c.shift))
    \cup ShiftedLeft(value \cap Mask(c.width), c.shift)

\* The single bit takes its value from the low bit of the width.
BitSet(word, c) ==
  IF c.width % 2 = 1 THEN word \cup {c.shift} ELSE word \ {c.shift}

----------------------------------------------------------------------------
(* LinchpinST *)

LpstLoad(agg, c, form) == Extracted(agg[WordIndex(c, form)], c)

LpstStore(agg, c, form, value) ==
  [agg EXCEPT ![WordIndex(c, form)] = Replaced(@, c, value)]

LpstSetBit(agg, c, form) == [agg EXCEPT ![WordIndex(c, form)] = BitSet(@, c)]

----------------------------------------------------------------------------
(* Linchpin128: the stores leave a handle alone that is 0 or FALSE.  The   *)
(* loads take the low nibble for the first bit of the field, always read   *)
(* word 0, and pop a second value when the stack's handle is FALSE.        *)

Handles == {"usable", "zero", "false"}

Lp128Load(agg, c, handle) ==
  IF handle = "false" THEN {}
  ELSE ShiftedRight(agg[0], c.index) \cap Mask(c.width)

Lp128LoadPops(form, handle) ==
  CASE form = "local"                       -> 0
    [] form = "stack" /\ handle = "false"   -> 2
    [] form = "stack" /\ handle # "false"   -> 1

Lp128Store(agg, c, form, handle, value) ==
  IF handle # "usable" THEN agg
  ELSE [agg EXCEPT ![WordIndex(c, form)] = Replaced(@, c, value)]

Lp128SetBit(agg, c, form, handle) ==
  IF handle # "usable" THEN agg
  ELSE [agg EXCEPT ![WordIndex(c, form)] = BitSet(@, c)]
==============================================================================
