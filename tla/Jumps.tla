-------------------------------- MODULE Jumps --------------------------------
(***************************************************************************)
(* A jump of a module's code: how Chisel writes its target, and how both   *)
(* runtimes read it and decide whether to take it.  An instruction is a    *)
(* sequence of bytes that starts with the opcode, and code stands after    *)
(* it: the decoder reads what it finds there.                              *)
(***************************************************************************)
EXTENDS Words, Sequences

\* Variant of InReach: one too far back.
InReachWide(displacement) == displacement \in -129 .. 127

InReach(displacement) == displacement \in -128 .. 127

\* EstimateInstructionSize: only jumps backward are short, and none of 0,
\* which is the mark of the long form.
Short(start, target) ==
  /\ target <= start
  /\ InReach(target - (start + 2))
  /\ target - (start + 2) # 0

\* The target as the source may write it: plain, or with ABS: or REL:
Styles == {"plain", "ABS", "REL"}

\* A REL: target must be in reach of a displacement.
Encodable(style, start, target) ==
  style = "REL" => InReach(target - (start + 2)) /\ target # start + 2

Selector(style, start, target) ==
  IF style = "REL" \/ (style = "plain" /\ Short(start, target))
  THEN << (target - (start + 2)) % 256 >>
  ELSE <<0, target % 256, target \div 256>>

SignedByte(byte) == IF byte < 128 THEN byte ELSE byte - 256

\* decode_jump_target, at the bytes after the opcode
LpstTarget(bytes, start) ==
  IF bytes[1] # 0 THEN Word(start + 2 + SignedByte(bytes[1]))
                  ELSE bytes[2] + 256 * bytes[3]

Lp128Target(bytes, start) ==
  IF bytes[1] # 0 THEN Word(start + 2 + SignedByte(bytes[1]))
                  ELSE bytes[2] + 256 * bytes[3]

----------------------------------------------------------------------------
(* The conditions.  Top is popped first, and below after it. *)

Conditions == {"JUMPZ", "JUMPNZ", "JUMPF", "JUMPNF", "JUMPGZ", "JUMPLEZ",
               "JUMPLZ", "JUMPGEZ", "JUMPL", "JUMPLE", "JUMPGE", "JUMPG",
               "JUMPEQ", "JUMPNE"}

\* Variant of LpstTaken: JUMPGE is not taken by equal words, nor JUMPLE.
LpstTakenStrict(condition, top, below) ==
  CASE condition \in {"JUMPL", "JUMPLE"} -> Signed(top) < Signed(below)
    [] condition \in {"JUMPG", "JUMPGE"} -> Signed(top) > Signed(below)
    [] condition = "JUMPEQ"              -> top = below
    [] condition = "JUMPNE"              -> top # below
    [] condition \in {"JUMPZ", "JUMPF", "JUMPLZ", "JUMPLEZ"} -> top = 0
    [] OTHER                             -> top # 0

LpstTaken(condition, top, below) ==
  CASE condition = "JUMPZ"   -> top = 0
    [] condition = "JUMPNZ"  -> top # 0
    [] condition = "JUMPF"   -> top = FalseWord
    [] condition = "JUMPNF"  -> top # FalseWord
    [] condition = "JUMPGZ"  -> Signed(top) > 0
    [] condition = "JUMPLEZ" -> Signed(top) <= 0
    [] condition = "JUMPLZ"  -> Signed(top) < 0
    [] condition = "JUMPGEZ" -> Signed(top) >= 0
    [] condition = "JUMPL"   -> Signed(top) < Signed(below)
    [] condition = "JUMPLE"  -> Signed(top) <= Signed(below)
    [] condition = "JUMPGE"  -> Signed(top) >= Signed(below)
    [] condition = "JUMPG"   -> Signed(top) > Signed(below)
    [] condition = "JUMPEQ"  -> top = below
    [] condition = "JUMPNE"  -> top # below

Lp128Taken(condition, top, below) ==
  CASE condition = "JUMPZ"   -> top = 0
    [] condition = "JUMPNZ"  -> top # 0
    [] condition = "JUMPF"   -> top = FalseWord
    [] condition = "JUMPNF"  -> top # FalseWord
    [] condition = "JUMPGZ"  -> Signed(top) > 0
    [] condition = "JUMPLEZ" -> Signed(top) <= 0
    [] condition = "JUMPLZ"  -> Signed(top) < 0
    [] condition = "JUMPGEZ" -> Signed(top) >= 0
    [] condition = "JUMPL"   -> Signed(top) < Signed(below)
    [] condition = "JUMPLE"  -> Signed(top) <= Signed(below)
    [] condition = "JUMPGE"  -> Signed(top) >= Signed(below)
    [] condition = "JUMPG"   -> Signed(top) > Signed(below)
    [] condition = "JUMPEQ"  -> top = below
    [] condition = "JUMPNE"  -> top # below
==============================================================================
