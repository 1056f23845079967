---------------------------- MODULE MCLp128Boot ----------------------------
(* Bundles of two modules, cut short or on a drive that stops answering at  *)
(* some points, bundles that are refused, and the two kinds of REU.         *)
EXTENDS Lp128Boot

Image(low, pages, after) ==
  [summary |-> 2, modules |-> <<[start |-> 0], [start |-> 1]>>, exports |-> 2,
   initializers |-> 1, words |-> GlobalWords(<<101>>, <<1, 1>>, <<102, 103>>),
   ram |-> low, code |-> pages, rodata |-> after, entry |-> [module |-> 2, proc |-> 0]]

Small == Bundle(Image(1, 5, 0))
Large == Bundle(Image(3, 6, 3))

Refused == {[Large EXCEPT !.header = "bad"],
            Bundle([Image(0, 4, 1) EXCEPT !.exports = 3]),          \* MaxExports
            Bundle([Image(0, 4, 1) EXCEPT !.entry.proc = 1]),
            Bundle([Image(0, 4, 1) EXCEPT !.words = <<3>>]),
            Bundle([Image(0, 4, 1) EXCEPT !.words = <<2, 4, 1, 1, 0, 0>>]),
            Bundle(Image(13, 4, 1)),                                \* ram > SegmentBytes
            [Large EXCEPT !.sections[6].offset = @ - 4]}            \* over the globals

MCDisks ==
  {[bundle |-> b, present |-> b.length, bad |-> b.length] : b \in {Small} \cup Refused}
  \cup {[bundle |-> Large, present |-> n, bad |-> Large.length] : n \in 0 .. Large.length}
  \cup {[bundle |-> Large, present |-> Large.length, bad |-> n] : n \in 0 .. Large.length}

\* What the theorems assume of the bundles holds of these.
ASSUME FitsAssumption == Fits

\* The answer of a read does not matter for what follows.
View == <<loadVars, layout, globals, code, current, exports, initializers>>
=============================================================================
