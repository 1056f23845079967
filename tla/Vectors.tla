------------------------------ MODULE Vectors ------------------------------
(***************************************************************************)
(* What the vector allocator and the tuple stack promise a program         *)
(* (sections 4.3 and 4.4 of doc/vm-specification.md): a vector keeps its    *)
(* words from VALLOC to VFREE and a tuple from TALLOC until it is popped;   *)
(* only a store to one of them changes it, and only it.                    *)
(***************************************************************************)
EXTENDS Integers, Sequences, FiniteSets

CONSTANTS
  Request,  \* word counts
  Value,    \* what a word may hold
  Zero      \* what the words of a new vector or tuple hold

VARIABLES
  vectors,   \* contents of each allocated vector: a function on some handles
  tuples,    \* contents of each allocated tuple
  given,     \* the initial words an allocation was given, or none
  status     \* "running" or "stopped"

vars == <<vectors, tuples, given, status>>

Empty == [h \in {} |-> <<>>]
Contents(n) ==
  [i \in 1 .. (IF n > 0 THEN n ELSE 1) |-> IF i \in DOMAIN given' THEN given'[i] ELSE Zero]

Init == vectors = Empty /\ tuples = Empty /\ given = <<>> /\ status = "running"

\* `new` is `held` with one more aggregate of n words, those it was given or zeroes.
Grown(held, new, n) ==
  \E h \in DOMAIN new \ (DOMAIN vectors \cup DOMAIN tuples) :
    new = [g \in DOMAIN held \cup {h} |-> IF g = h THEN Contents(n) ELSE held[g]]

\* `new` is `held` without some of its aggregates.
Shrunk(held, new) ==
  DOMAIN new \subseteq DOMAIN held /\ \A h \in DOMAIN new : new[h] = held[h]

\* `new` is `held` with one word stored to.
Stored(held, new) ==
  /\ DOMAIN new = DOMAIN held
  /\ \E h \in DOMAIN held : \E i \in DOMAIN held[h] :
       /\ new[h][i] \in Value
       /\ new = [held EXCEPT ![h][i] = new[h][i]]

Alloc(n) == Grown(vectors, vectors', n) /\ UNCHANGED tuples
AllocTuple(n) == Grown(tuples, tuples', n) /\ UNCHANGED vectors

Free ==
  /\ Shrunk(vectors, vectors') /\ UNCHANGED tuples
  /\ \E h \in DOMAIN vectors : DOMAIN vectors' = DOMAIN vectors \ {h}

\* TPOP and LONGJMP pop tuples, and leave the others as they are.
PopTuples == Shrunk(tuples, tuples') /\ UNCHANGED vectors

Store ==
  \/ Stored(vectors, vectors') /\ UNCHANGED tuples
  \/ Stored(tuples, tuples') /\ UNCHANGED vectors

Next ==
  /\ status = "running"
  /\ \/ status' = "stopped" /\ UNCHANGED <<vectors, tuples>>
     \/ /\ status' = "running"
        /\ \/ \E n \in Request : Alloc(n) \/ AllocTuple(n)
           \/ Free \/ PopTuples \/ Store

Spec == Init /\ [][Next]_vars
=============================================================================
