----------------------------- MODULE MCLpstHeap -----------------------------
(* Six words in each segment, the fewest lpst_seed_arena accepts.           *)
EXTENDS LpstHeap

CONSTANTS z, h, w

MCValue == {z, h, w}

\* What the next steps depend on: the words the last one popped do not count.
View == <<next_low_arena_byte, next_high_arena_byte, tuple_stack_byte,
          free_list, ram, halted, saved, vectors, tuples>>
=============================================================================
