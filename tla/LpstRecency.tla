----------------------------- MODULE LpstRecency ----------------------------
(* LpstCodeCache with a history of the order its pages were loaded in.      *)
EXTENDS LpstCodeCache

\* A tick that wraps is not the one before it.
ASSUME TickAssumption == TickMod > 2

\* <<p, q>>: p and q are in the cache, and q was loaded after p was last, or
\* p not since the tick wrapped.
VARIABLE before

Cached == {entries[e].base : e \in {f \in Slot : entries[f].valid}}

\* Page p is loaded, perhaps again, and comes after all others.
LoadedLast(p) == {<<q, p>> : q \in Cached' \ {p}}
Kept(p) == {pair \in before : {pair[1], pair[2]} \subseteq Cached' \ {p}}

RecencyInit == Init /\ before = {}
RecencyNext ==
  /\ Next
  /\ before' = IF code_cache_tick' > code_cache_tick
                 THEN Kept(bound'.base) \cup LoadedLast(bound'.base)
               ELSE IF code_cache_tick' < code_cache_tick THEN LoadedLast(bound'.base)
               ELSE before
RecencySpec == RecencyInit /\ [][RecencyNext]_<<vars, before>>

\* lpst_run_core.c, select_code_cache_victim: a page is evicted only when no
\* slot is empty, and then one without a pin that no other page without a pin
\* was loaded before; the fast path of fetch_byte, which stamps nothing, does
\* not upset the order, and the wrap of the tick forgets only what is before it.
EvictsLeastRecent ==
  [][\A e \in Slot :
       entries[e].valid /\ entries'[e].base # entries[e].base
       => /\ entries[e].pin = 0
          /\ \A f \in Slot :
               /\ entries[f].valid
               /\ entries[f].pin = 0 =>
                    <<entries[f].base, entries[e].base>> \notin before]_<<vars, before>>
=============================================================================
