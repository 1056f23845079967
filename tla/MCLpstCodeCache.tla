-------------------------- MODULE MCLpstCodeCache --------------------------
(* Two modules of two pages each.                                           *)
EXTENDS LpstRecency

CONSTANTS m1, m2

MCModule == {m1, m2}
MCFirstPage == [m \in MCModule |-> IF m = m1 THEN 1 ELSE 3]
MCLastPage == [m \in MCModule |-> IF m = m1 THEN 2 ELSE 4]
=============================================================================
