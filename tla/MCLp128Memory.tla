--------------------------- MODULE MCLp128Memory ---------------------------
(* Two segments of one page each, copied in pieces of two bytes.            *)
EXTENDS Lp128Memory

MCCode == <<1, 0, 1, 1, 0, 1, 1>>
MCRoData == <<1, 1>>
MCFile == <<1, 0, 1>>

\* What the next steps depend on: the request and its answer do not count.
View == <<reu, page, halted>>
=============================================================================
