--------------------------- MODULE MCFat32InPlace ---------------------------
(***************************************************************************)
(* Volumes for the calls in place: two slots and two units per cluster, so *)
(* that a write may begin and end inside a cluster, fill it, or cross it.  *)
(***************************************************************************)
EXTENDS Fat32InPlace

CONSTANTS n1, n2, a, b

\* Of no cluster, of part of one, and of one (or of two, written across).
MCPayload == {<< >>, <<a>>, <<b, a, a>>}
=============================================================================
