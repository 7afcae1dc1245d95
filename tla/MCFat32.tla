------------------------------ MODULE MCFat32 ------------------------------
(***************************************************************************)
(* Small volumes: one or two slots and two units per cluster.  Payloads    *)
(* fill no cluster, part of one, or two; the volume is small enough for    *)
(* the disk to fill and for the directory to grow.                         *)
(***************************************************************************)
EXTENDS Fat32Refinement

CONSTANTS n1, n2, n3, a, b

\* Of no, one (in part) and two clusters.
MCPayload == {<< >>, <<a>>, <<b, a, a>>}
\* With power failing anywhere, of one and two clusters.
MCCrashPayload == {<<a>>, <<b, a, a>>}
=============================================================================
