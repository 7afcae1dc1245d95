--------------------------- MODULE MCFileCommands ---------------------------
(***************************************************************************)
(* Two programs and three spellings of two names; the third spelling goes  *)
(* to the name of the first, as "arq.txt" and "ARQ.TXT" do.                *)
(***************************************************************************)
EXTENDS FileCommands, TLC

CONSTANTS p1, p2, s1, s2, s3, n1, n2, a, b

MCShort == [s \in Spelling |-> IF s = s2 THEN n2 ELSE n1]

\* One program copies, the other changes files under it.
MCCommands == (p1 :> {"kernel_copy", "copy", "touch"}) @@ (p2 :> {"touch", "write", "delete"})

\* One program alone.
MCAlone == (p1 :> {"kernel_copy", "write"})

\* Of two slices, the second in part.
MCContent == {<<b, a, a>>}
=============================================================================
