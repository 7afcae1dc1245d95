--------------------------- MODULE MCAddressSpaces ---------------------------
(***************************************************************************)
(* Two address spaces and ten frames that boot released: a whole program   *)
(* takes seven, so the second load runs out of them wherever the first     *)
(* program's SBRKs and the kernel heap leave it.  The second word of the   *)
(* bitmap has two such frames, so that a search may begin at a full word.  *)
(***************************************************************************)
EXTENDS AddressSpaces, TLC

CONSTANTS s1, s2

MCReserved == {0} \cup 11 .. 17

Symmetry == Permutations(Space)
=============================================================================
