------------------------------- MODULE Chains -------------------------------
(***************************************************************************)
(* Linked lists in a table.  Entry x of the table holds the next index, a  *)
(* "free" mark or an end mark; only the next index matters here.           *)
(*                                                                         *)
(* The chain of h is the least set that holds h and, with a member x whose *)
(* entry is an index, that index.  Said this way (and not by counting      *)
(* steps) its properties need no induction; see BasicTheorems.             *)
(***************************************************************************)
EXTENDS Integers

\* S is closed under "next" in table f, C being the indices of the table.
Closed(C, f, S) == \A x \in S : f[x] \in C => f[x] \in S

\* Every index a walk of table f from h visits.
Chain(C, f, h) ==
  LET closed == {S \in SUBSET C : Closed(C, f, S)}
  IN {x \in C : \A S \in closed : h \in S => x \in S}
\* Where step i of a walk of table f from h stands; e once the walk has ended.
Walk(C, e, f, h, i) ==
  LET w[j \in 0 .. i] == IF j = 0 THEN h ELSE IF w[j - 1] \in C THEN f[w[j - 1]] ELSE e
  IN w[i]
=============================================================================
