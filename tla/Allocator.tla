------------------------------ MODULE Allocator ------------------------------
(***************************************************************************)
(* What kmalloc and kfree promise their callers: memory that nobody else   *)
(* has, at least as much as was asked for, below the heap's limit, until   *)
(* the owner gives it back.                                                *)
(***************************************************************************)
EXTENDS Integers

CONSTANTS Sizes,       \* what callers ask for
          Limit        \* no byte at or beyond it is given out

VARIABLE given         \* the pieces callers have: [at |-> , size |-> ]

Bytes(piece) == piece.at .. piece.at + piece.size - 1

Init == given = {}

Give == \E at \in 0 .. Limit - 1, n \in Sizes :
          LET piece == [at |-> at, size |-> n]
          IN /\ at + n <= Limit
             /\ \A other \in given : Bytes(piece) \cap Bytes(other) = {}
             /\ given' = given \cup {piece}

TakeBack == \E piece \in given : given' = given \ {piece}

Next == Give \/ TakeBack
Spec == Init /\ [][Next]_given
=============================================================================
