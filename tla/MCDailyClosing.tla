--------------------------- MODULE MCDailyClosing ---------------------------
(* A small instance of DailyClosing for TLC. *)
EXTENDS DailyClosing, TLC

CONSTANTS checking, savings

Deposits == checking :> 2 @@ savings :> 0

Both == <<checking, savings>>

Transfer(a, b, n) == [sender |-> a, receiver |-> b, amount |-> n]

\* Once there, and back as far as it goes.
ThereAndBack == {Transfer(checking, savings, 2), Transfer(savings, checking, 1)}

Interchangeable == Permutations(Closers) \cup Permutations(Keys)
=============================================================================
