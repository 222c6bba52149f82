-------------------------- MODULE MCLedgerService --------------------------
(* Small instances of LedgerService for TLC. *)
EXTENDS LedgerService, TLC

CONSTANTS checking, savings

Deposits == checking :> 2 @@ savings :> 1

Transfer(a, b, n) == [sender |-> a, receiver |-> b, amount |-> n]

\* Two transfers that compete for one balance, one way and back, and a transfer
\* of each kind that is refused.
Opposite == {Transfer(checking, savings, 2), Transfer(savings, checking, 1),
             Transfer(checking, Unknown, 1), Transfer(Unknown, savings, 1),
             Transfer(checking, checking, 1)}

Interchangeable == Permutations(Handlers) \cup Permutations(Keys)
=============================================================================
