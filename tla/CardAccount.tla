---------------------------- MODULE CardAccount ----------------------------
(***************************************************************************)
(* What deferred settlement promises the owner of an account and its cards:*)
(* a charge counts towards the limit of its card until it is settled, and a*)
(* settlement takes exactly the unsettled charges from the account, once.  *)
(***************************************************************************)
EXTENDS Integers

CONSTANTS Cards, Amounts, Limit, OpeningBalance

VARIABLES
  usage,    \* the unsettled charges of each card
  balance   \* of the account

Init ==
  /\ usage = [c \in Cards |-> 0]
  /\ balance = OpeningBalance

Charge(c, amount) ==
  /\ usage[c] + amount <= Limit
  /\ usage' = [usage EXCEPT ![c] = @ + amount]
  /\ UNCHANGED balance

Settle(c) ==
  /\ usage[c] > 0
  /\ usage[c] <= balance
  /\ usage' = [usage EXCEPT ![c] = 0]
  /\ balance' = balance - usage[c]

Next ==
  \E c \in Cards :
    \/ \E amount \in Amounts : Charge(c, amount)
    \/ Settle(c)

Spec == Init /\ [][Next]_<<usage, balance>>
=============================================================================
