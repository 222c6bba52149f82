--------------------------- MODULE MCSettingChange ---------------------------
(* Small instances of SettingChange. *)
EXTENDS SettingChange, TLC

CONSTANTS a1, a2, a3

\* Confirmations, handlers and the accounts other than a1 are interchangeable.
Symmetric ==
  Permutations(Confirmations) \cup Permutations(Executes) \cup Permutations({a2, a3})

HasDefault == {a1}
NoDefault == {}
=============================================================================
