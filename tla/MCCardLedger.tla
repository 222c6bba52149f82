---------------------------- MODULE MCCardLedger ----------------------------
(* Small instances of CardLedger for TLC. *)
EXTENDS CardLedger, TLC

Interchangeable == Permutations(Handlers) \cup Permutations(Keys) \cup Permutations(Cards)
=============================================================================
