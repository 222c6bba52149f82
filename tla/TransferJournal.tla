-------------------------- MODULE TransferJournal --------------------------
(***************************************************************************)
(* What the ledger promises a client that retries: a transfer is booked    *)
(* under its idempotency key at most once and never altered, and an answer *)
(* that reports a booking, or a reuse of the key, is true.                 *)
(***************************************************************************)
CONSTANTS Keys, Payloads, None

VARIABLES
  journal,  \* for each key, the transfer booked under it, or None
  answer    \* what a client has just been told, or None

Results == {"booked", "conflict", "refused", "error"}

Init ==
  /\ journal = [k \in Keys |-> None]
  /\ answer = None

Book(k, p) ==
  /\ journal[k] = None
  /\ journal' = [journal EXCEPT ![k] = p]
  /\ UNCHANGED answer

\* A refusal and an error promise nothing: a request that ended in an error may
\* have been booked.
True(k, p, result) ==
  /\ result = "booked" => journal[k] = p
  /\ result = "conflict" => journal[k] \notin {None, p}

Answer(k, p, result) ==
  /\ True(k, p, result)
  /\ answer' = [key |-> k, payload |-> p, result |-> result]
  /\ UNCHANGED journal

Next ==
  \E k \in Keys, p \in Payloads :
    \/ Book(k, p)
    \/ \E result \in Results : Answer(k, p, result)

Spec == Init /\ [][Next]_<<journal, answer>>
=============================================================================
