--------------------------- MODULE LedgerService ---------------------------
(***************************************************************************)
(* POST /transfers of the mock financial service: crud.transfer, run by    *)
(* the threads that serve requests, over one SQLite database.              *)
(*                                                                         *)
(* A SELECT opens no transaction, so each one reads the latest commit; the *)
(* first INSERT takes the write lock, which the commit releases. Each step *)
(* below is one SELECT, or the whole write transaction. Between two steps  *)
(* any other thread may commit, and a thread may fail.                     *)
(***************************************************************************)
EXTENDS Integers, FiniteSets

CONSTANTS
  Handlers,        \* threads that serve transfer requests
  Keys,            \* idempotency keys
  Accounts,        \* accounts of the ledger
  Unknown,         \* an account number that is not in the ledger
  Payloads,        \* the transfers clients ask for: sender, receiver, amount
  OpeningBalance,  \* the initial deposits
  None             \* no transaction

ASSUME LedgerAssumption ==
  /\ IsFiniteSet(Handlers)
  /\ Unknown \notin Accounts
  /\ Payloads \subseteq [sender : Accounts \cup {Unknown}, receiver : Accounts \cup {Unknown},
                         amount : Nat \ {0}]
  /\ OpeningBalance \in [Accounts -> Nat]
  /\ None \notin Payloads

VARIABLES
  transactions,  \* the transaction recorded under each key, or None
  credits,       \* ledger_entries of each account: the sum of its CREDIT rows
  debits,        \* and of its DEBIT rows
  balance,       \* Account.balance
  handler,       \* the threads: where each is, its request, what it has read
  answer         \* the response sent last, or None

tables == <<transactions, credits, debits, balance>>
vars == <<transactions, credits, debits, balance, handler, answer>>

-----------------------------------------------------------------------------
Points == {"find_key", "read_sender", "read_receiver", "write",
           "sum_sender_credits", "sum_sender_debits",
           "sum_receiver_credits", "sum_receiver_debits",
           "compare_sender", "compare_receiver"}

\* sender and receiver hold the stored balances before the write, and the
\* recomputed ones after it; total is their sum before the write.
Idle == [at |-> "idle"]

Serving == [at : Points, key : Keys, payload : Payloads, sender : Int, receiver : Int,
            total : Int]

Results == {"booked", "conflict", "refused", "error"}

Response == [key : Keys, payload : Payloads, result : Results]

Init ==
  /\ transactions = [k \in Keys |-> None]
  /\ credits = OpeningBalance /\ debits = [a \in Accounts |-> 0]
  /\ balance = OpeningBalance
  /\ handler = [h \in Handlers |-> Idle]
  /\ answer = None

-----------------------------------------------------------------------------
Answer(h, result) ==
  /\ handler' = [handler EXCEPT ![h] = Idle]
  /\ answer' = [key |-> handler[h].key, payload |-> handler[h].payload, result |-> result]

Continue(h, next) ==
  /\ handler' = [handler EXCEPT ![h] = next]
  /\ UNCHANGED answer

Receive(h, k, p) ==
  /\ handler[h].at = "idle"
  /\ Continue(h, [at |-> "find_key", key |-> k, payload |-> p,
                  sender |-> 0, receiver |-> 0, total |-> 0])
  /\ UNCHANGED tables

FindKey_AnyPayload(h) ==
  LET found == transactions[handler[h].key] p == handler[h].payload IN
  /\ handler[h].at = "find_key"
  /\ \/ found # None /\ Answer(h, "booked")
     \/ found = None /\ p.sender = p.receiver /\ Answer(h, "refused")
     \/ found = None /\ p.sender # p.receiver
          /\ Continue(h, [handler[h] EXCEPT !.at = "read_sender"])
  /\ UNCHANGED tables

\* A recorded key is replayed, or refused if it was used for another transfer.
FindKey(h) ==
  LET found == transactions[handler[h].key] p == handler[h].payload IN
  /\ handler[h].at = "find_key"
  /\ \/ found # None /\ found = p /\ Answer(h, "booked")
     \/ found # None /\ found # p /\ Answer(h, "conflict")
     \/ found = None /\ p.sender = p.receiver /\ Answer(h, "refused")
     \/ found = None /\ p.sender # p.receiver
          /\ Continue(h, [handler[h] EXCEPT !.at = "read_sender"])
  /\ UNCHANGED tables

ReadSender(h) ==
  LET sender == handler[h].payload.sender IN
  /\ handler[h].at = "read_sender"
  /\ IF sender = Unknown
     THEN Answer(h, "refused")
     ELSE Continue(h, [handler[h] EXCEPT !.at = "read_receiver", !.sender = balance[sender]])
  /\ UNCHANGED tables

HasFunds_Always(h) == TRUE

HasFunds(h) == handler[h].sender >= handler[h].payload.amount

\* The receiver must exist under the bank name of the request (an Unknown one
\* stands for both); then the amount is compared with the balance read before.
ReadReceiver(h) ==
  LET receiver == handler[h].payload.receiver IN
  /\ handler[h].at = "read_receiver"
  /\ IF receiver = Unknown \/ ~HasFunds(h)
     THEN Answer(h, "refused")
     ELSE Continue(h, [handler[h] EXCEPT !.at = "write", !.receiver = balance[receiver],
                                         !.total = handler[h].sender + balance[receiver]])
  /\ UNCHANGED tables

Insert_CreditLater(h) ==
  LET k == handler[h].key p == handler[h].payload IN
  /\ transactions' = [transactions EXCEPT ![k] = p]
  /\ debits' = [debits EXCEPT ![p.sender] = @ + p.amount]
  /\ credits' = [credits EXCEPT ![p.receiver] = @ + p.amount]
  /\ balance' = [balance EXCEPT ![p.sender] = handler[h].sender - p.amount]
  /\ Continue(h, [handler[h] EXCEPT !.at = "sum_sender_credits"])

\* The entries add to what is there; the balances are computed from what the
\* thread has read.
Insert(h) ==
  LET k == handler[h].key p == handler[h].payload IN
  /\ transactions' = [transactions EXCEPT ![k] = p]
  /\ debits' = [debits EXCEPT ![p.sender] = @ + p.amount]
  /\ credits' = [credits EXCEPT ![p.receiver] = @ + p.amount]
  /\ balance' = [balance EXCEPT ![p.sender] = handler[h].sender - p.amount,
                                ![p.receiver] = handler[h].receiver + p.amount]
  /\ Continue(h, [handler[h] EXCEPT !.at = "sum_sender_credits"])

Write_WithoutUniqueKey(h) == handler[h].at = "write" /\ Insert(h)

\* The transaction, its two entries, both balances and the audit row are one
\* commit. A key another thread recorded meanwhile breaks the unique index and
\* fails the request; nothing catches that error.
Write(h) ==
  /\ handler[h].at = "write"
  /\ IF transactions[handler[h].key] = None
     THEN Insert(h)
     ELSE /\ Answer(h, "error")
          /\ UNCHANGED tables

\* After the commit the entries of both accounts are summed up, credits and
\* debits in a SELECT each, and three assertions compare the sums with the total
\* before the transfer and with the stored balances; a failed one is an error,
\* though the transfer is booked.
SumSenderCredits(h) ==
  /\ handler[h].at = "sum_sender_credits"
  /\ Continue(h, [handler[h] EXCEPT !.at = "sum_sender_debits",
                                    !.sender = credits[handler[h].payload.sender]])
  /\ UNCHANGED tables

SumSenderDebits(h) ==
  /\ handler[h].at = "sum_sender_debits"
  /\ Continue(h, [handler[h] EXCEPT !.at = "sum_receiver_credits",
                                    !.sender = @ - debits[handler[h].payload.sender]])
  /\ UNCHANGED tables

SumReceiverCredits(h) ==
  /\ handler[h].at = "sum_receiver_credits"
  /\ Continue(h, [handler[h] EXCEPT !.at = "sum_receiver_debits",
                                    !.receiver = credits[handler[h].payload.receiver]])
  /\ UNCHANGED tables

SumReceiverDebits(h) ==
  LET sum == handler[h].receiver - debits[handler[h].payload.receiver] IN
  /\ handler[h].at = "sum_receiver_debits"
  /\ IF handler[h].sender + sum = handler[h].total
     THEN Continue(h, [handler[h] EXCEPT !.at = "compare_sender", !.receiver = sum])
     ELSE Answer(h, "error")
  /\ UNCHANGED tables

CompareSender(h) ==
  /\ handler[h].at = "compare_sender"
  /\ IF handler[h].sender = balance[handler[h].payload.sender]
     THEN Continue(h, [handler[h] EXCEPT !.at = "compare_receiver"])
     ELSE Answer(h, "error")
  /\ UNCHANGED tables

CompareReceiver(h) ==
  /\ handler[h].at = "compare_receiver"
  /\ Answer(h, IF handler[h].receiver = balance[handler[h].payload.receiver]
               THEN "booked" ELSE "error")
  /\ UNCHANGED tables

\* The database is locked too long, or the process ends: what is not committed
\* is rolled back and the client gets an error, or no answer.
Fail(h) ==
  /\ handler[h].at # "idle"
  /\ \/ Answer(h, "error")
     \/ Continue(h, Idle)
  /\ UNCHANGED tables

-----------------------------------------------------------------------------
Step(h) ==
  \/ FindKey(h) \/ ReadSender(h) \/ ReadReceiver(h) \/ Write(h)
  \/ SumSenderCredits(h) \/ SumSenderDebits(h)
  \/ SumReceiverCredits(h) \/ SumReceiverDebits(h)
  \/ CompareSender(h) \/ CompareReceiver(h)

Next ==
  \E h \in Handlers :
    \/ \E k \in Keys, p \in Payloads : Receive(h, k, p)
    \/ Step(h)
    \/ Fail(h)

Spec == Init /\ [][Next]_vars

-----------------------------------------------------------------------------
(* Properties that hold *)

\* Types. The stored balance stays a natural number because each write computes
\* it from a value that covers the amount; of writes that overlap one is lost,
\* so that the entries of an account may sum up to less than zero.
TypeOK ==
  /\ transactions \in [Keys -> Payloads \cup {None}]
  /\ credits \in [Accounts -> Nat] /\ debits \in [Accounts -> Nat]
  /\ balance \in [Accounts -> Nat]
  /\ handler \in [Handlers -> {Idle} \cup Serving]
  /\ answer \in Response \cup {None}

\* A client that retries a key, on however many connections, never books a
\* second transfer or changes the first, and what it is told about the booking
\* is true.
Journal == INSTANCE TransferJournal WITH journal <- transactions

KeepsJournal == Journal!Spec

\* reconcile_balance
Drift(a) == balance[a] - (credits[a] - debits[a])

\* At every moment the stored balance of each account is the sum of its
\* entries, as long as one thread at a time serves transfers, wherever it fails.
NoDriftWhenSequential == Cardinality(Handlers) = 1 => \A a \in Accounts : Drift(a) = 0

=============================================================================
