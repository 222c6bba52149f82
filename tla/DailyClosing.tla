---------------------------- MODULE DailyClosing ----------------------------
(***************************************************************************)
(* The end-of-day batch of the mock financial service, run_daily_closing,  *)
(* while transfers are booked: started by the endpoint or by cron, twice   *)
(* for a day if so asked. For every account it writes one snapshot of the  *)
(* entries. Sessions do not flush by themselves, so a closing holds no     *)
(* lock before its commit, and each of its SELECTs reads what is committed *)
(* by then.                                                                *)
(***************************************************************************)
EXTENDS LedgerService, SequencesExt

CONSTANTS
  Closers,       \* threads or processes that run the batch
  Days,          \* business dates
  AccountOrder   \* the accounts, in the order the SELECT returns them

ASSUME ClosingAssumption ==
  /\ AccountOrder \in Seq(Accounts)
  /\ ToSet(AccountOrder) = Accounts /\ IsInjective(AccountOrder)

VARIABLES
  ledger,    \* ledger_entries as rows: the position of a row is its rowid
  closings,  \* daily_closing_snapshots: by day, the row of each account
  closer     \* the batches: where each one is, and the rows it will insert

closingVars == <<closings, closer>>
allVars == <<vars, ledger, closingVars>>

-----------------------------------------------------------------------------
(* Ledger rows *)

Entry(a, type, n) == [account |-> a, type |-> type, amount |-> n]

RowsOf(a, type, rows) ==
  {i \in DOMAIN rows : rows[i].account = a /\ rows[i].type = type}

SumOf(a, type, rows) == MapThenSumSet(LAMBDA i : rows[i].amount, RowsOf(a, type, rows))

\* The rows of a transfer, in the order they are inserted.
EntriesOf(p) == <<Entry(p.sender, "DEBIT", p.amount), Entry(p.receiver, "CREDIT", p.amount)>>

NewEntries ==
  LET booked == {k \in Keys : transactions[k] # transactions'[k]} IN
  IF booked = {} THEN <<>> ELSE EntriesOf(transactions'[CHOOSE k \in booked : TRUE])

\* A step of a transfer, with the rows its commit inserts.
TransferStep ==
  /\ Next
  /\ ledger' = ledger \o NewEntries
  /\ UNCHANGED closingVars

-----------------------------------------------------------------------------
(* The batch *)

\* credit and debit are those of the account being read; began is the number of
\* rows when the batch began (history).
NoBatch == [at |-> "idle"]

\* The accounts have been created in any order, those with a deposit leaving
\* an entry.
ClosingInit ==
  /\ Init
  /\ ledger \in SetToSeqs({Entry(a, "CREDIT", OpeningBalance[a]) :
                          a \in {x \in Accounts : OpeningBalance[x] > 0}})
  /\ closings = [d \in Days |-> [a \in {} |-> None]]
  /\ closer = [b \in Closers |-> NoBatch]

StartClosing(b, d) ==
  /\ closer[b].at = "idle"
  /\ closer' = [closer EXCEPT ![b] =
       [at |-> "find", day |-> d, left |-> AccountOrder, created |-> <<>>,
        credit |-> 0, debit |-> 0, began |-> Len(ledger)]]
  /\ UNCHANGED <<vars, ledger, closings>>

ThisAccount(b) == Head(closer[b].left)

\* An account that has a snapshot of the day is skipped.
FindClosing(b) ==
  /\ closer[b].at = "find" /\ closer[b].left # <<>>
  /\ IF ThisAccount(b) \in DOMAIN closings[closer[b].day]
     THEN closer' = [closer EXCEPT ![b].left = Tail(@)]
     ELSE closer' = [closer EXCEPT ![b].at = "sum_credit"]
  /\ UNCHANGED <<vars, ledger, closings>>

SumCredit_OfAllEntries(b) ==
  /\ closer[b].at = "sum_credit"
  /\ closer' = [closer EXCEPT ![b].at = "sum_debit",
       ![b].credit = SumOf(ThisAccount(b), "CREDIT", ledger)
                       + SumOf(ThisAccount(b), "DEBIT", ledger)]
  /\ UNCHANGED <<vars, ledger, closings>>

SumCredit(b) ==
  /\ closer[b].at = "sum_credit"
  /\ closer' = [closer EXCEPT ![b].at = "sum_debit",
                              ![b].credit = SumOf(ThisAccount(b), "CREDIT", ledger)]
  /\ UNCHANGED <<vars, ledger, closings>>

SumDebit(b) ==
  /\ closer[b].at = "sum_debit"
  /\ closer' = [closer EXCEPT ![b].at = "last_row",
                              ![b].debit = SumOf(ThisAccount(b), "DEBIT", ledger)]
  /\ UNCHANGED <<vars, ledger, closings>>

\* MAX(rowid) of the account, 0 when it has no entry.
LastRowId(a) ==
  LET own == {i \in DOMAIN ledger : ledger[i].account = a} IN
  IF own = {} THEN 0 ELSE Max(own)

AddSnapshot(b, last) ==
  closer' = [closer EXCEPT ![b].at = "find", ![b].left = Tail(@),
                           ![b].created = Append(@, [account |-> ThisAccount(b),
                              row |-> [credit |-> closer[b].credit, debit |-> closer[b].debit,
                                       last |-> last]]),
                           ![b].credit = 0, ![b].debit = 0]

LastRow_OfTheBatch(b) ==
  /\ closer[b].at = "last_row"
  /\ AddSnapshot(b, closer[b].began)
  /\ UNCHANGED <<vars, ledger, closings>>

LastRow(b) ==
  /\ closer[b].at = "last_row"
  /\ AddSnapshot(b, LastRowId(ThisAccount(b)))
  /\ UNCHANGED <<vars, ledger, closings>>

Snapshots(b) ==
  [a \in {s.account : s \in ToSet(closer[b].created)} |->
     (CHOOSE s \in ToSet(closer[b].created) : s.account = a).row]

\* INSERT of rows into the table of a day.
Inserted(rows, table) ==
  [a \in DOMAIN rows \cup DOMAIN table |-> IF a \in DOMAIN rows THEN rows[a] ELSE table[a]]

CommitClosing_WithoutKey(b) ==
  /\ closer[b].at = "find" /\ closer[b].left = <<>>
  /\ closings' = [closings EXCEPT ![closer[b].day] = Inserted(Snapshots(b), @)]
  /\ closer' = [closer EXCEPT ![b] = NoBatch]
  /\ UNCHANGED <<vars, ledger>>

\* All rows, and the audit row, are one commit. A row another batch inserted
\* meanwhile breaks the primary key and fails the batch as a whole.
CommitClosing(b) ==
  /\ closer[b].at = "find" /\ closer[b].left = <<>>
  /\ IF DOMAIN Snapshots(b) \cap DOMAIN closings[closer[b].day] = {}
     THEN closings' = [closings EXCEPT ![closer[b].day] = Inserted(Snapshots(b), @)]
     ELSE UNCHANGED closings
  /\ closer' = [closer EXCEPT ![b] = NoBatch]
  /\ UNCHANGED <<vars, ledger>>

ClosingFails(b) ==
  /\ closer[b].at # "idle"
  /\ closer' = [closer EXCEPT ![b] = NoBatch]
  /\ UNCHANGED <<vars, ledger, closings>>

ClosingStep(b) ==
  \/ FindClosing(b) \/ SumCredit(b) \/ SumDebit(b) \/ LastRow(b) \/ CommitClosing(b)

ClosingNext ==
  \/ TransferStep
  \/ \E b \in Closers :
       \/ \E d \in Days : StartClosing(b, d)
       \/ ClosingStep(b)
       \/ ClosingFails(b)

ClosingSpec == ClosingInit /\ [][ClosingNext]_allVars

-----------------------------------------------------------------------------
(* Properties that hold *)

\* However often the batch runs for a day, at whatever moment it dies: a day is
\* closed for all accounts at once, and what is closed never changes.
ClosedOnceForAll ==
  [][\A d \in Days :
       \/ closings'[d] = closings[d]
       \/ DOMAIN closings[d] = {} /\ DOMAIN closings'[d] = Accounts]_allVars

UpTo(n) == SubSeq(ledger, 1, n)

\* A snapshot misses nothing that was booked before its batch began and counts
\* nothing that is not booked when it is written; with no transfer in between
\* it is therefore the balance of that moment.
ClosingOfThisBatch ==
  \A b \in Closers : closer[b].at # "idle" =>
    \A i \in DOMAIN closer[b].created :
      LET a == closer[b].created[i].account s == closer[b].created[i].row IN
      /\ s.credit \in SumOf(a, "CREDIT", UpTo(closer[b].began))..SumOf(a, "CREDIT", ledger)
      /\ s.debit \in SumOf(a, "DEBIT", UpTo(closer[b].began))..SumOf(a, "DEBIT", ledger)

\* last_entry_rowid is a watermark: no entry above it is in the sums.
WatermarkCoversTheSums ==
  \A d \in Days : \A a \in DOMAIN closings[d] :
    LET s == closings[d][a] IN
      /\ s.credit <= SumOf(a, "CREDIT", UpTo(s.last))
      /\ s.debit <= SumOf(a, "DEBIT", UpTo(s.last))
=============================================================================
