---------------------------- MODULE CardLedger ----------------------------
(***************************************************************************)
(* Cards of the mock financial service: crud.charge_card and               *)
(* crud.settle_card, run by the threads that serve requests, for the cards *)
(* of one account. As in LedgerService each SELECT reads the latest commit *)
(* and the INSERTs, the balance and the commit are one step.               *)
(***************************************************************************)
EXTENDS Integers, Sequences, FiniteSetsExt

CONSTANTS
  Handlers,        \* threads that serve card requests
  Cards,           \* cards of the account
  Keys,            \* idempotency keys of charges
  Amounts,         \* amounts charged
  Limit,           \* Card.limit, the same for every card
  OpeningBalance   \* the initial deposit of the account

ASSUME CardAssumption ==
  /\ IsFiniteSet(Handlers) /\ Handlers # {}
  /\ IsFiniteSet(Amounts) /\ Amounts # {} /\ Amounts \subseteq Nat \ {0}
  /\ Limit \in Nat \ {0}
  /\ OpeningBalance \in Nat

VARIABLES
  charges,      \* card_ledger_entries: the index of a row is its rowid
  settlements,  \* transactions tagged CARD_SETTLEMENT
  balance,      \* Account.balance
  handler       \* the threads: where each is and what it has read

tables == <<charges, settlements, balance>>
vars == <<charges, settlements, balance, handler>>

-----------------------------------------------------------------------------
Charge == [card : Cards, key : Keys, amount : Amounts]

Settlement == [card : Cards, watermark : Nat, amount : Nat]

Idle == [at |-> "idle"]

Charging ==
  [at : {"find_key", "charge_watermark", "charge_usage", "record"},
   charge : Charge, watermark : Nat]

Settling ==
  [at : {"settle_watermark", "settle_newest", "settle_usage", "settle_balance", "debit"},
   card : Cards, watermark : Nat, newest : Nat, amount : Nat, balance : Nat]

Init ==
  /\ charges = <<>> /\ settlements = {}
  /\ balance = OpeningBalance
  /\ handler = [h \in Handlers |-> Idle]

-----------------------------------------------------------------------------
RowsOf(c) == {i \in DOMAIN charges : charges[i].card = c}

AmountOf(rows) == MapThenSumSet(LAMBDA i : charges[i].amount, rows)

\* _get_card_watermark
Watermark(c) == Max({0} \cup {s.watermark : s \in {s \in settlements : s.card = c}})

UnsettledUsage_Inclusive(c, watermark) == AmountOf({i \in RowsOf(c) : i >= watermark})

\* _get_unsettled_usage
UnsettledUsage(c, watermark) == AmountOf({i \in RowsOf(c) : i > watermark})

Continue(h, next) == handler' = [handler EXCEPT ![h] = next]

\* Whatever the response is, or none at all.
Finish(h) == Continue(h, Idle)

-----------------------------------------------------------------------------
(* charge_card *)

ReceiveCharge(h, charge) ==
  /\ handler[h].at = "idle"
  /\ Continue(h, [at |-> "find_key", charge |-> charge, watermark |-> 0])
  /\ UNCHANGED tables

\* A recorded key is replayed, whatever card and amount it was recorded for.
FindKey(h) ==
  LET rows == {i \in DOMAIN charges : charges[i].key = handler[h].charge.key} IN
  /\ handler[h].at = "find_key"
  /\ IF rows # {}
     THEN Finish(h)
     ELSE Continue(h, [handler[h] EXCEPT !.at = "charge_watermark"])
  /\ UNCHANGED tables

ReadChargeWatermark(h) ==
  /\ handler[h].at = "charge_watermark"
  /\ Continue(h, [handler[h] EXCEPT !.at = "charge_usage",
                                    !.watermark = Watermark(handler[h].charge.card)])
  /\ UNCHANGED tables

WithinLimit_UsageOnly(usage, amount) == usage <= Limit

WithinLimit(usage, amount) == usage + amount <= Limit

JudgeLimit(h) ==
  LET charge == handler[h].charge IN
  /\ handler[h].at = "charge_usage"
  /\ IF WithinLimit(UnsettledUsage(charge.card, handler[h].watermark), charge.amount)
     THEN Continue(h, [handler[h] EXCEPT !.at = "record"])
     ELSE Finish(h)
  /\ UNCHANGED tables

RecordCharge_WithoutUniqueKey(h) ==
  /\ handler[h].at = "record"
  /\ charges' = Append(charges, handler[h].charge)
  /\ Finish(h)
  /\ UNCHANGED <<settlements, balance>>

\* The row, which gets the next rowid, and its audit row; the unique index
\* fails a request whose key has been recorded meanwhile.
RecordCharge(h) ==
  /\ handler[h].at = "record"
  /\ IF \A i \in DOMAIN charges : charges[i].key # handler[h].charge.key
     THEN charges' = Append(charges, handler[h].charge)
     ELSE UNCHANGED charges
  /\ Finish(h)
  /\ UNCHANGED <<settlements, balance>>

-----------------------------------------------------------------------------
(* settle_card *)

ReceiveSettle(h, c) ==
  /\ handler[h].at = "idle"
  /\ Continue(h, [at |-> "settle_watermark", card |-> c, watermark |-> 0, newest |-> 0,
                  amount |-> 0, balance |-> 0])
  /\ UNCHANGED tables

ReadSettleWatermark(h) ==
  /\ handler[h].at = "settle_watermark"
  /\ Continue(h, [handler[h] EXCEPT !.at = "settle_newest",
                                    !.watermark = Watermark(handler[h].card)])
  /\ UNCHANGED tables

\* The highest rowid of the card; none above the watermark: nothing to settle.
ReadNewest(h) ==
  LET newest == Max({0} \cup RowsOf(handler[h].card)) IN
  /\ handler[h].at = "settle_newest"
  /\ IF newest <= handler[h].watermark
     THEN Finish(h)
     ELSE Continue(h, [handler[h] EXCEPT !.at = "settle_usage", !.newest = newest])
  /\ UNCHANGED tables

ReadUsage(h) ==
  LET usage == UnsettledUsage(handler[h].card, handler[h].watermark) IN
  /\ handler[h].at = "settle_usage"
  /\ IF usage = 0
     THEN Finish(h)
     ELSE Continue(h, [handler[h] EXCEPT !.at = "settle_balance", !.amount = usage])
  /\ UNCHANGED tables

Covers_Always(funds, amount) == TRUE

Covers(funds, amount) == funds >= amount

ReadBalance(h) ==
  /\ handler[h].at = "settle_balance"
  /\ IF Covers(balance, handler[h].amount)
     THEN Continue(h, [handler[h] EXCEPT !.at = "debit", !.balance = balance])
     ELSE Finish(h)
  /\ UNCHANGED tables

Settled(h) ==
  [card |-> handler[h].card, watermark |-> handler[h].newest, amount |-> handler[h].amount]

Debit_NewestAtWrite(h) ==
  LET newest == Max({0} \cup RowsOf(handler[h].card)) IN
  /\ handler[h].at = "debit"
  /\ settlements' = settlements \cup {[Settled(h) EXCEPT !.watermark = newest]}
  /\ balance' = handler[h].balance - handler[h].amount
  /\ Finish(h)
  /\ UNCHANGED charges

\* The settlement, its DEBIT entry, the balance computed from the one read
\* before and the audit row are one commit. The key of a settlement is its card
\* and new watermark: a second one up to the same row breaks the unique index.
Debit(h) ==
  /\ handler[h].at = "debit"
  /\ IF \A s \in settlements : s.card = handler[h].card => s.watermark # handler[h].newest
     THEN /\ settlements' = settlements \cup {Settled(h)}
          /\ balance' = handler[h].balance - handler[h].amount
     ELSE UNCHANGED <<settlements, balance>>
  /\ Finish(h)
  /\ UNCHANGED charges

-----------------------------------------------------------------------------
\* A locked database, or the end of the process.
Fail(h) ==
  /\ handler[h].at # "idle"
  /\ Finish(h)
  /\ UNCHANGED tables

Step(h) ==
  \/ FindKey(h) \/ ReadChargeWatermark(h) \/ JudgeLimit(h) \/ RecordCharge(h)
  \/ ReadSettleWatermark(h) \/ ReadNewest(h) \/ ReadUsage(h) \/ ReadBalance(h) \/ Debit(h)

Next ==
  \E h \in Handlers :
    \/ \E charge \in Charge : ReceiveCharge(h, charge)
    \/ \E c \in Cards : ReceiveSettle(h, c)
    \/ Step(h)
    \/ Fail(h)

Spec == Init /\ [][Next]_vars

-----------------------------------------------------------------------------
(* Properties that hold *)

\* Every column keeps its type; in particular a settlement never makes the
\* balance negative, although it relies on a balance read before.
TypeOK ==
  /\ charges \in Seq(Charge)
  /\ settlements \subseteq Settlement
  /\ balance \in Nat
  /\ handler \in [Handlers -> {Idle} \cup Charging \cup Settling]

\* A purchase whose request is retried, on however many connections, is charged
\* once.
ChargedOnce ==
  \A i, j \in DOMAIN charges : charges[i].key = charges[j].key => i = j

SettledAmount(c) ==
  MapThenSumSet(LAMBDA s : s.amount, {s \in settlements : s.card = c})

\* No charge escapes: whatever the watermark of a card has passed was paid for
\* by its settlements, even if charges and settlements interleave.
NoChargeForgotten ==
  \A c \in Cards : SettledAmount(c) >= AmountOf({i \in RowsOf(c) : i <= Watermark(c)})

\* Charges that are judged at the same time may pass the limit together, but by
\* no more than one charge for each further thread.
OvershootBounded ==
  \A c \in Cards :
    UnsettledUsage(c, Watermark(c)) <= Limit + (Cardinality(Handlers) - 1) * Max(Amounts)

\* Served one at a time, with failures anywhere, charges and settlements are
\* those of CardAccount: the limit is kept, and a settlement debits exactly the
\* unsettled charges.
Account == INSTANCE CardAccount
             WITH usage <- [c \in Cards |-> UnsettledUsage(c, Watermark(c))]

ActsAsAccount == Account!Spec

=============================================================================
