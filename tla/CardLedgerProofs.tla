-------------------------- MODULE CardLedgerProofs --------------------------
(***************************************************************************)
(* For any numbers of threads, cards, keys and amounts: the columns keep   *)
(* their types, a charge is recorded once per key, no charge is forgotten, *)
(* the limit is passed by no more than the threads that judged together    *)
(* can pass it, and a single thread keeps the account of CardAccount.      *)
(*                                                                         *)
(* A thread works with what it has read. The argument is that it can only  *)
(* be behind: a watermark never goes down and a recorded charge stays, so  *)
(* what a thread has read is a lower bound of what there is. The overshoot *)
(* is bounded by the unsettled charges and those that are judged but not   *)
(* recorded, taken together. A thread that is alone is not behind at all,  *)
(* which makes its steps those of the account.                             *)
(***************************************************************************)
EXTENDS CardLedger, SequenceTheorems, Sums

-----------------------------------------------------------------------------
(* Charges and watermarks, as functions of the tables *)

Rows(ch, c) == {i \in DOMAIN ch : ch[i].card = c}

Above(ch, c, n) == {i \in Rows(ch, c) : i > n}

UpTo(ch, c, n) == {i \in Rows(ch, c) : i <= n}

AmountIn(ch, rows) == SumOver([i \in rows |-> ch[i].amount], rows)

Mark(st, c) == Max({0} \cup {s.watermark : s \in {s \in st : s.card = c}})

PaidFor(st, c) == SumOver([s \in {s \in st : s.card = c} |-> s.amount], {s \in st : s.card = c})

LEMMA AmountComputed ==
  ASSUME NEW ch, NEW rows, IsFiniteSet(rows)
  PROVE  MapThenSumSet(LAMBDA i : ch[i].amount, rows) = AmountIn(ch, rows)
  BY AmountsComputed DEF AmountIn

LEMMA PaidComputed ==
  ASSUME NEW S, IsFiniteSet(S)
  PROVE  MapThenSumSet(LAMBDA s : s.amount, S) = SumOver([s \in S |-> s.amount], S)
<1> DEFINE f == [s \in S |-> s.amount]
           Q(g) == g = [s \in SUBSET S |-> IF s = {} THEN 0
                                           ELSE AnyOf(s).amount + g[s \ {AnyOf(s)}]]
           h == CHOOSE g : Q(g)
<1>1. ASSUME NEW g
      PROVE  Q(g) <=> IsSum(g, f, S)
  <2>1. ASSUME NEW s \in SUBSET S, s # {}
        PROVE  f[AnyOf(s)] = AnyOf(s).amount
    BY <2>1 DEF AnyOf
  <2>2. [s \in SUBSET S |-> IF s = {} THEN 0 ELSE AnyOf(s).amount + g[s \ {AnyOf(s)}]]
          = [s \in SUBSET S |-> IF s = {} THEN 0 ELSE f[AnyOf(s)] + g[s \ {AnyOf(s)}]]
    BY <2>1
  <2> QED
    BY <2>2 DEF IsSum
<1>2. MapThenSumSet(LAMBDA s : s.amount, S) = h[S]
  BY Zenon DEF MapThenSumSet, MapThenFoldSet, AnyOf
<1> HIDE DEF Q, f
<1>3. PICK g : IsSum(g, f, S)
  BY SumExists
<1>4. Q(h)
  BY <1>1, <1>3
<1> HIDE DEF h
<1>5. SumOver(f, S) = h[S]
  BY <1>1, <1>4, SumComputed
<1> QED
  BY <1>2, <1>5 DEF f

\* The rows of a card.
LEMMA RowsFinite ==
  ASSUME NEW ch \in Seq(Charge), NEW c
  PROVE  /\ Rows(ch, c) \subseteq 1..Len(ch) /\ IsFiniteSet(Rows(ch, c))
         /\ \A i \in DOMAIN ch : ch[i] \in Charge /\ ch[i].amount \in Nat
<1>1. Len(ch) \in Nat /\ DOMAIN ch = 1..Len(ch) /\ \A i \in DOMAIN ch : ch[i] \in Charge
  BY LenProperties, ElementOfSeq
<1>2. IsFiniteSet(1..Len(ch))
  BY <1>1, FS_Interval
<1>3. Rows(ch, c) \subseteq 1..Len(ch)
  BY <1>1 DEF Rows
<1>4. IsFiniteSet(Rows(ch, c))
  BY <1>2, <1>3, FS_Subset
<1> QED
  BY <1>1, <1>3, <1>4, CardAssumption DEF Charge

LEMMA AmountNat ==
  ASSUME NEW ch \in Seq(Charge), NEW rows \in SUBSET DOMAIN ch
  PROVE  IsFiniteSet(rows) /\ AmountIn(ch, rows) \in Nat
<1>1. IsFiniteSet(rows)
  <2>1. DOMAIN ch = 1..Len(ch) /\ Len(ch) \in Nat
    BY LenProperties
  <2>2. IsFiniteSet(1..Len(ch))
    BY <2>1, FS_Interval
  <2> QED
    BY <2>1, <2>2, FS_Subset
<1>2. \A i \in rows : ch[i].amount \in Nat
  BY RowsFinite
<1>3. \A i \in rows : [j \in rows |-> ch[j].amount][i] \in Nat
  BY <1>2
<1> QED
  BY <1>1, <1>3, SumNat DEF AmountIn

LEMMA AmountOfOne ==
  ASSUME NEW ch \in Seq(Charge), NEW i \in DOMAIN ch
  PROVE  AmountIn(ch, {i}) = ch[i].amount
<1> DEFINE f == [j \in {i} |-> ch[j].amount]
<1>1. f[i] = ch[i].amount
  OBVIOUS
<1>2. ch[i].amount \in Int
  BY RowsFinite
<1> HIDE DEF f
<1>3. IsFiniteSet({i}) /\ {i} \ {i} = {} /\ \A y \in {i} : f[y] \in Int
  BY <1>1, <1>2, FS_Singleton
<1>4. SumOver(f, {i}) = f[i] + SumOver(f, {i} \ {i})
  BY <1>3, SumRemove
<1>5. SumOver(f, {}) = 0
  BY SumEmpty
<1>6. f[i] + 0 = f[i]
  BY <1>3
<1>7. SumOver(f, {i}) = f[i]
  BY Zenon, <1>3, <1>4, <1>5, <1>6
<1> QED
  BY <1>1, <1>7 DEF AmountIn, f

\* The amount of rows that are split in two.
LEMMA AmountSplit ==
  ASSUME NEW ch \in Seq(Charge), NEW S \in SUBSET DOMAIN ch, NEW T \in SUBSET DOMAIN ch,
         S \cap T = {}
  PROVE  AmountIn(ch, S \cup T) = AmountIn(ch, S) + AmountIn(ch, T)
<1> DEFINE f == [i \in S \cup T |-> ch[i].amount]
<1>1. IsFiniteSet(S) /\ IsFiniteSet(T) /\ \A i \in S \cup T : ch[i].amount \in Nat
  BY AmountNat, RowsFinite
<1>2. \A i \in S \cup T : f[i] \in Int
  BY <1>1
<1>3. SumOver(f, S \cup T) = SumOver(f, S) + SumOver(f, T)
  BY <1>1, <1>2, SumUnion
<1>4. SumOver(f, S) = AmountIn(ch, S)
  <2>1. \A i \in S : f[i] = [j \in S |-> ch[j].amount][i]
    OBVIOUS
  <2> HIDE DEF f
  <2> QED
    BY <1>1, <2>1, SumSame DEF AmountIn
<1>5. SumOver(f, T) = AmountIn(ch, T)
  <2>1. \A i \in T : f[i] = [j \in T |-> ch[j].amount][i]
    OBVIOUS
  <2> HIDE DEF f
  <2> QED
    BY <1>1, <2>1, SumSame DEF AmountIn
<1> QED
  BY <1>3, <1>4, <1>5 DEF AmountIn

LEMMA AmountWithin ==
  ASSUME NEW ch \in Seq(Charge), NEW S \in SUBSET DOMAIN ch, NEW T \in SUBSET S
  PROVE  AmountIn(ch, T) <= AmountIn(ch, S)
<1>1. S = T \cup (S \ T) /\ T \cap (S \ T) = {} /\ T \in SUBSET DOMAIN ch
  OBVIOUS
<1>2. AmountIn(ch, S) = AmountIn(ch, T) + AmountIn(ch, S \ T)
  BY <1>1, AmountSplit
<1>3. AmountIn(ch, T) \in Nat /\ AmountIn(ch, S \ T) \in Nat
  BY <1>1, AmountNat
<1> QED
  BY <1>2, <1>3

\* A charge that is recorded gets the next row; the others stay.
LEMMA AmountAppended ==
  ASSUME NEW ch \in Seq(Charge), NEW e \in Charge
  PROVE  /\ Append(ch, e) \in Seq(Charge) /\ Len(Append(ch, e)) = Len(ch) + 1
         /\ Len(ch) + 1 \notin DOMAIN ch
         /\ DOMAIN Append(ch, e) = DOMAIN ch \cup {Len(ch) + 1}
         /\ \A c : Rows(Append(ch, e), c)
                     = Rows(ch, c) \cup (IF e.card = c THEN {Len(ch) + 1} ELSE {})
         /\ \A rows \in SUBSET DOMAIN ch :
              /\ AmountIn(Append(ch, e), rows) = AmountIn(ch, rows)
              /\ AmountIn(Append(ch, e), rows \cup {Len(ch) + 1}) = AmountIn(ch, rows) + e.amount
<1> DEFINE n == Len(ch) + 1
           after == Append(ch, e)
<1>1. /\ Len(ch) \in Nat /\ DOMAIN ch = 1..Len(ch) /\ after \in Seq(Charge)
      /\ Len(after) = n /\ DOMAIN after = 1..n /\ after[n] = e
      /\ \A i \in 1..Len(ch) : after[i] = ch[i]
  BY LenProperties, AppendProperties
<1> HIDE DEF after
<1>2. n \notin DOMAIN ch /\ DOMAIN after = DOMAIN ch \cup {n}
  BY <1>1
<1>3. \A c : Rows(after, c) = Rows(ch, c) \cup (IF e.card = c THEN {n} ELSE {})
  BY <1>1, <1>2 DEF Rows
<1>4. ASSUME NEW rows \in SUBSET DOMAIN ch
      PROVE  /\ AmountIn(after, rows) = AmountIn(ch, rows)
             /\ AmountIn(after, rows \cup {n}) = AmountIn(ch, rows) + e.amount
  <2>1. AmountIn(after, rows) = AmountIn(ch, rows)
    <3>1. [i \in rows |-> after[i].amount] = [i \in rows |-> ch[i].amount]
      BY <1>1
    <3> QED
      BY <3>1 DEF AmountIn
  <2>2. AmountIn(after, rows \cup {n}) = AmountIn(after, rows) + AmountIn(after, {n})
    BY <1>1, <1>2, AmountSplit
  <2>3. AmountIn(after, {n}) = e.amount
    <3>1. n \in DOMAIN after /\ after[n].amount = e.amount
      BY <1>1
    <3> HIDE DEF n
    <3> QED
      BY <1>1, <3>1, AmountOfOne
  <2> QED
    BY <2>1, <2>2, <2>3
<1> QED
  BY <1>1, <1>2, <1>3, <1>4 DEF after

\* The watermark of a card is that of its last settlement.
LEMMA MarkIs ==
  ASSUME NEW st, st \subseteq Settlement, IsFiniteSet(st), NEW c
  PROVE  /\ Mark(st, c) \in Nat
         /\ Mark(st, c) = 0 \/ \E s \in st : s.card = c /\ s.watermark = Mark(st, c)
         /\ \A s \in st : s.card = c => s.watermark <= Mark(st, c)
<1> DEFINE own == {s \in st : s.card = c}
           marks == {s.watermark : s \in own}
           S == {0} \cup marks
<1>1. IsFiniteSet(own)
  BY FS_Subset
<1>2. IsFiniteSet(marks)
  <2>1. [s \in own |-> s.watermark] \in Surjection(own, marks)
    BY DEF Surjection
  <2> QED
    BY <1>1, <2>1, FS_Surjection
<1>3. IsFiniteSet(S)
  <2>1. IsFiniteSet({0})
    BY FS_Singleton
  <2> HIDE DEF marks
  <2> QED
    BY <1>2, <2>1, FS_Union
<1>4. S \subseteq Int /\ S \subseteq Nat /\ S # {}
  BY DEF Settlement
<1>5. Max(S) \in S /\ \A n \in S : n <= Max(S)
  BY <1>3, <1>4, MaxOfFinite
<1>6. Mark(st, c) = Max(S)
  BY DEF Mark
<1> HIDE DEF S
<1>7. Mark(st, c) \in S /\ \A n \in S : n <= Mark(st, c)
  BY <1>5, <1>6
<1> QED
  BY <1>4, <1>7 DEF S

LEMMA MarkAdded ==
  ASSUME NEW st, st \subseteq Settlement, IsFiniteSet(st), NEW s \in Settlement, NEW c
  PROVE  /\ IsFiniteSet(st \cup {s}) /\ st \cup {s} \subseteq Settlement
         /\ Mark(st, c) <= Mark(st \cup {s}, c)
         /\ s.card # c => Mark(st \cup {s}, c) = Mark(st, c)
         /\ s.card = c => Mark(st \cup {s}, c) \in {Mark(st, c), s.watermark}
                          /\ s.watermark <= Mark(st \cup {s}, c)
<1>1. IsFiniteSet(st \cup {s}) /\ st \cup {s} \subseteq Settlement
  BY FS_AddElement
<1> DEFINE m == Mark(st, c)
           n == Mark(st \cup {s}, c)
<1>2. /\ m \in Nat
      /\ m = 0 \/ \E t \in st : t.card = c /\ t.watermark = m
      /\ \A t \in st : t.card = c => t.watermark <= m
  BY MarkIs
<1>3. /\ n \in Nat
      /\ n = 0 \/ \E t \in st \cup {s} : t.card = c /\ t.watermark = n
      /\ \A t \in st \cup {s} : t.card = c => t.watermark <= n
  BY <1>1, MarkIs
<1>4. s.watermark \in Nat /\ \A t \in st : t.watermark \in Nat
  BY DEF Settlement
<1> HIDE DEF m, n
<1>5. m <= n
  BY <1>2, <1>3
<1>6. s.card # c => n = m
  BY <1>2, <1>3, <1>4, <1>5
<1>7. s.card = c => n \in {m, s.watermark} /\ s.watermark <= n
  BY <1>2, <1>3, <1>4, <1>5
<1> QED
  BY <1>1, <1>5, <1>6, <1>7 DEF m, n

LEMMA PaidNat ==
  ASSUME NEW st, st \subseteq Settlement, IsFiniteSet(st), NEW c
  PROVE  PaidFor(st, c) \in Nat
<1> DEFINE own == {t \in st : t.card = c}
           f == [t \in own |-> t.amount]
<1>1. IsFiniteSet(own) /\ \A t \in own : f[t] \in Nat
  BY FS_Subset DEF Settlement
<1> HIDE DEF f, own
<1>2. SumOver(f, own) \in Nat
  BY <1>1, SumNat
<1> QED
  BY <1>2 DEF PaidFor, f, own

LEMMA PaidAdded ==
  ASSUME NEW st, st \subseteq Settlement, IsFiniteSet(st), NEW s \in Settlement, s \notin st, NEW c
  PROVE  /\ PaidFor(st, c) \in Nat
         /\ PaidFor(st \cup {s}, c) = PaidFor(st, c) + (IF s.card = c THEN s.amount ELSE 0)
<1> DEFINE own == {t \in st : t.card = c}
           both == {t \in st \cup {s} : t.card = c}
           f == [t \in own |-> t.amount]
           g == [t \in both |-> t.amount]
<1>1. IsFiniteSet(own) /\ \A t \in own : t.amount \in Nat
  BY FS_Subset DEF Settlement
<1>2. PaidFor(st, c) \in Nat
  BY PaidNat
<1>3. CASE s.card # c
  <2>1. both = own
    BY <1>3
  <2> QED
    BY <1>2, <1>3, <2>1 DEF PaidFor
<1>4. CASE s.card = c
  <2>1. both = own \cup {s} /\ s \notin own
    BY <1>4
  <2>2. \A t \in own \cup {s} : g[t] = t.amount /\ g[t] \in Int
    BY <2>1 DEF Settlement
  <2>3. \A t \in own : f[t] = g[t]
    BY <2>1
  <2> HIDE DEF own, both, f, g
  <2>4. SumOver(g, own \cup {s}) = SumOver(g, own) + g[s]
    BY <1>1, <2>1, <2>2, SumAdd
  <2>5. SumOver(g, own) = SumOver(f, own)
    BY <1>1, <2>3, SumSame
  <2>6. SumOver(g, both) = SumOver(f, own) + s.amount
    BY <2>1, <2>2, <2>4, <2>5
  <2> QED
    BY <1>2, <1>4, <2>6 DEF PaidFor, own, both, f, g
<1> QED
  BY <1>3, <1>4

-----------------------------------------------------------------------------
(* The invariant *)

Usage(ch, st, c) == AmountIn(ch, Above(ch, c, Mark(st, c)))

Between(ch, c, l, n) == {i \in Rows(ch, c) : l < i /\ i <= n}

Threads == {Idle} \cup Charging \cup Settling

\* The tables and the threads are well formed.
Types ==
  /\ charges \in Seq(Charge)
  /\ settlements \subseteq Settlement /\ IsFiniteSet(settlements)
  /\ balance \in Nat
  /\ handler \in [Handlers -> Threads]

\* What a thread has read is behind what there is: the watermark it holds is not
\* above that of the card, the newest row it found is there, the amount it will
\* debit pays for the rows it will mark, and the balance it saw covers it.
Behind(r, ch, st) ==
  /\ r.at \in {"charge_usage", "record"} => r.watermark <= Mark(st, r.charge.card)
  /\ r.at \in {"settle_newest", "settle_usage", "settle_balance", "debit"} =>
       r.watermark <= Mark(st, r.card)
  /\ r.at \in {"settle_usage", "settle_balance", "debit"} => r.newest <= Len(ch)
  /\ r.at \in {"settle_balance", "debit"} =>
       AmountIn(ch, Between(ch, r.card, r.watermark, r.newest)) <= r.amount
  /\ r.at = "debit" => r.amount <= r.balance

\* What a thread has read is what there is, which a thread alone can rely on.
Current(r, ch, st, b) ==
  /\ r.at \in {"charge_usage", "record"} => r.watermark = Mark(st, r.charge.card)
  /\ r.at = "record" => Usage(ch, st, r.charge.card) + r.charge.amount <= Limit
  /\ r.at \in {"settle_newest", "settle_usage", "settle_balance", "debit"} =>
       r.watermark = Mark(st, r.card)
  /\ r.at \in {"settle_usage", "settle_balance", "debit"} =>
       r.watermark < r.newest /\ \A i \in Rows(ch, r.card) : i <= r.newest
  /\ r.at \in {"settle_balance", "debit"} => r.amount = Usage(ch, st, r.card) /\ r.amount > 0
  /\ r.at = "debit" => r.balance = b /\ r.amount <= b

Reads == \A h \in Handlers : Behind(handler[h], charges, settlements)

\* A settlement marks rows that there are.
Marked == \A s \in settlements : s.watermark <= Len(charges)

\* NoChargeForgotten.
AllPaid ==
  \A c : AmountIn(charges, UpTo(charges, c, Mark(settlements, c))) <= PaidFor(settlements, c)

\* The threads that will record a charge of the card, and its amount.
Judged(hs, c) == {h \in Handlers : hs[h].at = "record" /\ hs[h].charge.card = c}

AmountJudged(hs, c) ==
  SumOver([h \in Judged(hs, c) |-> hs[h].charge.amount], Judged(hs, c))

MaxOvershoot == (Cardinality(Handlers) - 1) * Max(Amounts)

\* The limit with the charges that have been judged and not yet recorded: this
\* is what a judgement keeps within bounds, OvershootBounded follows.
JudgedBounded ==
  \A c \in Cards :
    Usage(charges, settlements, c) + AmountJudged(handler, c) <= Limit + MaxOvershoot

IInv ==
  /\ Types
  /\ ChargedOnce
  /\ Reads
  /\ Marked
  /\ AllPaid
  /\ JudgedBounded

-----------------------------------------------------------------------------
(* The operators of the model in these terms *)

LEMMA ModelComputes ==
  ASSUME charges \in Seq(Charge), IsFiniteSet(settlements)
  PROVE  /\ \A c : RowsOf(c) = Rows(charges, c)
         /\ \A c : Watermark(c) = Mark(settlements, c)
         /\ \A rows \in SUBSET DOMAIN charges : AmountOf(rows) = AmountIn(charges, rows)
         /\ \A c, n : UnsettledUsage(c, n) = AmountIn(charges, Above(charges, c, n))
         /\ \A c : SettledAmount(c) = PaidFor(settlements, c)
<1>1. \A c : RowsOf(c) = Rows(charges, c)
  BY DEF RowsOf, Rows
<1>2. \A c : Watermark(c) = Mark(settlements, c)
  BY DEF Watermark, Mark
<1>3. ASSUME NEW rows \in SUBSET DOMAIN charges
      PROVE  AmountOf(rows) = AmountIn(charges, rows)
  <2>1. IsFiniteSet(rows)
    BY AmountNat
  <2>2. MapThenSumSet(LAMBDA i : charges[i].amount, rows) = AmountIn(charges, rows)
    BY <2>1, AmountComputed
  <2> QED
    BY Zenon, <2>2 DEF AmountOf
<1>4. ASSUME NEW c, NEW n
      PROVE  UnsettledUsage(c, n) = AmountIn(charges, Above(charges, c, n))
  <2>1. {i \in RowsOf(c) : i > n} = Above(charges, c, n)
    BY <1>1 DEF Above
  <2>2. Above(charges, c, n) \in SUBSET DOMAIN charges
    BY DEF Above, Rows
  <2> QED
    BY <1>3, <2>1, <2>2 DEF UnsettledUsage
<1>5. ASSUME NEW c
      PROVE  SettledAmount(c) = PaidFor(settlements, c)
  <2> DEFINE own == {s \in settlements : s.card = c}
  <2>1. IsFiniteSet(own)
    BY FS_Subset
  <2> HIDE DEF own
  <2>2. MapThenSumSet(LAMBDA s : s.amount, own) = SumOver([s \in own |-> s.amount], own)
    BY <2>1, PaidComputed
  <2> QED
    BY Zenon, <2>2 DEF SettledAmount, PaidFor, own
<1> QED
  BY <1>1, <1>2, <1>3, <1>4, <1>5

\* The kinds of record a thread keeps.
LEMMA ThreadIs ==
  ASSUME NEW r \in Threads
  PROVE  /\ r.at \in {"find_key", "charge_watermark", "charge_usage", "record"} => r \in Charging
         /\ r.at \in {"settle_watermark", "settle_newest", "settle_usage", "settle_balance",
                      "debit"} => r \in Settling
         /\ Idle.at = "idle"
  BY DEF Threads, Idle, Charging, Settling

LEMMA ChargingFields ==
  ASSUME NEW r \in Charging
  PROVE  /\ r.charge \in Charge /\ r.charge.card \in Cards /\ r.charge.amount \in Nat
         /\ r.charge.amount \in Amounts /\ r.watermark \in Nat
         /\ r.at \in {"find_key", "charge_watermark", "charge_usage", "record"}
  BY CardAssumption DEF Charging, Charge

LEMMA SettlingFields ==
  ASSUME NEW r \in Settling
  PROVE  /\ r.card \in Cards /\ r.watermark \in Nat /\ r.newest \in Nat /\ r.amount \in Nat
         /\ r.balance \in Nat
         /\ r.at \in {"settle_watermark", "settle_newest", "settle_usage", "settle_balance",
                      "debit"}
  BY DEF Settling

-----------------------------------------------------------------------------
(* What the tables may do without a thread noticing *)

\* Rows that are there keep their amounts when a charge is recorded.
LEMMA BehindAppended ==
  ASSUME NEW ch \in Seq(Charge), NEW e \in Charge, NEW st, NEW r \in Threads,
         Behind(r, ch, st)
  PROVE  Behind(r, Append(ch, e), st)
<1>1. Len(Append(ch, e)) = Len(ch) + 1 /\ Len(ch) \in Nat
  BY AmountAppended, LenProperties
<1>2. CASE r \in Settling
  <2>1. r.newest \in Nat /\ r.watermark \in Nat
        /\ r.at \notin {"charge_usage", "record"}
    BY <1>2, SettlingFields
  <2>2. ASSUME r.newest <= Len(ch)
        PROVE  AmountIn(Append(ch, e), Between(Append(ch, e), r.card, r.watermark, r.newest))
                 = AmountIn(ch, Between(ch, r.card, r.watermark, r.newest))
    <3>1. Between(ch, r.card, r.watermark, r.newest) \in SUBSET DOMAIN ch
      BY DEF Between, Rows
    <3>2. Rows(Append(ch, e), r.card)
            = Rows(ch, r.card) \cup (IF e.card = r.card THEN {Len(ch) + 1} ELSE {})
      BY AmountAppended
    <3>3. ~(Len(ch) + 1 <= r.newest)
      BY <1>1, <2>1, <2>2
    <3>4. Between(Append(ch, e), r.card, r.watermark, r.newest)
            = Between(ch, r.card, r.watermark, r.newest)
      BY <3>2, <3>3 DEF Between
    <3>5. \A rows \in SUBSET DOMAIN ch : AmountIn(Append(ch, e), rows) = AmountIn(ch, rows)
      BY AmountAppended
    <3> QED
      BY <3>1, <3>4, <3>5
  <2>3. r.newest <= Len(ch) => r.newest <= Len(Append(ch, e))
    BY <1>1, <2>1
  <2> QED
    BY <2>1, <2>2, <2>3 DEF Behind
<1>3. CASE r \in Charging
  <2>1. r.at \notin {"settle_newest", "settle_usage", "settle_balance", "debit"}
    BY <1>3, ChargingFields
  <2> QED
    BY <2>1 DEF Behind
<1>4. CASE r = Idle
  BY <1>4 DEF Behind, Idle
<1> QED
  BY <1>2, <1>3, <1>4 DEF Threads

\* A watermark does not go down when a card is settled.
LEMMA BehindSettled ==
  ASSUME NEW ch, NEW st, st \subseteq Settlement, IsFiniteSet(st), NEW s \in Settlement,
         NEW r \in Threads, Behind(r, ch, st)
  PROVE  Behind(r, ch, st \cup {s})
<1>1. \A c : /\ Mark(st, c) \in Nat /\ Mark(st \cup {s}, c) \in Nat
             /\ Mark(st, c) <= Mark(st \cup {s}, c)
  BY MarkIs, MarkAdded
<1>2. CASE r \in Settling
  <2>1. r.watermark \in Nat /\ r.at \notin {"charge_usage", "record"}
    BY <1>2, SettlingFields
  <2>2. r.watermark <= Mark(st, r.card) => r.watermark <= Mark(st \cup {s}, r.card)
    BY <1>1, <2>1
  <2> QED
    BY <2>1, <2>2 DEF Behind
<1>3. CASE r \in Charging
  <2>1. /\ r.watermark \in Nat
        /\ r.at \notin {"settle_newest", "settle_usage", "settle_balance", "debit"}
    BY <1>3, ChargingFields
  <2>2. r.watermark <= Mark(st, r.charge.card)
          => r.watermark <= Mark(st \cup {s}, r.charge.card)
    BY <1>1, <2>1
  <2> QED
    BY <2>1, <2>2 DEF Behind
<1>4. CASE r = Idle
  BY <1>4 DEF Behind, Idle
<1> QED
  BY <1>2, <1>3, <1>4 DEF Threads

-----------------------------------------------------------------------------
(* Every step is a read of one thread, a charge, a debit or a stutter *)

\* The thread goes on with what it has read, or is idle again. What was current
\* still is, for nobody else has taken a step.
ReadStep(h, r) ==
  /\ handler' = [handler EXCEPT ![h] = r]
  /\ UNCHANGED tables
  /\ r \in Threads
  /\ Behind(r, charges, settlements)
  /\ r.at = "record" =>
       Usage(charges, settlements, r.charge.card) + r.charge.amount <= Limit
  /\ Current(handler[h], charges, settlements, balance)
       => Current(r, charges, settlements, balance)

RecordStep(h) ==
  /\ handler[h].at = "record"
  /\ \A i \in DOMAIN charges : charges[i].key # handler[h].charge.key
  /\ charges' = Append(charges, handler[h].charge)
  /\ handler' = [handler EXCEPT ![h] = Idle]
  /\ UNCHANGED <<settlements, balance>>

DebitStep(h) ==
  /\ handler[h].at = "debit"
  /\ \A s \in settlements : s.card = handler[h].card => s.watermark # handler[h].newest
  /\ settlements' = settlements \cup {Settled(h)}
  /\ balance' = handler[h].balance - handler[h].amount
  /\ handler' = [handler EXCEPT ![h] = Idle]
  /\ UNCHANGED charges

LEMMA Ending ==
  ASSUME NEW h \in Handlers, Finish(h), UNCHANGED tables
  PROVE  ReadStep(h, Idle)
<1>1. Idle \in Threads /\ Idle.at = "idle"
  BY DEF Threads, Idle
<1> QED
  BY <1>1 DEF ReadStep, Finish, Continue, Behind, Current

LEMMA ChargeReceived ==
  ASSUME NEW h \in Handlers, NEW charge \in Charge, ReceiveCharge(h, charge)
  PROVE  \E r : ReadStep(h, r)
<1> DEFINE r == [at |-> "find_key", charge |-> charge, watermark |-> 0]
<1>1. r \in Threads /\ r.at = "find_key"
  BY DEF Threads, Charging
<1>2. handler' = [handler EXCEPT ![h] = r] /\ UNCHANGED tables
  BY DEF ReceiveCharge, Continue
<1> HIDE DEF r
<1>3. ReadStep(h, r)
  BY <1>1, <1>2 DEF ReadStep, Behind, Current
<1> QED
  BY <1>3

LEMMA SettleReceived ==
  ASSUME NEW h \in Handlers, NEW c \in Cards, ReceiveSettle(h, c)
  PROVE  \E r : ReadStep(h, r)
<1> DEFINE r == [at |-> "settle_watermark", card |-> c, watermark |-> 0, newest |-> 0,
                 amount |-> 0, balance |-> 0]
<1>1. r \in Threads /\ r.at = "settle_watermark"
  BY DEF Threads, Settling
<1>2. handler' = [handler EXCEPT ![h] = r] /\ UNCHANGED tables
  BY DEF ReceiveSettle, Continue
<1> HIDE DEF r
<1>3. ReadStep(h, r)
  BY <1>1, <1>2 DEF ReadStep, Behind, Current
<1> QED
  BY <1>3

LEMMA KeyFound ==
  ASSUME Types, NEW h \in Handlers, FindKey(h)
  PROVE  \E r : ReadStep(h, r)
<1> DEFINE r == [handler[h] EXCEPT !.at = "charge_watermark"]
<1>1. handler[h] \in Charging
  BY ThreadIs DEF FindKey, Types
<1>2. r \in Charging /\ r.at = "charge_watermark"
  BY <1>1 DEF Charging
<1>3. CASE Continue(h, r)
  <2>1. handler' = [handler EXCEPT ![h] = r] /\ UNCHANGED tables
    BY <1>3 DEF FindKey, Continue
  <2> HIDE DEF r
  <2>2. ReadStep(h, r)
    BY <1>2, <2>1 DEF ReadStep, Behind, Current, Threads
  <2> QED
    BY <2>2
<1>4. CASE Finish(h)
  BY <1>4, Ending DEF FindKey
<1> QED
  BY <1>3, <1>4 DEF FindKey

LEMMA ChargeWatermarkRead ==
  ASSUME Types, NEW h \in Handlers, ReadChargeWatermark(h)
  PROVE  \E r : ReadStep(h, r)
<1> DEFINE w == Watermark(handler[h].charge.card)
           r == [handler[h] EXCEPT !.at = "charge_usage", !.watermark = w]
<1>1. handler[h] \in Charging
  BY ThreadIs DEF ReadChargeWatermark, Types
<1>2. w = Mark(settlements, handler[h].charge.card) /\ w \in Nat
  BY ModelComputes, MarkIs DEF Types
<1>3. handler' = [handler EXCEPT ![h] = r] /\ UNCHANGED tables
  BY DEF ReadChargeWatermark, Continue
<1> HIDE DEF w
<1>4. r \in Charging /\ r.at = "charge_usage" /\ r.watermark = w /\ r.charge = handler[h].charge
  BY <1>1, <1>2 DEF Charging
<1> HIDE DEF r
<1>5. /\ r.watermark <= Mark(settlements, r.charge.card)
      /\ r.watermark = Mark(settlements, r.charge.card)
  BY <1>2, <1>4
<1>6. ReadStep(h, r)
  BY <1>3, <1>4, <1>5 DEF ReadStep, Behind, Current, Threads
<1> QED
  BY <1>6

\* The usage a thread judges is not less than the usage of the card: it starts
\* at a watermark that is not above that of the card.
LEMMA LimitJudged ==
  ASSUME Types, Reads, NEW h \in Handlers, JudgeLimit(h)
  PROVE  \E r : ReadStep(h, r)
<1> DEFINE r == [handler[h] EXCEPT !.at = "record"]
           e == handler[h].charge
           w == handler[h].watermark
           m == Mark(settlements, e.card)
<1>1. handler[h] \in Charging /\ handler[h].at = "charge_usage"
  BY ThreadIs DEF JudgeLimit, Types
<1>2. CASE Finish(h)
  BY <1>2, Ending DEF JudgeLimit
<1>3. CASE /\ WithinLimit(UnsettledUsage(e.card, w), e.amount)
           /\ Continue(h, r)
  <2>1. r \in Charging /\ r.at = "record" /\ r.charge = e /\ r.watermark = w
    BY <1>1 DEF Charging
  <2>2. handler' = [handler EXCEPT ![h] = r] /\ UNCHANGED tables
    BY <1>3 DEF JudgeLimit, Continue
  <2>3. w <= m /\ w \in Nat /\ m \in Nat /\ e.amount \in Nat
    BY <1>1, ChargingFields, MarkIs DEF Reads, Behind, Types
  <2>4. AmountIn(charges, Above(charges, e.card, w)) + e.amount <= Limit
    BY <1>3, ModelComputes DEF WithinLimit, Types
  <2> HIDE DEF r, e, w, m
  <2>5. /\ Above(charges, e.card, w) \in SUBSET DOMAIN charges
        /\ Above(charges, e.card, m) \in SUBSET Above(charges, e.card, w)
    <3>1. DOMAIN charges = 1..Len(charges)
      BY LenProperties DEF Types
    <3>2. \A i \in DOMAIN charges : i > m => i > w
      BY <2>3, <3>1
    <3> QED
      BY <3>2 DEF Above, Rows
  <2>6. Usage(charges, settlements, e.card) = AmountIn(charges, Above(charges, e.card, m))
    BY DEF Usage, m
  <2>7. /\ AmountIn(charges, Above(charges, e.card, m)) \in Nat
        /\ AmountIn(charges, Above(charges, e.card, w)) \in Nat
        /\ AmountIn(charges, Above(charges, e.card, m))
             <= AmountIn(charges, Above(charges, e.card, w))
    BY <2>5, AmountNat, AmountWithin DEF Types
  <2>8. Usage(charges, settlements, e.card) + e.amount <= Limit
    BY <2>3, <2>4, <2>6, <2>7, CardAssumption
  <2>9. r.watermark <= Mark(settlements, r.charge.card)
    BY <2>1, <2>3 DEF m
  <2>10. Behind(r, charges, settlements)
    BY <2>1, <2>9 DEF Behind
  <2>11. Usage(charges, settlements, r.charge.card) + r.charge.amount <= Limit
    BY <2>1, <2>8
  <2>12. ASSUME Current(handler[h], charges, settlements, balance)
         PROVE  Current(r, charges, settlements, balance)
    <3>1. r.watermark = Mark(settlements, r.charge.card)
      BY <1>1, <2>1, <2>12 DEF Current, e, w
    <3> QED
      BY <2>1, <2>11, <3>1 DEF Current
  <2>13. ReadStep(h, r)
    BY <2>1, <2>2, <2>10, <2>11, <2>12 DEF ReadStep, Threads
  <2> QED
    BY <2>13
<1> QED
  BY <1>2, <1>3 DEF JudgeLimit

LEMMA ChargeRecorded ==
  ASSUME NEW h \in Handlers, RecordCharge(h)
  PROVE  RecordStep(h) \/ \E r : ReadStep(h, r)
<1>1. CASE \A i \in DOMAIN charges : charges[i].key # handler[h].charge.key
  BY <1>1 DEF RecordCharge, RecordStep, Finish, Continue
<1>2. CASE ~ \A i \in DOMAIN charges : charges[i].key # handler[h].charge.key
  BY <1>2, Ending DEF RecordCharge, tables
<1> QED
  BY <1>1, <1>2

LEMMA SettleWatermarkRead ==
  ASSUME Types, NEW h \in Handlers, ReadSettleWatermark(h)
  PROVE  \E r : ReadStep(h, r)
<1> DEFINE w == Watermark(handler[h].card)
           r == [handler[h] EXCEPT !.at = "settle_newest", !.watermark = w]
<1>1. handler[h] \in Settling
  BY ThreadIs DEF ReadSettleWatermark, Types
<1>2. w = Mark(settlements, handler[h].card) /\ w \in Nat
  BY ModelComputes, MarkIs DEF Types
<1>3. handler' = [handler EXCEPT ![h] = r] /\ UNCHANGED tables
  BY DEF ReadSettleWatermark, Continue
<1> HIDE DEF w
<1>4. r \in Settling /\ r.at = "settle_newest" /\ r.watermark = w /\ r.card = handler[h].card
  BY <1>1, <1>2 DEF Settling
<1> HIDE DEF r
<1>5. r.watermark <= Mark(settlements, r.card) /\ r.watermark = Mark(settlements, r.card)
  BY <1>2, <1>4
<1>6. ReadStep(h, r)
  BY <1>3, <1>4, <1>5 DEF ReadStep, Behind, Current, Threads
<1> QED
  BY <1>6

\* The newest row of a card.
LEMMA NewestIs ==
  ASSUME charges \in Seq(Charge), NEW c
  PROVE  LET newest == Max({0} \cup RowsOf(c)) IN
         /\ newest \in Nat /\ newest <= Len(charges)
         /\ newest \in {0} \cup Rows(charges, c)
         /\ \A i \in Rows(charges, c) : i <= newest
<1> DEFINE S == {0} \cup Rows(charges, c)
<1>1. RowsOf(c) = Rows(charges, c)
  BY DEF RowsOf, Rows
<1>2. Len(charges) \in Nat /\ Rows(charges, c) \subseteq 1..Len(charges)
      /\ IsFiniteSet(Rows(charges, c))
  BY RowsFinite, LenProperties
<1>3. IsFiniteSet(S) /\ S \subseteq Int /\ S # {}
  <2>1. IsFiniteSet({0})
    BY FS_Singleton
  <2>2. IsFiniteSet(S)
    BY <1>2, <2>1, FS_Union
  <2> QED
    BY <1>2, <2>2
<1> HIDE DEF S
<1>4. Max(S) \in S /\ \A x \in S : x <= Max(S)
  BY <1>3, MaxOfFinite
<1>5. \A x \in S : x \in Nat /\ x <= Len(charges)
  BY <1>2 DEF S
<1> QED
  BY <1>1, <1>4, <1>5 DEF S

LEMMA NewestRead ==
  ASSUME Types, Reads, NEW h \in Handlers, ReadNewest(h)
  PROVE  \E r : ReadStep(h, r)
<1> DEFINE n == Max({0} \cup RowsOf(handler[h].card))
           r == [handler[h] EXCEPT !.at = "settle_usage", !.newest = n]
<1>1. handler[h] \in Settling /\ handler[h].at = "settle_newest"
  BY ThreadIs DEF ReadNewest, Types
<1>2. /\ n \in Nat /\ n <= Len(charges)
      /\ \A i \in Rows(charges, handler[h].card) : i <= n
  BY NewestIs DEF Types
<1>3. CASE Finish(h)
  BY <1>3, Ending DEF ReadNewest
<1>4. CASE Continue(h, r) /\ ~(n <= handler[h].watermark)
  <2>1. handler' = [handler EXCEPT ![h] = r] /\ UNCHANGED tables
    BY <1>4 DEF ReadNewest, Continue
  <2> HIDE DEF n
  <2>2. /\ r \in Settling /\ r.at = "settle_usage" /\ r.newest = n
        /\ r.watermark = handler[h].watermark /\ r.card = handler[h].card
    BY <1>1, <1>2 DEF Settling
  <2>3. handler[h].watermark <= Mark(settlements, handler[h].card)
    BY <1>1 DEF Reads, Behind
  <2>4. handler[h].watermark < n
    BY <1>1, <1>2, <1>4, SettlingFields
  <2> HIDE DEF r
  <2>5. Behind(r, charges, settlements)
    BY <1>2, <2>2, <2>3 DEF Behind
  <2>6. ASSUME Current(handler[h], charges, settlements, balance)
        PROVE  Current(r, charges, settlements, balance)
    <3>1. r.watermark = Mark(settlements, r.card)
      BY <1>1, <2>2, <2>6 DEF Current
    <3>2. r.watermark < r.newest /\ \A i \in Rows(charges, r.card) : i <= r.newest
      BY <1>2, <2>2, <2>4
    <3> QED
      BY <2>2, <3>1, <3>2 DEF Current
  <2>7. ReadStep(h, r)
    BY <2>1, <2>2, <2>5, <2>6 DEF ReadStep, Threads
  <2> QED
    BY <2>7
<1> QED
  BY <1>3, <1>4 DEF ReadNewest

\* The amount of all rows above the watermark pays for those up to the newest
\* row that was read before.
LEMMA UsageRead ==
  ASSUME Types, Reads, NEW h \in Handlers, ReadUsage(h)
  PROVE  \E r : ReadStep(h, r)
<1> DEFINE c == handler[h].card
           w == handler[h].watermark
           n == handler[h].newest
           usage == UnsettledUsage(c, w)
           r == [handler[h] EXCEPT !.at = "settle_balance", !.amount = usage]
<1>1. handler[h] \in Settling /\ handler[h].at = "settle_usage"
  BY ThreadIs DEF ReadUsage, Types
<1>2. CASE Finish(h)
  BY <1>2, Ending DEF ReadUsage
<1>3. CASE Continue(h, r) /\ usage # 0
  <2>1. handler' = [handler EXCEPT ![h] = r] /\ UNCHANGED tables
    BY <1>3 DEF ReadUsage, Continue
  <2>2. w <= Mark(settlements, c) /\ n <= Len(charges)
    BY <1>1 DEF Reads, Behind
  <2>3. usage = AmountIn(charges, Above(charges, c, w))
    BY ModelComputes DEF Types
  <2>4. /\ Above(charges, c, w) \in SUBSET DOMAIN charges
        /\ Between(charges, c, w, n) \in SUBSET Above(charges, c, w)
    <3>1. w \in Nat /\ DOMAIN charges = 1..Len(charges)
      BY <1>1, LenProperties, SettlingFields DEF Types
    <3> HIDE DEF w, n, c
    <3>2. \A i \in DOMAIN charges : w < i => i > w
      BY <3>1
    <3> QED
      BY <3>2 DEF Above, Between, Rows
  <2> HIDE DEF usage
  <2>5. usage \in Nat /\ AmountIn(charges, Between(charges, c, w, n)) <= usage
    BY <2>3, <2>4, AmountNat, AmountWithin DEF Types
  <2>6. /\ r \in Settling /\ r.at = "settle_balance" /\ r.newest = n /\ r.watermark = w
        /\ r.card = c /\ r.amount = usage
    BY <1>1, <2>5 DEF Settling
  <2> HIDE DEF r, c, w, n
  <2>7. Behind(r, charges, settlements)
    BY <2>2, <2>5, <2>6 DEF Behind
  <2>8. ASSUME Current(handler[h], charges, settlements, balance)
        PROVE  Current(r, charges, settlements, balance)
    <3>1. /\ r.watermark = Mark(settlements, r.card)
          /\ r.watermark < r.newest /\ \A i \in Rows(charges, r.card) : i <= r.newest
      BY <1>1, <2>6, <2>8 DEF Current, c, w, n
    <3>2. r.amount = Usage(charges, settlements, r.card)
      BY <2>3, <2>6, <3>1 DEF Usage
    <3>3. r.amount > 0
      BY <1>3, <2>5, <2>6
    <3> QED
      BY <2>6, <3>1, <3>2, <3>3 DEF Current
  <2>9. ReadStep(h, r)
    BY <2>1, <2>6, <2>7, <2>8 DEF ReadStep, Threads
  <2> QED
    BY <2>9
<1> QED
  BY <1>2, <1>3 DEF ReadUsage

LEMMA BalanceRead ==
  ASSUME Types, Reads, NEW h \in Handlers, ReadBalance(h)
  PROVE  \E r : ReadStep(h, r)
<1> DEFINE r == [handler[h] EXCEPT !.at = "debit", !.balance = balance]
<1>1. handler[h] \in Settling /\ handler[h].at = "settle_balance"
  BY ThreadIs DEF ReadBalance, Types
<1>2. CASE Finish(h)
  BY <1>2, Ending DEF ReadBalance
<1>3. CASE Continue(h, r) /\ Covers(balance, handler[h].amount)
  <2>1. handler' = [handler EXCEPT ![h] = r] /\ UNCHANGED tables
    BY <1>3 DEF ReadBalance, Continue
  <2>2. /\ r \in Settling /\ r.at = "debit" /\ r.newest = handler[h].newest
        /\ r.watermark = handler[h].watermark /\ r.card = handler[h].card
        /\ r.amount = handler[h].amount /\ r.balance = balance
    BY <1>1 DEF Settling, Types
  <2>3. handler[h].amount <= balance
    <3>1. handler[h].amount \in Nat /\ balance \in Nat
      BY <1>1, SettlingFields DEF Types
    <3> QED
      BY <1>3, <3>1 DEF Covers
  <2>4. Behind(handler[h], charges, settlements)
    BY DEF Reads
  <2> HIDE DEF r
  <2>5. Behind(r, charges, settlements)
    BY <1>1, <2>2, <2>3, <2>4 DEF Behind
  <2>6. Current(handler[h], charges, settlements, balance)
          => Current(r, charges, settlements, balance)
    BY <1>1, <2>2, <2>3 DEF Current
  <2>7. ReadStep(h, r)
    BY <2>1, <2>2, <2>5, <2>6 DEF ReadStep, Threads
  <2> QED
    BY <2>7
<1> QED
  BY <1>2, <1>3 DEF ReadBalance

LEMMA Debited ==
  ASSUME NEW h \in Handlers, Debit(h)
  PROVE  DebitStep(h) \/ \E r : ReadStep(h, r)
<1>1. CASE \A s \in settlements : s.card = handler[h].card => s.watermark # handler[h].newest
  BY <1>1 DEF Debit, DebitStep, Finish, Continue
<1>2. CASE ~ \A s \in settlements : s.card = handler[h].card => s.watermark # handler[h].newest
  BY <1>2, Ending DEF Debit, tables
<1> QED
  BY <1>1, <1>2

LEMMA StepIs ==
  ASSUME Types, Reads, Next
  PROVE  \E h \in Handlers : (\E r : ReadStep(h, r)) \/ RecordStep(h) \/ DebitStep(h)
<1>1. PICK h \in Handlers :
        \/ \E charge \in Charge : ReceiveCharge(h, charge)
        \/ \E c \in Cards : ReceiveSettle(h, c)
        \/ Step(h)
        \/ Fail(h)
  BY DEF Next
<1>2. CASE \E charge \in Charge : ReceiveCharge(h, charge)
  BY <1>2, ChargeReceived
<1>3. CASE \E c \in Cards : ReceiveSettle(h, c)
  BY <1>3, SettleReceived
<1>4. CASE Step(h)
  BY <1>4, KeyFound, ChargeWatermarkRead, LimitJudged, ChargeRecorded, SettleWatermarkRead,
     NewestRead, UsageRead, BalanceRead, Debited DEF Step
<1>5. CASE Fail(h)
  BY <1>5, Ending DEF Fail
<1> QED
  BY <1>1, <1>2, <1>3, <1>4, <1>5

-----------------------------------------------------------------------------
(* The charges that have been judged *)

LEMMA JudgedFinite ==
  ASSUME NEW hs \in [Handlers -> Threads], NEW c
  PROVE  /\ IsFiniteSet(Judged(hs, c))
         /\ \A h \in Judged(hs, c) : hs[h].charge.amount \in Nat
                                     /\ hs[h].charge.amount \in Amounts
         /\ AmountJudged(hs, c) \in Nat
<1>1. IsFiniteSet(Judged(hs, c))
  <2>1. Judged(hs, c) \subseteq Handlers
    BY DEF Judged
  <2> QED
    BY <2>1, FS_Subset, CardAssumption
<1>2. \A h \in Judged(hs, c) : hs[h].charge.amount \in Nat /\ hs[h].charge.amount \in Amounts
  BY ThreadIs, ChargingFields DEF Judged
<1>3. AmountJudged(hs, c) \in Nat
  <2> DEFINE f == [h \in Judged(hs, c) |-> hs[h].charge.amount]
  <2>1. \A h \in Judged(hs, c) : f[h] \in Nat
    BY <1>2
  <2> HIDE DEF f
  <2>2. SumOver(f, Judged(hs, c)) \in Nat
    BY <1>1, <2>1, SumNat
  <2> QED
    BY <2>2 DEF AmountJudged, f
<1> QED
  BY <1>1, <1>2, <1>3

\* The amount judged by the threads other than h.
JudgedBesides(hs, c, h) ==
  SumOver([k \in Judged(hs, c) \ {h} |-> hs[k].charge.amount], Judged(hs, c) \ {h})

LEMMA LargestAmount == Max(Amounts) \in Nat /\ \A a \in Amounts : a <= Max(Amounts)
<1>1. IsFiniteSet(Amounts) /\ Amounts # {} /\ Amounts \subseteq Int /\ Amounts \subseteq Nat
  BY CardAssumption
<1>2. Max(Amounts) \in Amounts /\ \A a \in Amounts : a <= Max(Amounts)
  BY <1>1, MaxOfFinite
<1> QED
  BY <1>1, <1>2

LEMMA JudgedWithout ==
  ASSUME NEW hs \in [Handlers -> Threads], NEW c, NEW h \in Handlers
  PROVE  /\ JudgedBesides(hs, c, h) \in Nat
         /\ JudgedBesides(hs, c, h) <= MaxOvershoot
         /\ AmountJudged(hs, c) =
              JudgedBesides(hs, c, h)
                + (IF hs[h].at = "record" /\ hs[h].charge.card = c
                   THEN hs[h].charge.amount ELSE 0)
<1> DEFINE J == Judged(hs, c)
           f == [k \in J |-> hs[k].charge.amount]
           g == [k \in J \ {h} |-> hs[k].charge.amount]
           top == Max(Amounts)
<1>1. /\ IsFiniteSet(Handlers) /\ J \in SUBSET Handlers /\ IsFiniteSet(J \ {h})
      /\ \A k \in J : hs[k].charge.amount \in Nat /\ hs[k].charge.amount \in Amounts
  <2>1. J \in SUBSET Handlers
    BY DEF Judged
  <2>2. IsFiniteSet(J \ {h})
    BY <2>1, FS_Subset, CardAssumption
  <2> QED
    BY <2>1, <2>2, JudgedFinite, CardAssumption
<1>2. top \in Nat /\ \A a \in Amounts : a <= top
  BY LargestAmount
<1>3. /\ SumOver(f, J \ {h}) \in Nat
      /\ SumOver(f, J \ {h}) <= (Cardinality(Handlers) - 1) * top
      /\ h \in J => SumOver(f, J) = SumOver(f, J \ {h}) + f[h]
      /\ h \notin J => SumOver(f, J) = SumOver(f, J \ {h})
  <2>1. \A k \in J : f[k] \in 0..top
    BY <1>1, <1>2
  <2>2. IsFiniteSet(Handlers) /\ J \in SUBSET Handlers /\ top \in Nat
    BY <1>1, <1>2
  <2> HIDE DEF f, J, top
  <2> QED
    BY <2>1, <2>2, SumOthers
<1>4. SumOver(f, J \ {h}) = JudgedBesides(hs, c, h)
  <2>1. \A k \in J \ {h} : f[k] = g[k]
    OBVIOUS
  <2> HIDE DEF f, g
  <2>2. SumOver(f, J \ {h}) = SumOver(g, J \ {h})
    BY <1>1, <2>1, SumSame
  <2> QED
    BY <2>2 DEF JudgedBesides, g
<1>5. h \in J <=> hs[h].at = "record" /\ hs[h].charge.card = c
  BY DEF Judged
<1>6. AmountJudged(hs, c) = SumOver(f, J) /\ (h \in J => f[h] = hs[h].charge.amount)
  BY DEF AmountJudged
<1> HIDE DEF f, g, J
<1> QED
  BY <1>3, <1>4, <1>5, <1>6 DEF MaxOvershoot, top

LEMMA OvershootInt == MaxOvershoot \in Nat
<1>1. /\ Cardinality(Handlers) \in Nat /\ Cardinality(Handlers) # 0
  BY CardAssumption, FS_CardinalityType, FS_EmptySet
<1>2. Max(Amounts) \in Nat
  BY LargestAmount
<1>3. ASSUME NEW n \in Nat, n # 0, NEW t \in Nat
      PROVE  (n - 1) * t \in Nat
  <2>1. n - 1 \in Nat
    BY <1>3
  <2>2. \A k \in Nat : k * t \in Nat
    OBVIOUS
  <2> QED
    BY <2>1, <2>2
<1> QED
  BY <1>1, <1>2, <1>3 DEF MaxOvershoot

\* A step of h leaves what the others have judged alone.
LEMMA OthersJudged ==
  ASSUME NEW hs \in [Handlers -> Threads], NEW after \in [Handlers -> Threads],
         NEW h \in Handlers, \A k \in Handlers \ {h} : after[k] = hs[k], NEW c
  PROVE  JudgedBesides(after, c, h) = JudgedBesides(hs, c, h)
<1>1. Judged(after, c) \ {h} = Judged(hs, c) \ {h}
  BY DEF Judged
<1>2. [k \in Judged(after, c) \ {h} |-> after[k].charge.amount]
        = [k \in Judged(hs, c) \ {h} |-> hs[k].charge.amount]
  BY <1>1 DEF Judged
<1> QED
  BY Zenon, <1>1, <1>2 DEF JudgedBesides

-----------------------------------------------------------------------------
(* A read *)

LEMMA ReadKeeps ==
  ASSUME IInv, NEW h \in Handlers, NEW r, ReadStep(h, r)
  PROVE  IInv'
<1>1. /\ handler \in [Handlers -> Threads] /\ r \in Threads
      /\ handler' = [handler EXCEPT ![h] = r]
      /\ UNCHANGED <<charges, settlements, balance>>
  BY DEF IInv, Types, ReadStep, tables
<1>2. Types'
  BY <1>1 DEF IInv, Types
<1>3. ChargedOnce' /\ Marked' /\ AllPaid'
  BY <1>1 DEF IInv, ChargedOnce, Marked, AllPaid
<1>4. Reads'
  <2> SUFFICES ASSUME NEW k \in Handlers
               PROVE  Behind(handler'[k], charges, settlements)
    BY <1>1 DEF Reads
  <2>1. handler'[k] = r \/ handler'[k] = handler[k]
    BY <1>1
  <2> QED
    BY <2>1 DEF IInv, Reads, ReadStep
<1>5. JudgedBounded'
  <2> SUFFICES ASSUME NEW c \in Cards
               PROVE  Usage(charges, settlements, c) + AmountJudged(handler', c)
                        <= Limit + MaxOvershoot
    BY <1>1 DEF JudgedBounded, MaxOvershoot
  <2> DEFINE u == Usage(charges, settlements, c)
             b == JudgedBesides(handler, c, h)
  <2>1. u \in Nat
    <3>1. Above(charges, c, Mark(settlements, c)) \in SUBSET DOMAIN charges
      BY DEF Above, Rows
    <3> QED
      BY <3>1, AmountNat DEF Usage, IInv, Types
  <2>2. /\ b \in Nat /\ b <= MaxOvershoot
        /\ AmountJudged(handler, c) =
             b + (IF handler[h].at = "record" /\ handler[h].charge.card = c
                  THEN handler[h].charge.amount ELSE 0)
    BY <1>1, JudgedWithout
  <2>3. AmountJudged(handler', c) =
          b + (IF r.at = "record" /\ r.charge.card = c THEN r.charge.amount ELSE 0)
    <3>1. handler' \in [Handlers -> Threads] /\ handler'[h] = r
      BY <1>1
    <3>2. JudgedBesides(handler', c, h) = b
      <4>1. \A k \in Handlers \ {h} : handler'[k] = handler[k]
        BY <1>1
      <4>2. handler \in [Handlers -> Threads] /\ handler' \in [Handlers -> Threads]
        BY <1>1, <3>1
      <4> QED
        BY <4>1, <4>2, OthersJudged
    <3>3. AmountJudged(handler', c) = JudgedBesides(handler', c, h)
             + (IF handler'[h].at = "record" /\ handler'[h].charge.card = c
                THEN handler'[h].charge.amount ELSE 0)
      BY <3>1, JudgedWithout
    <3> QED
      BY <3>1, <3>2, <3>3
  <2>4. u + AmountJudged(handler, c) <= Limit + MaxOvershoot
    BY DEF IInv, JudgedBounded
  <2>5. Limit \in Nat /\ MaxOvershoot \in Int
    BY CardAssumption, OvershootInt
  <2> HIDE DEF u, b
  <2>6. CASE r.at = "record" /\ r.charge.card = c
    <3>1. r.charge.amount \in Nat
      BY <1>1, <2>6, ThreadIs, ChargingFields
    <3>2. u + r.charge.amount <= Limit
      BY <2>6 DEF ReadStep, u
    <3>3. AmountJudged(handler', c) = b + r.charge.amount
      BY <2>3, <2>6
    <3>4. u + (b + r.charge.amount) <= Limit + MaxOvershoot
      BY <2>1, <2>2, <2>5, <3>1, <3>2
    <3> QED
      BY <3>3, <3>4 DEF u
  <2>7. CASE ~(r.at = "record" /\ r.charge.card = c)
    <3>1. AmountJudged(handler', c) = b
      BY <2>2, <2>3, <2>7
    <3>2. b <= AmountJudged(handler, c) /\ AmountJudged(handler, c) \in Nat
      <4>1. CASE handler[h].at = "record" /\ handler[h].charge.card = c
        <5>1. handler[h].charge.amount \in Nat
          BY <1>1, <4>1, ThreadIs, ChargingFields
        <5>2. AmountJudged(handler, c) = b + handler[h].charge.amount
          BY <2>2, <4>1
        <5> QED
          BY <2>2, <5>1, <5>2
      <4>2. CASE ~(handler[h].at = "record" /\ handler[h].charge.card = c)
        BY <2>2, <4>2
      <4> QED
        BY <4>1, <4>2
    <3>3. u + b <= Limit + MaxOvershoot
      BY <2>1, <2>2, <2>4, <2>5, <3>2
    <3> QED
      BY <3>1, <3>3 DEF u
  <2> QED
    BY <2>6, <2>7
<1> QED
  BY <1>2, <1>3, <1>4, <1>5 DEF IInv

-----------------------------------------------------------------------------
(* A charge *)

\* What is judged when h becomes idle.
LEMMA JudgedIdle ==
  ASSUME NEW hs \in [Handlers -> Threads], NEW after \in [Handlers -> Threads],
         NEW h \in Handlers, \A k \in Handlers \ {h} : after[k] = hs[k],
         after[h].at = "idle", NEW c
  PROVE  /\ AmountJudged(after, c) = JudgedBesides(hs, c, h)
         /\ JudgedBesides(hs, c, h) \in Nat
<1>1. JudgedBesides(after, c, h) = JudgedBesides(hs, c, h)
  BY OthersJudged
<1>2. /\ JudgedBesides(after, c, h) \in Nat
      /\ AmountJudged(after, c) = JudgedBesides(after, c, h)
           + (IF after[h].at = "record" /\ after[h].charge.card = c
              THEN after[h].charge.amount ELSE 0)
  BY JudgedWithout
<1>3. AmountJudged(after, c) = JudgedBesides(after, c, h) + 0
  BY <1>2
<1> QED
  BY <1>1, <1>2, <1>3

\* The watermark of a card marks a row that there is.
LEMMA MarkWithin ==
  ASSUME Types, Marked, NEW c
  PROVE  Mark(settlements, c) \in Nat /\ Mark(settlements, c) <= Len(charges)
<1>1. /\ Mark(settlements, c) \in Nat
      /\ Mark(settlements, c) = 0
           \/ \E s \in settlements : s.card = c /\ s.watermark = Mark(settlements, c)
  BY MarkIs DEF Types
<1>2. Len(charges) \in Nat
  BY LenProperties DEF Types
<1> QED
  BY <1>1, <1>2 DEF Marked

\* The usage of its card grows by a charge that is recorded.
LEMMA UsageCharged ==
  ASSUME Types, Marked, NEW h \in Handlers, RecordStep(h), NEW c
  PROVE  /\ Usage(charges, settlements, c) \in Nat
         /\ Usage(charges', settlements, c) =
              Usage(charges, settlements, c)
                + (IF handler[h].charge.card = c THEN handler[h].charge.amount ELSE 0)
<1> DEFINE e == handler[h].charge
           n == Len(charges) + 1
           m == Mark(settlements, c)
           rows == Above(charges, c, m)
<1>1. e \in Charge /\ charges \in Seq(Charge) /\ charges' = Append(charges, e)
  BY ThreadIs, ChargingFields DEF Types, RecordStep
<1>2. rows \in SUBSET DOMAIN charges
  BY DEF Above, Rows
<1>3. n > m
  <2>1. Len(charges) \in Nat
    BY <1>1, LenProperties
  <2> QED
    BY <2>1, MarkWithin
<1> HIDE DEF e
<1>4. /\ Rows(charges', c) = Rows(charges, c) \cup (IF e.card = c THEN {n} ELSE {})
      /\ AmountIn(charges', rows) = AmountIn(charges, rows)
      /\ AmountIn(charges', rows \cup {n}) = AmountIn(charges, rows) + e.amount
      /\ AmountIn(charges, rows) \in Nat
  BY <1>1, <1>2, AmountAppended, AmountNat
<1>5. /\ Usage(charges, settlements, c) = AmountIn(charges, rows)
      /\ Usage(charges', settlements, c) = AmountIn(charges', Above(charges', c, m))
  BY DEF Usage
<1>6. CASE e.card = c
  <2>1. Above(charges', c, m) = rows \cup {n}
    <3> HIDE DEF m, n
    <3> QED
      BY <1>3, <1>4, <1>6 DEF Above
  <2> HIDE DEF rows, m, n
  <2>2. Usage(charges', settlements, c) = Usage(charges, settlements, c) + e.amount
    BY <1>4, <1>5, <2>1
  <2> QED
    BY <1>4, <1>5, <1>6, <2>2 DEF e
<1>7. CASE e.card # c
  <2>1. Above(charges', c, m) = rows
    BY <1>4, <1>7 DEF Above
  <2> HIDE DEF rows, m
  <2>2. Usage(charges', settlements, c) = Usage(charges, settlements, c)
    BY <1>4, <1>5, <2>1
  <2>3. Usage(charges, settlements, c) + 0 = Usage(charges, settlements, c)
    BY <1>4, <1>5
  <2> QED
    BY <1>4, <1>5, <1>7, <2>2, <2>3 DEF e
<1> QED
  BY <1>6, <1>7

LEMMA ChargedOnceKept ==
  ASSUME Types, ChargedOnce, NEW h \in Handlers, RecordStep(h)
  PROVE  ChargedOnce'
<1>1. handler[h].charge \in Charge
  BY ThreadIs, ChargingFields DEF Types, RecordStep
<1> SUFFICES ASSUME NEW i \in DOMAIN charges', NEW j \in DOMAIN charges',
                    charges'[i].key = charges'[j].key
             PROVE  i = j
  BY DEF ChargedOnce
<1>2. /\ Len(charges) \in Nat
      /\ DOMAIN charges = 1 .. Len(charges)
      /\ DOMAIN charges' = 1 .. Len(charges) + 1
      /\ charges'[Len(charges) + 1] = handler[h].charge
      /\ \A n \in 1 .. Len(charges) : charges'[n] = charges[n]
  BY <1>1 DEF Types, RecordStep
<1> QED
  BY <1>2 DEF ChargedOnce, RecordStep

LEMMA ChargeKeeps ==
  ASSUME IInv, NEW h \in Handlers, RecordStep(h)
  PROVE  IInv'
<1> DEFINE e == handler[h].charge
           n == Len(charges) + 1
<1>1. /\ e \in Charge /\ e.amount \in Nat /\ handler \in [Handlers -> Threads]
      /\ handler[h].at = "record" /\ charges \in Seq(Charge)
  BY ThreadIs, ChargingFields DEF IInv, Types, RecordStep
<1>2. /\ charges' = Append(charges, e) /\ UNCHANGED <<settlements, balance>>
      /\ handler' = [handler EXCEPT ![h] = Idle]
  BY DEF RecordStep
<1>3. Idle \in Threads /\ Idle.at = "idle"
  BY DEF Threads, Idle
<1> HIDE DEF e
<1>4. /\ charges' \in Seq(Charge) /\ Len(charges') = n /\ Len(charges) \in Nat
      /\ n \notin DOMAIN charges /\ DOMAIN charges' = DOMAIN charges \cup {n}
      /\ \A c : Rows(charges', c) = Rows(charges, c) \cup (IF e.card = c THEN {n} ELSE {})
  BY <1>1, <1>2, AmountAppended, LenProperties
<1>5. \A rows \in SUBSET DOMAIN charges :
        /\ AmountIn(charges', rows) = AmountIn(charges, rows)
        /\ AmountIn(charges', rows \cup {n}) = AmountIn(charges, rows) + e.amount
  BY <1>1, <1>2, AmountAppended
<1>6. Types'
  <2>1. handler' \in [Handlers -> Threads]
    BY <1>1, <1>2, <1>3
  <2> QED
    BY <1>2, <1>4, <2>1 DEF IInv, Types
<1>7. ChargedOnce'
  BY ChargedOnceKept DEF IInv
<1>8. Reads'
  <2> SUFFICES ASSUME NEW k \in Handlers
               PROVE  Behind(handler'[k], charges', settlements)
    BY <1>2 DEF Reads
  <2>1. CASE k = h
    <3>1. handler'[k] = Idle
      BY <1>1, <1>2, <2>1
    <3> QED
      BY <1>3, <3>1 DEF Behind
  <2>2. CASE k # h
    <3>1. handler'[k] = handler[k] /\ handler[k] \in Threads
      BY <1>1, <1>2, <2>2
    <3>2. Behind(handler[k], charges, settlements)
      BY DEF IInv, Reads
    <3>3. Behind(handler[k], Append(charges, e), settlements)
      BY <1>1, <3>1, <3>2, BehindAppended
    <3> QED
      BY <1>2, <3>1, <3>3
  <2> QED
    BY <2>1, <2>2
<1>9. Marked'
  <2>1. \A s \in settlements : s.watermark \in Nat /\ s.watermark <= Len(charges)
    BY DEF IInv, Types, Marked, Settlement
  <2> QED
    BY <1>2, <1>4, <2>1 DEF Marked
<1>10. \A c : Mark(settlements, c) \in Nat /\ Mark(settlements, c) < n
  BY <1>4, MarkWithin DEF IInv
<1>11. AllPaid'
  <2> SUFFICES ASSUME NEW c
               PROVE  AmountIn(charges', UpTo(charges', c, Mark(settlements, c)))
                        <= PaidFor(settlements, c)
    BY <1>2 DEF AllPaid
  <2>1. UpTo(charges', c, Mark(settlements, c)) = UpTo(charges, c, Mark(settlements, c))
    <3>1. ~(n <= Mark(settlements, c))
      BY <1>4, <1>10
    <3> HIDE DEF n
    <3> QED
      BY <1>4, <3>1 DEF UpTo
  <2>2. UpTo(charges, c, Mark(settlements, c)) \in SUBSET DOMAIN charges
    BY DEF UpTo, Rows
  <2>3. AmountIn(charges', UpTo(charges, c, Mark(settlements, c)))
          = AmountIn(charges, UpTo(charges, c, Mark(settlements, c)))
    BY <1>5, <2>2
  <2> QED
    BY <2>1, <2>3 DEF IInv, AllPaid
<1>12. JudgedBounded'
  <2> SUFFICES ASSUME NEW c \in Cards
               PROVE  Usage(charges', settlements, c) + AmountJudged(handler', c)
                        <= Limit + MaxOvershoot
    BY <1>2 DEF JudgedBounded, MaxOvershoot
  <2> DEFINE u == Usage(charges, settlements, c)
             b == JudgedBesides(handler, c, h)
  <2>1. AmountJudged(handler', c) = b /\ b \in Nat
    <3>1. handler \in [Handlers -> Threads] /\ handler' \in [Handlers -> Threads]
      BY <1>1, <1>2, <1>3
    <3>2. handler'[h].at = "idle" /\ \A k \in Handlers \ {h} : handler'[k] = handler[k]
      BY <1>1, <1>2, <1>3
    <3> QED
      BY <3>1, <3>2, JudgedIdle
  <2>2. u + AmountJudged(handler, c) <= Limit + MaxOvershoot
    BY DEF IInv, JudgedBounded
  <2>3. AmountJudged(handler, c) =
          b + (IF handler[h].at = "record" /\ handler[h].charge.card = c
               THEN handler[h].charge.amount ELSE 0)
    BY <1>1, JudgedWithout
  <2>4. u \in Nat /\ Usage(charges', settlements, c) = u + (IF e.card = c THEN e.amount ELSE 0)
    BY UsageCharged DEF IInv, e
  <2> HIDE DEF u, b
  <2>5. CASE e.card = c
    <3>1. Usage(charges', settlements, c) = u + e.amount
      BY <2>4, <2>5
    <3>2. AmountJudged(handler, c) = b + e.amount
      BY <1>1, <2>3, <2>5 DEF e
    <3>3. u + (b + e.amount) = (u + e.amount) + b
      BY <1>1, <2>1, <2>4
    <3> QED
      BY <2>1, <2>2, <3>1, <3>2, <3>3
  <2>6. CASE e.card # c
    <3>1. Usage(charges', settlements, c) = u
      BY <2>4, <2>6
    <3>2. AmountJudged(handler, c) = b
      BY <2>1, <2>3, <2>6 DEF e
    <3> QED
      BY <2>1, <2>2, <3>1, <3>2
  <2> QED
    BY <2>5, <2>6
<1> QED
  BY <1>6, <1>7, <1>8, <1>9, <1>11, <1>12 DEF IInv

-----------------------------------------------------------------------------
(* A debit *)

\* What the debit pays and marks: when its watermark is that of the card from
\* now on, the rows between were among those it pays for.
LEMMA PaidWhenSettled ==
  ASSUME IInv, NEW h \in Handlers, DebitStep(h), NEW c
  PROVE  AmountIn(charges, UpTo(charges, c, Mark(settlements', c))) <= PaidFor(settlements', c)
<1> DEFINE s == Settled(h)
           m == Mark(settlements, c)
           w == handler[h].watermark
           n == handler[h].newest
           old == AmountIn(charges, UpTo(charges, c, m))
<1>1. handler[h] \in Settling /\ handler[h].at = "debit"
  BY ThreadIs DEF IInv, Types, DebitStep
<1>2. /\ s \in Settlement /\ s.card = handler[h].card /\ s.watermark = n
      /\ s.amount = handler[h].amount /\ s.amount \in Nat /\ n \in Nat /\ w \in Nat
  BY <1>1, SettlingFields DEF Settled, Settlement
<1>3. s \notin settlements
  BY <1>2 DEF DebitStep
<1>4. settlements \subseteq Settlement /\ IsFiniteSet(settlements) /\ charges \in Seq(Charge)
  BY DEF IInv, Types
<1>5. settlements' = settlements \cup {s}
  BY DEF DebitStep
<1>6. m \in Nat /\ old <= PaidFor(settlements, c) /\ old \in Nat
  <2>1. UpTo(charges, c, m) \in SUBSET DOMAIN charges
    BY DEF UpTo, Rows
  <2> QED
    BY <1>4, <2>1, AmountNat, MarkIs DEF IInv, AllPaid
<1> HIDE DEF s
<1>7. /\ PaidFor(settlements, c) \in Nat
      /\ PaidFor(settlements', c) = PaidFor(settlements, c) + (IF s.card = c THEN s.amount ELSE 0)
  BY <1>2, <1>3, <1>4, <1>5, PaidAdded
<1>8. /\ s.card # c => Mark(settlements', c) = m
      /\ s.card = c => Mark(settlements', c) \in {m, n}
  BY <1>2, <1>4, <1>5, MarkAdded
<1>9. CASE Mark(settlements', c) = m
  <2>1. PaidFor(settlements, c) <= PaidFor(settlements', c)
    BY <1>2, <1>7
  <2>2. PaidFor(settlements', c) \in Nat
    BY <1>2, <1>7
  <2> HIDE DEF m, old
  <2> QED
    BY <1>6, <1>7, <1>9, <2>1, <2>2 DEF old
<1>10. CASE s.card = c /\ Mark(settlements', c) = n /\ n > m
  <2>1. w <= m /\ n <= Len(charges)
        /\ AmountIn(charges, Between(charges, c, w, n)) <= s.amount
    BY <1>1, <1>2, <1>10 DEF IInv, Reads, Behind
  <2> HIDE DEF w, m, n, old
  <2>2. \A i \in DOMAIN charges : i \in Nat
    BY <1>4, LenProperties
  <2>3. UpTo(charges, c, n) = UpTo(charges, c, m) \cup Between(charges, c, m, n)
    BY <1>2, <1>6, <1>10, <2>2 DEF UpTo, Between, Rows
  <2>4. UpTo(charges, c, m) \cap Between(charges, c, m, n) = {}
    BY <1>6, <2>2 DEF UpTo, Between, Rows
  <2>5. /\ UpTo(charges, c, m) \in SUBSET DOMAIN charges
        /\ Between(charges, c, m, n) \in SUBSET DOMAIN charges
        /\ Between(charges, c, w, n) \in SUBSET DOMAIN charges
    BY DEF UpTo, Between, Rows
  <2>6. Between(charges, c, m, n) \in SUBSET Between(charges, c, w, n)
    BY <1>2, <1>6, <2>1, <2>2 DEF Between, Rows
  <2>7. AmountIn(charges, UpTo(charges, c, n)) = old + AmountIn(charges, Between(charges, c, m, n))
    BY <1>4, <2>3, <2>4, <2>5, AmountSplit DEF old
  <2>8. AmountIn(charges, Between(charges, c, m, n)) <= AmountIn(charges, Between(charges, c, w, n))
    BY <1>4, <2>5, <2>6, AmountWithin
  <2>9. /\ AmountIn(charges, Between(charges, c, m, n)) \in Nat
        /\ AmountIn(charges, Between(charges, c, w, n)) \in Nat
    BY <1>4, <2>5, AmountNat
  <2>10. PaidFor(settlements', c) = PaidFor(settlements, c) + s.amount
    BY <1>7, <1>10
  <2>11. AmountIn(charges, UpTo(charges, c, n)) <= PaidFor(settlements', c)
    BY <1>2, <1>6, <1>7, <2>1, <2>7, <2>8, <2>9, <2>10
  <2> QED
    BY <1>10, <2>11
<1> QED
  <2>1. settlements' \subseteq Settlement /\ IsFiniteSet(settlements') /\ m <= Mark(settlements', c)
    BY <1>2, <1>4, <1>5, MarkAdded
  <2>2. Mark(settlements', c) # m => s.card = c /\ Mark(settlements', c) = n
    BY <1>8
  <2> HIDE DEF m, n
  <2> QED
    BY <1>2, <1>6, <1>9, <1>10, <2>1, <2>2

LEMMA DebitKeeps ==
  ASSUME IInv, NEW h \in Handlers, DebitStep(h)
  PROVE  IInv'
<1> DEFINE s == Settled(h)
<1>1. /\ handler[h] \in Settling /\ handler[h].at = "debit" /\ charges \in Seq(Charge)
      /\ handler \in [Handlers -> Threads]
      /\ settlements \subseteq Settlement /\ IsFiniteSet(settlements)
  BY ThreadIs DEF IInv, Types, DebitStep
<1>2. /\ s \in Settlement /\ s.watermark = handler[h].newest /\ s.watermark \in Nat
  BY <1>1, SettlingFields DEF Settled, Settlement
<1>3. /\ settlements' = settlements \cup {s} /\ UNCHANGED charges
      /\ handler' = [handler EXCEPT ![h] = Idle]
  BY DEF DebitStep
<1> HIDE DEF s
<1>4. Idle \in Threads /\ Idle.at = "idle"
  BY DEF Threads, Idle
<1>5. Types'
  <2>1. handler' \in [Handlers -> Threads]
    BY <1>1, <1>3, <1>4
  <2>2. balance' \in Nat
    <3>1. /\ handler[h].amount \in Nat /\ handler[h].balance \in Nat
          /\ handler[h].amount <= handler[h].balance
      BY <1>1, SettlingFields DEF IInv, Reads, Behind
    <3> QED
      BY <3>1 DEF DebitStep
  <2>3. settlements' \subseteq Settlement /\ IsFiniteSet(settlements')
    BY <1>1, <1>2, <1>3, MarkAdded
  <2> QED
    BY <1>1, <1>3, <2>1, <2>2, <2>3 DEF Types
<1>6. ChargedOnce'
  BY <1>3 DEF IInv, ChargedOnce
<1>7. Reads'
  <2> SUFFICES ASSUME NEW k \in Handlers
               PROVE  Behind(handler'[k], charges, settlements')
    BY <1>3 DEF Reads
  <2>1. CASE k = h
    <3>1. handler'[k] = Idle
      BY <1>1, <1>3, <2>1
    <3> QED
      BY <1>4, <3>1 DEF Behind
  <2>2. CASE k # h
    <3>1. handler'[k] = handler[k] /\ handler[k] \in Threads
      BY <1>1, <1>3, <2>2
    <3>2. Behind(handler[k], charges, settlements)
      BY DEF IInv, Reads
    <3>3. Behind(handler[k], charges, settlements \cup {s})
      BY <1>1, <1>2, <3>1, <3>2, BehindSettled
    <3> QED
      BY <1>3, <3>1, <3>3
  <2> QED
    BY <2>1, <2>2
<1>8. Marked'
  <2>1. handler[h].newest <= Len(charges)
    BY <1>1 DEF IInv, Reads, Behind
  <2> QED
    BY <1>2, <1>3, <2>1 DEF IInv, Marked
<1>9. AllPaid'
  BY <1>3, PaidWhenSettled DEF AllPaid
<1>10. JudgedBounded'
  <2> SUFFICES ASSUME NEW c \in Cards
               PROVE  Usage(charges, settlements', c) + AmountJudged(handler', c)
                        <= Limit + MaxOvershoot
    BY <1>3 DEF JudgedBounded, MaxOvershoot
  <2> DEFINE m == Mark(settlements, c)
             l == Mark(settlements', c)
             b == JudgedBesides(handler, c, h)
  <2>1. AmountJudged(handler', c) = b /\ b \in Nat
    <3>1. handler \in [Handlers -> Threads] /\ handler' \in [Handlers -> Threads]
      BY <1>1, <1>3, <1>4
    <3>2. handler'[h].at = "idle" /\ \A k \in Handlers \ {h} : handler'[k] = handler[k]
      BY <1>1, <1>3, <1>4
    <3> QED
      BY <3>1, <3>2, JudgedIdle
  <2>2. AmountJudged(handler, c) = b + 0
    <3>1. AmountJudged(handler, c) =
            b + (IF handler[h].at = "record" /\ handler[h].charge.card = c
                 THEN handler[h].charge.amount ELSE 0)
      BY <1>1, JudgedWithout
    <3>2. ~(handler[h].at = "record" /\ handler[h].charge.card = c)
      BY <1>1
    <3> QED
      BY <3>1, <3>2
  <2>3. m \in Nat /\ m <= l
    BY <1>1, <1>2, <1>3, MarkAdded, MarkIs
  <2>4. l \in Nat
    BY <1>5, MarkIs DEF Types
  <2>5. /\ Above(charges, c, m) \in SUBSET DOMAIN charges
        /\ Above(charges, c, l) \in SUBSET Above(charges, c, m)
    <3>1. \A i \in DOMAIN charges : i \in Nat
      BY <1>1, LenProperties
    <3> HIDE DEF l, m
    <3>2. \A i \in DOMAIN charges : i > l => i > m
      BY <2>3, <2>4, <3>1
    <3> QED
      BY <3>2 DEF Above, Rows
  <2> HIDE DEF l, m, b
  <2>6. /\ AmountIn(charges, Above(charges, c, m)) \in Nat
        /\ AmountIn(charges, Above(charges, c, l)) \in Nat
        /\ AmountIn(charges, Above(charges, c, l)) <= AmountIn(charges, Above(charges, c, m))
    BY <1>1, <2>5, AmountNat, AmountWithin
  <2>7. /\ Usage(charges, settlements', c) = AmountIn(charges, Above(charges, c, l))
        /\ Usage(charges, settlements, c) = AmountIn(charges, Above(charges, c, m))
    BY DEF Usage, l, m
  <2>8. Usage(charges, settlements, c) + AmountJudged(handler, c) <= Limit + MaxOvershoot
    BY DEF IInv, JudgedBounded
  <2>9. Limit \in Nat /\ MaxOvershoot \in Nat
    BY CardAssumption, OvershootInt
  <2> QED
    BY <2>1, <2>2, <2>6, <2>7, <2>8, <2>9
<1> QED
  BY <1>5, <1>6, <1>7, <1>8, <1>9, <1>10 DEF IInv

-----------------------------------------------------------------------------
(* The invariant holds *)

LEMMA Initially == Init => IInv
<1> SUFFICES ASSUME Init
             PROVE  IInv
  OBVIOUS
<1>1. charges = <<>> /\ settlements = {} /\ DOMAIN charges = {} /\ charges \in Seq(Charge)
  BY DEF Init
<1>2. IsFiniteSet(settlements) /\ settlements \subseteq Settlement
  BY <1>1, FS_EmptySet
<1>3. Idle \in Threads /\ Idle.at = "idle" /\ handler = [h \in Handlers |-> Idle]
  BY DEF Threads, Idle, Init
<1>4. Types
  BY <1>1, <1>2, <1>3, CardAssumption DEF Types, Init
<1>5. ChargedOnce /\ Marked
  BY <1>1 DEF ChargedOnce, Marked
<1>6. Reads
  BY <1>3 DEF Reads, Behind
<1>7. \A c : UpTo(charges, c, Mark(settlements, c)) = {} /\ Above(charges, c, Mark(settlements, c)) = {}
  BY <1>1 DEF UpTo, Above, Rows
<1>8. AmountIn(charges, {}) = 0
  BY SumEmpty DEF AmountIn
<1>9. AllPaid
  <2> SUFFICES ASSUME NEW c
               PROVE  0 <= PaidFor(settlements, c)
    BY <1>7, <1>8 DEF AllPaid
  <2>1. {s \in settlements : s.card = c} = {}
    BY <1>1
  <2>2. PaidFor(settlements, c) = 0
    BY <2>1, SumEmpty DEF PaidFor
  <2> QED
    BY <2>2
<1>10. JudgedBounded
  <2> SUFFICES ASSUME NEW c \in Cards
               PROVE  Usage(charges, settlements, c) + AmountJudged(handler, c)
                        <= Limit + MaxOvershoot
    BY DEF JudgedBounded
  <2>1. Usage(charges, settlements, c) = 0
    BY <1>7, <1>8 DEF Usage
  <2>2. Judged(handler, c) = {}
    BY <1>3 DEF Judged
  <2>3. AmountJudged(handler, c) = 0
    BY <2>2, SumEmpty DEF AmountJudged
  <2> QED
    BY <2>1, <2>3, OvershootInt, CardAssumption
<1> QED
  BY <1>4, <1>5, <1>6, <1>9, <1>10 DEF IInv

LEMMA Inductive == IInv /\ [Next]_vars => IInv'
<1> SUFFICES ASSUME IInv, [Next]_vars
             PROVE  IInv'
  OBVIOUS
<1>1. CASE Next
  <2>1. PICK h \in Handlers : (\E r : ReadStep(h, r)) \/ RecordStep(h) \/ DebitStep(h)
    BY <1>1, StepIs DEF IInv
  <2> QED
    BY <2>1, ReadKeeps, ChargeKeeps, DebitKeeps
<1>2. CASE UNCHANGED vars
  BY <1>2 DEF vars, IInv, Types, ChargedOnce, Reads, Marked, AllPaid, JudgedBounded, MaxOvershoot
<1> QED
  BY <1>1, <1>2

LEMMA Invariant == Spec => []IInv
  BY Initially, Inductive, PTL DEF Spec

\* Every column keeps its type; in particular a settlement never makes the
\* balance negative, although settle_card relies on a balance it read before.
THEOREM CardTypeCorrect == Spec => []TypeOK
<1>1. IInv => TypeOK
  BY DEF IInv, Types, TypeOK, Threads
<1> QED
  BY Invariant, <1>1, PTL

\* A purchase is charged at most once, however often its request is repeated
\* and whatever other requests, settlements and failures come between: the
\* unique key of card_ledger_entries decides, not the look-up of charge_card.
THEOREM RetriesChargeOnce == Spec => []ChargedOnce
<1>1. IInv => ChargedOnce
  BY DEF IInv
<1> QED
  BY Invariant, <1>1, PTL

\* Whatever the watermark of a card has passed was paid for by its settlements:
\* settle_card reads the newest row before the amount, so a charge that comes
\* between is paid twice at worst and never forgotten.
THEOREM SettlementForgetsNoCharge == Spec => []NoChargeForgotten
<1>1. ASSUME IInv
      PROVE  NoChargeForgotten
  <2> SUFFICES ASSUME NEW c \in Cards
               PROVE  SettledAmount(c) >= AmountOf({i \in RowsOf(c) : i <= Watermark(c)})
    BY DEF NoChargeForgotten
  <2>1. charges \in Seq(Charge) /\ IsFiniteSet(settlements) /\ settlements \subseteq Settlement
    BY <1>1 DEF IInv, Types
  <2> DEFINE rows == UpTo(charges, c, Mark(settlements, c))
  <2>2. {i \in RowsOf(c) : i <= Watermark(c)} = rows /\ rows \in SUBSET DOMAIN charges
    BY <2>1, ModelComputes DEF UpTo, Rows
  <2>3. AmountIn(charges, rows) <= PaidFor(settlements, c)
    BY <1>1 DEF IInv, AllPaid
  <2> HIDE DEF rows
  <2>4. SettledAmount(c) = PaidFor(settlements, c) /\ AmountOf(rows) = AmountIn(charges, rows)
    BY <2>1, <2>2, ModelComputes
  <2>5. SettledAmount(c) \in Int /\ AmountOf(rows) \in Int
    <3>1. AmountIn(charges, rows) \in Nat
      BY <2>1, <2>2, AmountNat
    <3>2. PaidFor(settlements, c) \in Nat
      BY <2>1, PaidNat
    <3> QED
      BY <2>4, <3>1, <3>2
  <2> QED
    BY <2>2, <2>3, <2>4, <2>5
<1> QED
  BY Invariant, <1>1, PTL

\* Threads that judge the limit at the same time pass it by no more than one
\* charge for each thread but one.
THEOREM LimitOvershootBounded == Spec => []OvershootBounded
<1>1. ASSUME IInv
      PROVE  OvershootBounded
  <2> SUFFICES ASSUME NEW c \in Cards
               PROVE  UnsettledUsage(c, Watermark(c)) <= Limit + MaxOvershoot
    BY DEF OvershootBounded, MaxOvershoot
  <2>1. charges \in Seq(Charge) /\ IsFiniteSet(settlements) /\ handler \in [Handlers -> Threads]
    BY <1>1 DEF IInv, Types
  <2>2. UnsettledUsage(c, Watermark(c)) = Usage(charges, settlements, c)
    BY <2>1, ModelComputes DEF Usage
  <2>3. Usage(charges, settlements, c) + AmountJudged(handler, c) <= Limit + MaxOvershoot
    BY <1>1 DEF IInv, JudgedBounded
  <2>4. AmountJudged(handler, c) \in Nat
    BY <2>1, JudgedFinite
  <2>5. Usage(charges, settlements, c) \in Nat
    <3>1. Above(charges, c, Mark(settlements, c)) \in SUBSET DOMAIN charges
      BY DEF Above, Rows
    <3> QED
      BY <2>1, <3>1, AmountNat DEF Usage
  <2> QED
    BY <2>2, <2>3, <2>4, <2>5, OvershootInt, CardAssumption
<1> QED
  BY Invariant, <1>1, PTL

-----------------------------------------------------------------------------
(* One thread *)

\* The usage of the card is settled by the debit of a thread that is alone: its
\* watermark, its newest row, its amount and its balance are those of the tables.
LEMMA SettledAlone ==
  ASSUME IInv, NEW h \in Handlers, DebitStep(h),
         Current(handler[h], charges, settlements, balance)
  PROVE  /\ handler[h].card \in Cards
         /\ Usage(charges, settlements, handler[h].card) > 0
         /\ Usage(charges, settlements, handler[h].card) <= balance
         /\ balance' = balance - Usage(charges, settlements, handler[h].card)
         /\ Usage(charges', settlements', handler[h].card) = 0
         /\ \A c \in Cards \ {handler[h].card} :
              Usage(charges', settlements', c) = Usage(charges, settlements, c)
<1> DEFINE s == Settled(h)
           d == handler[h].card
           n == handler[h].newest
<1>1. /\ handler[h] \in Settling /\ handler[h].at = "debit" /\ charges \in Seq(Charge)
      /\ settlements \subseteq Settlement /\ IsFiniteSet(settlements)
  BY ThreadIs DEF IInv, Types, DebitStep
<1>2. s \in Settlement /\ s.card = d /\ s.watermark = n /\ n \in Nat /\ d \in Cards
  BY <1>1, SettlingFields DEF Settled, Settlement
<1>3. settlements' = settlements \cup {s} /\ charges' = charges
  BY DEF DebitStep
<1>4. /\ handler[h].amount = Usage(charges, settlements, d) /\ handler[h].amount > 0
      /\ handler[h].balance = balance /\ handler[h].amount <= balance
      /\ handler[h].watermark = Mark(settlements, d) /\ handler[h].watermark < n
      /\ \A i \in Rows(charges, d) : i <= n
  BY <1>1 DEF Current
<1> HIDE DEF s
<1>5. Mark(settlements', d) = n
  <2>1. /\ Mark(settlements', d) \in {Mark(settlements, d), n} /\ n <= Mark(settlements', d)
        /\ Mark(settlements, d) \in Nat
    BY <1>1, <1>2, <1>3, MarkAdded, MarkIs
  <2> HIDE DEF d, n
  <2> QED
    BY <1>2, <1>4, <2>1
<1>6. Usage(charges', settlements', d) = 0
  <2>1. \A i \in Rows(charges, d) : ~(i > n)
    <3>1. \A i \in Rows(charges, d) : i \in Nat
      BY <1>1, LenProperties DEF Rows
    <3> HIDE DEF n, d
    <3> QED
      BY <1>2, <1>4, <3>1
  <2>2. Above(charges, d, n) = {}
    BY <2>1 DEF Above
  <2> QED
    BY <1>3, <1>5, <2>2, SumEmpty DEF Usage, AmountIn
<1>7. ASSUME NEW c \in Cards \ {d}
      PROVE  Usage(charges', settlements', c) = Usage(charges, settlements, c)
  <2>1. Mark(settlements', c) = Mark(settlements, c)
    BY <1>1, <1>2, <1>3, MarkAdded
  <2> QED
    BY <1>3, <2>1 DEF Usage
<1>8. balance' = balance - Usage(charges, settlements, d)
  BY <1>4 DEF DebitStep
<1> QED
  BY <1>2, <1>4, <1>6, <1>7, <1>8

AloneInv ==
  /\ IInv
  /\ \A h \in Handlers : Current(handler[h], charges, settlements, balance)

LEMMA AloneInductive ==
  ASSUME Cardinality(Handlers) = 1, AloneInv, [Next]_vars
  PROVE  AloneInv'
<1>1. IInv'
  BY Inductive DEF AloneInv
<1>2. CASE Next
  <2>1. PICK h \in Handlers : (\E r : ReadStep(h, r)) \/ RecordStep(h) \/ DebitStep(h)
    BY <1>2, StepIs DEF AloneInv, IInv
  <2>2. Handlers = {h}
    <3>1. PICK k : Handlers = {k}
      BY CardAssumption, FS_Singleton
    <3> QED
      BY <3>1
  <2>3. handler \in [Handlers -> Threads]
    BY DEF AloneInv, IInv, Types
  <2>4. CASE \E r : ReadStep(h, r)
    <3>1. PICK r : ReadStep(h, r)
      BY <2>4
    <3>2. Current(r, charges, settlements, balance)
      BY <3>1 DEF AloneInv, ReadStep
    <3>3. \A k \in Handlers : handler'[k] = r
      BY <2>2, <2>3, <3>1 DEF ReadStep
    <3>4. UNCHANGED <<charges, settlements, balance>>
      BY <3>1 DEF ReadStep, tables
    <3> QED
      BY <1>1, <3>2, <3>3, <3>4 DEF AloneInv
  <2>5. CASE RecordStep(h) \/ DebitStep(h)
    <3>1. \A k \in Handlers : handler'[k] = Idle /\ Idle.at = "idle"
      BY <2>2, <2>3, <2>5 DEF RecordStep, DebitStep, Idle
    <3> QED
      BY <1>1, <3>1 DEF AloneInv, Current
  <2> QED
    BY <2>1, <2>4, <2>5
<1>3. CASE UNCHANGED vars
  BY <1>1, <1>3 DEF AloneInv, vars
<1> QED
  BY <1>2, <1>3

\* usage of CardAccount, in the terms of the invariant.
UsageMapped ==
  \A c \in Cards : UnsettledUsage(c, Watermark(c)) = Usage(charges, settlements, c)

LEMMA UsageIsMapped == Types => UsageMapped
  BY ModelComputes DEF Types, UsageMapped, Usage

LEMMA AccountInitially == Init => Account!Init
<1> SUFFICES ASSUME Init
             PROVE  Account!Init
  OBVIOUS
<1>1. UsageMapped
  BY Initially, UsageIsMapped DEF IInv
<1>2. \A c : Above(charges, c, Mark(settlements, c)) = {}
  BY DEF Init, Above, Rows
<1>3. \A c \in Cards : UnsettledUsage(c, Watermark(c)) = 0
  BY <1>1, <1>2, SumEmpty DEF UsageMapped, Usage, AmountIn
<1> QED
  BY <1>3 DEF Init, Account!Init

\* A recorded charge is a Charge of the account, an effective debit a Settle; no
\* other step changes what the owner sees.
LEMMA AccountStep ==
  ASSUME AloneInv, [Next]_vars
  PROVE  [Account!Next]_<<[c \in Cards |-> UnsettledUsage(c, Watermark(c))], balance>>
<1> DEFINE usage == [c \in Cards |-> Usage(charges, settlements, c)]
           after == [c \in Cards |-> Usage(charges', settlements', c)]
<1>1. IInv /\ Types /\ Types'
  BY Inductive DEF AloneInv, IInv
<1>2. [c \in Cards |-> UnsettledUsage(c, Watermark(c))] = usage
  BY <1>1, UsageIsMapped DEF UsageMapped
<1>3. [c \in Cards |-> UnsettledUsage(c, Watermark(c))]' = after
  <2>1. UsageMapped'
    BY <1>1, UsageIsMapped, PTL
  <2> QED
    BY <2>1 DEF UsageMapped
<1>4. CASE UNCHANGED tables
  <2>1. after = usage /\ balance' = balance
    BY <1>4 DEF tables
  <2> QED
    BY <1>2, <1>3, <2>1
<1>5. ASSUME NEW h \in Handlers, RecordStep(h)
      PROVE  Account!Next
  <2> DEFINE e == handler[h].charge
  <2>1. e.card \in Cards /\ e.amount \in Amounts
    BY <1>1, <1>5, ThreadIs, ChargingFields DEF Types, RecordStep
  <2>2. usage[e.card] + e.amount <= Limit
    BY <1>5, <2>1 DEF AloneInv, Current, RecordStep
  <2>3. after = [usage EXCEPT ![e.card] = @ + e.amount]
    <3>1. ASSUME NEW c \in Cards
          PROVE  /\ c = e.card => after[c] = usage[c] + e.amount
                 /\ c # e.card => after[c] = usage[c]
      <4>1. /\ Usage(charges, settlements, c) \in Nat
            /\ Usage(charges', settlements, c) =
                 Usage(charges, settlements, c) + (IF e.card = c THEN e.amount ELSE 0)
        BY <1>1, <1>5, UsageCharged DEF IInv
      <4>2. settlements' = settlements
        BY <1>5 DEF RecordStep
      <4> QED
        BY <4>1, <4>2
    <3> QED
      BY <3>1
  <2>4. balance' = balance
    BY <1>5 DEF RecordStep
  <2> HIDE DEF usage, after, e
  <2>5. Account!Charge(e.card, e.amount)
    BY <1>2, <1>3, <2>2, <2>3, <2>4 DEF Account!Charge
  <2> QED
    BY <2>1, <2>5 DEF Account!Next
<1>6. ASSUME NEW h \in Handlers, DebitStep(h)
      PROVE  Account!Next
  <2> DEFINE d == handler[h].card
  <2>1. /\ d \in Cards /\ usage[d] > 0 /\ usage[d] <= balance /\ balance' = balance - usage[d]
        /\ after[d] = 0 /\ \A c \in Cards \ {d} : after[c] = usage[c]
    BY <1>1, <1>6, SettledAlone DEF AloneInv
  <2>2. after = [usage EXCEPT ![d] = 0]
    BY <2>1
  <2> HIDE DEF usage, after, d
  <2>3. Account!Settle(d)
    BY <1>2, <1>3, <2>1, <2>2 DEF Account!Settle
  <2> QED
    BY <2>1, <2>3 DEF Account!Next
<1>7. CASE Next
  <2>1. PICK h \in Handlers : (\E r : ReadStep(h, r)) \/ RecordStep(h) \/ DebitStep(h)
    BY <1>1, <1>7, StepIs DEF IInv
  <2> QED
    BY <1>4, <1>5, <1>6, <2>1 DEF ReadStep
<1>8. CASE UNCHANGED vars
  BY <1>4, <1>8 DEF vars, tables
<1> QED
  BY <1>7, <1>8

\* Requests that are served one at a time, with failures anywhere, act on the
\* account of CardAccount: the limit is kept, and a settlement takes exactly the
\* unsettled charges.
THEOREM ServedAloneActsAsAccount ==
  ASSUME Cardinality(Handlers) = 1
  PROVE  Spec => ActsAsAccount
<1>1. Init => AloneInv
  <2>1. ASSUME Init
        PROVE  \A h \in Handlers : Current(handler[h], charges, settlements, balance)
    BY <2>1 DEF Init, Idle, Current
  <2> QED
    BY Initially, <2>1 DEF AloneInv
<1>2. AloneInv /\ [Next]_vars => AloneInv'
  BY AloneInductive
<1>3. AloneInv /\ [Next]_vars
        => [Account!Next]_<<[c \in Cards |-> UnsettledUsage(c, Watermark(c))], balance>>
  BY AccountStep
<1> QED
  BY <1>1, <1>2, <1>3, AccountInitially, PTL DEF Spec, ActsAsAccount, Account!Spec
=============================================================================
