---------------------------- MODULE LedgerProofs ----------------------------
(***************************************************************************)
(* Proofs about LedgerService and DailyClosing, for every value of their   *)
(* constants. First the transfers: types, the refinement of                *)
(* TransferJournal by any number of threads, and the agreement of balances *)
(* and entries with a single one. Then the batches beside them: a day is   *)
(* closed for all accounts at once and for good, its sums and watermarks   *)
(* are of the time of its batch, and the ledger is left as the transfers   *)
(* alone would have it.                                                    *)
(*                                                                         *)
(* A batch looks for the snapshots of a day account by account, each time  *)
(* at what is committed by then. It closes the day as a whole because, for *)
(* every account, it has found a snapshot, made one or still to look.      *)
(*                                                                         *)
(* Entries are only added. A sum that a batch has read was the sum at some *)
(* moment of the batch, hence lies between those of its start and of now,  *)
(* and a watermark that is read last lies above all that was summed.       *)
(***************************************************************************)
EXTENDS DailyClosing, FiniteSetTheorems, SequenceTheorems, Sums

-----------------------------------------------------------------------------
(* The transfers *)

\* What a thread has established by the time it is at each step.
Prepared(r) ==
  /\ r.at \in {"read_sender", "read_receiver", "write"} => r.payload.sender # r.payload.receiver
  /\ r.at \in {"read_receiver", "write"} => r.payload.sender \in Accounts /\ r.sender \in Nat
  /\ r.at = "write" => /\ r.payload.receiver \in Accounts /\ r.receiver \in Nat
                       /\ r.sender >= r.payload.amount

AfterWrite == {"sum_sender_credits", "sum_sender_debits", "sum_receiver_credits",
               "sum_receiver_debits", "compare_sender", "compare_receiver"}

Written(r) ==
  r.at \in AfterWrite => /\ r.payload.sender \in Accounts /\ r.payload.receiver \in Accounts
                         /\ transactions[r.key] = r.payload

Inv ==
  /\ TypeOK
  /\ \A h \in Handlers : Prepared(handler[h]) /\ Written(handler[h])

-----------------------------------------------------------------------------
LEMMA PayloadFields ==
  ASSUME NEW p \in Payloads
  PROVE  /\ p # None
         /\ p.sender \in Accounts \cup {Unknown} /\ p.receiver \in Accounts \cup {Unknown}
         /\ p.amount \in Nat \ {0}
  BY LedgerAssumption

LEMMA ServingThread ==
  ASSUME TypeOK, NEW h \in Handlers, handler[h].at # "idle"
  PROVE  handler[h] \in Serving
  BY DEF TypeOK, Idle

\* What a thread's record becomes when it keeps what it has read.
LEMMA InitInv == Init => Inv
  BY LedgerAssumption
  DEF Init, Inv, TypeOK, Idle, Prepared, Written, AfterWrite

\* A step in which only the thread h moves, to a record that is as it should be.
LEMMA ThreadMoves ==
  ASSUME Inv, NEW h \in Handlers, NEW r \in {Idle} \cup Serving,
         handler' = [handler EXCEPT ![h] = r],
         UNCHANGED tables, Prepared(r), Written(r),
         answer' \in Response \cup {None}
  PROVE  Inv'
<1>1. TypeOK'
  BY DEF Inv, TypeOK, tables
<1>2. \A g \in Handlers : handler'[g] = r \/ handler'[g] = handler[g]
  BY DEF Inv, TypeOK
<1>3. UNCHANGED transactions
  BY DEF tables
<1> QED
  BY <1>1, <1>2, <1>3 DEF Inv, Prepared, Written

LEMMA ThreadAnswers ==
  ASSUME Inv, NEW h \in Handlers, handler[h].at # "idle", NEW result \in Results,
         Answer(h, result), UNCHANGED tables
  PROVE  Inv'
<1>1. handler[h] \in Serving
  BY ServingThread DEF Inv
<1>2. answer' \in Response
  BY <1>1 DEF Answer, Response, Serving
<1>3. Prepared(Idle) /\ Written(Idle)
  BY DEF Prepared, Written, Idle, AfterWrite
<1> QED
  BY <1>2, <1>3, ThreadMoves DEF Answer

LEMMA ThreadContinues ==
  ASSUME Inv, NEW h \in Handlers, NEW r \in {Idle} \cup Serving, Continue(h, r),
         UNCHANGED tables, Prepared(r), Written(r)
  PROVE  Inv'
  BY ThreadMoves DEF Continue, Inv, TypeOK

LEMMA InvWrite ==
  ASSUME Inv, NEW h \in Handlers, Write(h)
  PROVE  Inv'
<1> DEFINE k == handler[h].key
           p == handler[h].payload
           r == [handler[h] EXCEPT !.at = "sum_sender_credits"]
<1>1. CASE transactions[k] # None
  BY <1>1, ThreadAnswers DEF Write, Results, tables
<1>2. CASE transactions[k] = None
  <2>1. /\ handler[h] \in Serving /\ handler[h].at = "write" /\ Insert(h)
        /\ Prepared(handler[h])
    BY <1>2, ServingThread DEF Inv, Write
  <2>2. /\ k \in Keys /\ p \in Payloads /\ r \in Serving
        /\ r.at = "sum_sender_credits" /\ r.key = k /\ r.payload = p
    BY <2>1 DEF Serving, Points
  <2>3. /\ p.sender \in Accounts /\ p.receiver \in Accounts /\ p.sender # p.receiver
        /\ handler[h].sender - p.amount \in Nat /\ handler[h].receiver + p.amount \in Nat
        /\ p.amount \in Nat
    BY <2>1, <2>2, PayloadFields DEF Prepared
  <2>4. /\ balance' \in [Accounts -> Nat] /\ credits' \in [Accounts -> Nat]
        /\ debits' \in [Accounts -> Nat]
    BY <2>1, <2>3 DEF Insert, Inv, TypeOK
  <2>5. /\ transactions' \in [Keys -> Payloads \cup {None}]
        /\ transactions'[k] = p
        /\ \A j \in Keys : j # k => transactions'[j] = transactions[j]
    BY <2>1, <2>2 DEF Insert, Inv, TypeOK
  <2>6. handler' = [handler EXCEPT ![h] = r] /\ UNCHANGED answer
    BY <2>1 DEF Insert, Continue
  <2>7. TypeOK'
    BY <2>2, <2>4, <2>5, <2>6 DEF Inv, TypeOK
  <2>8. handler'[h] = r /\ \A g \in Handlers : g # h => handler'[g] = handler[g]
    BY <2>6 DEF Inv, TypeOK
  <2>10. ASSUME NEW g \in Handlers, g # h
         PROVE  (Prepared(handler[g]) /\ Written(handler[g]))'
    <3>1. handler'[g] = handler[g] /\ Prepared(handler[g]) /\ Written(handler[g])
      BY <2>8, <2>10 DEF Inv
    <3>2. CASE handler[g].at \in AfterWrite
      <4>1. handler[g] \in Serving /\ handler[g].key \in Keys /\ handler[g].payload # None
        BY <3>2, ServingThread, PayloadFields DEF Inv, AfterWrite, Serving
      <4>2. handler[g].key # k
        BY <1>2, <3>1, <3>2, <4>1 DEF Written
      <4> QED
        BY <2>5, <3>1, <3>2, <4>1, <4>2 DEF Prepared, Written
    <3>3. CASE handler[g].at \notin AfterWrite
      BY <3>1, <3>3 DEF Prepared, Written
    <3> QED
      BY <3>2, <3>3
  <2>11. (Prepared(handler[h]) /\ Written(handler[h]))'
    BY <2>2, <2>3, <2>5, <2>8 DEF Prepared, Written, AfterWrite
  <2> QED
    BY <2>7, <2>10, <2>11 DEF Inv
<1> QED
  BY <1>1, <1>2

LEMMA InvStep == Inv /\ [Next]_vars => Inv'
<1> SUFFICES ASSUME Inv, [Next]_vars PROVE Inv'
  OBVIOUS
<1>a. TypeOK
  BY DEF Inv
<1>1. ASSUME NEW h \in Handlers, NEW k \in Keys, NEW p \in Payloads, Receive(h, k, p)
      PROVE  Inv'
  <2> DEFINE r == [at |-> "find_key", key |-> k, payload |-> p,
                   sender |-> 0, receiver |-> 0, total |-> 0]
  <2>1. r \in Serving /\ Prepared(r) /\ Written(r)
    BY DEF Serving, Points, Prepared, Written, AfterWrite
  <2> QED
    BY <1>1, <2>1, ThreadContinues DEF Receive
<1>2. ASSUME NEW h \in Handlers, FindKey(h) PROVE Inv'
  <2> DEFINE r == [handler[h] EXCEPT !.at = "read_sender"]
  <2>1. CASE \E result \in Results : Answer(h, result)
    BY <1>2, <2>1, ThreadAnswers DEF FindKey
  <2>2. CASE Continue(h, r) /\ handler[h].payload.sender # handler[h].payload.receiver
    <3>1. handler[h] \in Serving
      BY <1>2, <1>a, ServingThread DEF FindKey
    <3>2. r \in Serving /\ Prepared(r) /\ Written(r)
      BY <2>2, <3>1 DEF Serving, Points, Prepared, Written, AfterWrite
    <3> QED
      BY <1>2, <2>2, <3>2, ThreadContinues DEF FindKey
  <2> QED
    BY <1>2, <2>1, <2>2 DEF FindKey, Results
<1>3. ASSUME NEW h \in Handlers, ReadSender(h) PROVE Inv'
  <2>1. PICK s \in Serving : s = handler[h]
    BY <1>3, <1>a, ServingThread DEF ReadSender
  <2> DEFINE p == s.payload
  <2>2. CASE p.sender = Unknown
    BY <1>3, <2>1, <2>2, ThreadAnswers DEF ReadSender, Results
  <2>3. CASE p.sender # Unknown
    <3>1. p \in Payloads /\ p.sender # p.receiver
      BY <1>3, <2>1 DEF Inv, Prepared, ReadSender, Serving
    <3>2. PICK n \in Int : p.sender \in Accounts /\ n = balance[p.sender] /\ n >= 0
      BY <1>a, <2>3, <3>1, PayloadFields DEF TypeOK
    <3> DEFINE r == [s EXCEPT !.at = "read_receiver", !.sender = n]
    <3>3. r \in Serving /\ r.at = "read_receiver" /\ r.payload = p /\ r.sender = n
      BY DEF Serving, Points
    <3>4. Prepared(r) /\ Written(r)
      BY <3>1, <3>2, <3>3 DEF Prepared, Written, AfterWrite
    <3>5. Continue(h, r) /\ UNCHANGED tables
      BY <1>3, <2>1, <2>3, <3>2 DEF ReadSender
    <3> QED
      BY <3>3, <3>4, <3>5, ThreadContinues
  <2> QED
    BY <2>2, <2>3
<1>4. ASSUME NEW h \in Handlers, ReadReceiver(h) PROVE Inv'
  <2>1. PICK s \in Serving : s = handler[h]
    BY <1>4, <1>a, ServingThread DEF ReadReceiver
  <2> DEFINE p == s.payload
  <2>2. CASE p.receiver = Unknown \/ ~HasFunds(h)
    BY <1>4, <2>1, <2>2, ThreadAnswers DEF ReadReceiver, Results
  <2>3. CASE p.receiver # Unknown /\ HasFunds(h)
    <3>1. /\ p \in Payloads /\ p.sender \in Accounts /\ p.sender # p.receiver
          /\ s.sender \in Nat /\ s.sender >= p.amount
      BY <1>4, <2>1, <2>3 DEF Inv, Prepared, ReadReceiver, HasFunds, Serving
    <3>2. PICK n \in Int : p.receiver \in Accounts /\ n = balance[p.receiver] /\ n >= 0
      BY <1>a, <2>3, <3>1, PayloadFields DEF TypeOK
    <3>3. PICK t \in Int : t = s.sender + n
      BY <3>1
    <3> DEFINE r == [s EXCEPT !.at = "write", !.receiver = n, !.total = t]
    <3>4. /\ r \in Serving /\ r.at = "write" /\ r.payload = p
          /\ r.sender = s.sender /\ r.receiver = n
      BY DEF Serving, Points
    <3>5. Prepared(r) /\ Written(r)
      BY <3>1, <3>2, <3>4 DEF Prepared, Written, AfterWrite
    <3>6. Continue(h, r) /\ UNCHANGED tables
      BY <1>4, <2>1, <2>3, <3>2, <3>3 DEF ReadReceiver
    <3> QED
      BY <3>4, <3>5, <3>6, ThreadContinues
  <2> QED
    BY <2>2, <2>3
<1>5. ASSUME NEW h \in Handlers, Write(h) PROVE Inv'
  BY <1>5, InvWrite
<1>6. ASSUME NEW h \in Handlers,
             \/ SumSenderCredits(h) \/ SumSenderDebits(h)
             \/ SumReceiverCredits(h) \/ SumReceiverDebits(h)
             \/ CompareSender(h) \/ CompareReceiver(h)
      PROVE  Inv'
  <2> DEFINE p == handler[h].payload
  <2>1. /\ handler[h] \in Serving /\ Written(handler[h]) /\ handler[h].at \in AfterWrite
        /\ handler[h].at # "idle"
    BY <1>6, <1>a, ServingThread
    DEF SumSenderCredits, SumSenderDebits, SumReceiverCredits, SumReceiverDebits,
        CompareSender, CompareReceiver, AfterWrite, Inv
  <2>2. p.sender \in Accounts /\ p.receiver \in Accounts /\ transactions[handler[h].key] = p
        /\ credits[p.sender] \in Int /\ credits[p.receiver] \in Int
        /\ debits[p.sender] \in Int /\ debits[p.receiver] \in Int
        /\ handler[h].sender \in Int /\ handler[h].receiver \in Int
    BY <1>a, <2>1 DEF Written, TypeOK, Serving
  <2>3. ASSUME NEW at \in AfterWrite, NEW n \in Int, NEW m \in Int,
               Continue(h, [handler[h] EXCEPT !.at = at, !.sender = n, !.receiver = m]),
               UNCHANGED tables
        PROVE  Inv'
    <3> DEFINE r == [handler[h] EXCEPT !.at = at, !.sender = n, !.receiver = m]
    <3>1. r \in Serving /\ Prepared(r) /\ Written(r)
      BY <2>1, <2>2 DEF Serving, Points, Prepared, Written, AfterWrite
    <3> QED
      BY <2>3, <3>1, ThreadContinues
  <2>4. CASE SumSenderCredits(h)
    <3>1. [handler[h] EXCEPT !.at = "sum_sender_debits", !.sender = credits[p.sender]]
          = [handler[h] EXCEPT !.at = "sum_sender_debits", !.sender = credits[p.sender],
                               !.receiver = handler[h].receiver]
      BY <2>1 DEF Serving
    <3> QED
      BY <2>2, <2>3, <2>4, <3>1 DEF SumSenderCredits, AfterWrite
  <2>5. CASE SumSenderDebits(h)
    <3> DEFINE n == handler[h].sender - debits[p.sender]
    <3>1. [handler[h] EXCEPT !.at = "sum_receiver_credits", !.sender = n]
          = [handler[h] EXCEPT !.at = "sum_receiver_credits", !.sender = n,
                               !.receiver = handler[h].receiver]
      BY <2>1 DEF Serving
    <3>2. n \in Int /\ UNCHANGED tables
          /\ Continue(h, [handler[h] EXCEPT !.at = "sum_receiver_credits", !.sender = n])
      BY <2>2, <2>5 DEF SumSenderDebits
    <3> QED
      BY <2>2, <2>3, <3>1, <3>2 DEF AfterWrite
  <2>6. CASE SumReceiverCredits(h)
    <3>1. [handler[h] EXCEPT !.at = "sum_receiver_debits", !.receiver = credits[p.receiver]]
          = [handler[h] EXCEPT !.at = "sum_receiver_debits", !.sender = handler[h].sender,
                               !.receiver = credits[p.receiver]]
      BY <2>1 DEF Serving
    <3> QED
      BY <2>2, <2>3, <2>6, <3>1 DEF SumReceiverCredits, AfterWrite
  <2>7. CASE SumReceiverDebits(h)
    <3> DEFINE m == handler[h].receiver - debits[p.receiver]
    <3>1. [handler[h] EXCEPT !.at = "compare_sender", !.receiver = m]
          = [handler[h] EXCEPT !.at = "compare_sender", !.sender = handler[h].sender,
                               !.receiver = m]
      BY <2>1 DEF Serving
    <3>2. m \in Int /\ UNCHANGED tables
      BY <2>2, <2>7 DEF SumReceiverDebits
    <3>3. CASE Continue(h, [handler[h] EXCEPT !.at = "compare_sender", !.receiver = m])
      BY <2>2, <2>3, <3>1, <3>2, <3>3 DEF AfterWrite
    <3>4. CASE Answer(h, "error")
      BY <2>1, <3>2, <3>4, ThreadAnswers DEF Results
    <3> QED
      BY <2>7, <3>3, <3>4 DEF SumReceiverDebits
  <2>8. CASE CompareSender(h)
    <3> DEFINE r == [handler[h] EXCEPT !.at = "compare_receiver"]
    <3>1. r \in Serving /\ Prepared(r) /\ Written(r)
      BY <2>1, <2>2 DEF Serving, Points, Prepared, Written, AfterWrite
    <3> QED
      BY <2>1, <2>8, <3>1, ThreadContinues, ThreadAnswers DEF CompareSender, Results
  <2>9. CASE CompareReceiver(h)
    BY <2>1, <2>9, ThreadAnswers DEF CompareReceiver, Results
  <2> QED
    BY <1>6, <2>4, <2>5, <2>6, <2>7, <2>8, <2>9
<1>7. ASSUME NEW h \in Handlers, Fail(h) PROVE Inv'
  <2>1. Prepared(Idle) /\ Written(Idle)
    BY DEF Prepared, Written, Idle, AfterWrite
  <2> QED
    BY <1>7, <2>1, ThreadAnswers, ThreadContinues DEF Fail, Results
<1>8. CASE UNCHANGED vars
  BY <1>8 DEF vars, Inv, TypeOK, Prepared, Written
<1> QED
  BY <1>1, <1>2, <1>3, <1>4, <1>5, <1>6, <1>7, <1>8 DEF Next, Step

LEMMA Invariance == Spec => []Inv
  BY InitInv, InvStep, PTL DEF Spec

\* The balance column is never written below zero, which says nothing of the sum
\* of the entries, and the threads keep to the steps and values of crud.transfer.
THEOREM TypeCorrect == Spec => []TypeOK
<1>1. Inv => TypeOK
  BY DEF Inv
<1> QED
  BY <1>1, Invariance, PTL

-----------------------------------------------------------------------------
(* The refinement of TransferJournal *)

LEMMA InitJournal == Init => Journal!Init
  BY DEF Init, Journal!Init

\* Every response is true of the journal.
LEMMA TrueAnswer ==
  ASSUME Inv, NEW h \in Handlers, handler[h].at # "idle", NEW result \in Results,
         Answer(h, result), UNCHANGED transactions,
         result = "booked" => transactions[handler[h].key] = handler[h].payload,
         result = "conflict" => transactions[handler[h].key] \notin {None, handler[h].payload}
  PROVE  Journal!Next
<1>1. handler[h].key \in Keys /\ handler[h].payload \in Payloads
  BY ServingThread DEF Inv, Serving
<1>2. Journal!Answer(handler[h].key, handler[h].payload, result)
  BY <1>1 DEF Answer, Journal!Answer, Journal!True
<1>3. result \in Journal!Results
  BY DEF Results, Journal!Results
<1> QED
  BY <1>1, <1>2, <1>3 DEF Journal!Next

LEMMA StepJournal ==
  ASSUME Inv, [Next]_vars
  PROVE  [Journal!Next]_<<transactions, answer>>
<1>1. ASSUME NEW h \in Handlers, FindKey(h) PROVE [Journal!Next]_<<transactions, answer>>
  <2>1. UNCHANGED transactions /\ handler[h].at # "idle"
    BY <1>1 DEF FindKey, tables
  <2>2. CASE \E r : Continue(h, r)
    BY <2>1, <2>2 DEF Continue
  <2>3. CASE Answer(h, "booked") /\ transactions[handler[h].key] = handler[h].payload
    BY <2>1, <2>3, TrueAnswer DEF Results
  <2>4. CASE /\ Answer(h, "conflict")
             /\ transactions[handler[h].key] \notin {None, handler[h].payload}
    BY <2>1, <2>4, TrueAnswer DEF Results
  <2>5. CASE Answer(h, "refused")
    BY <2>1, <2>5, TrueAnswer DEF Results
  <2> QED
    BY <1>1, <2>2, <2>3, <2>4, <2>5 DEF FindKey
<1>2. ASSUME NEW h \in Handlers,
             \/ ReadSender(h) \/ ReadReceiver(h) \/ SumSenderCredits(h)
             \/ SumSenderDebits(h) \/ SumReceiverCredits(h) \/ SumReceiverDebits(h)
             \/ CompareSender(h) \/ Fail(h)
      PROVE  [Journal!Next]_<<transactions, answer>>
  <2>1. UNCHANGED transactions /\ handler[h].at # "idle"
    BY <1>2 DEF ReadSender, ReadReceiver, SumSenderCredits, SumSenderDebits,
        SumReceiverCredits, SumReceiverDebits, CompareSender, Fail, tables
  <2>2. CASE \E r : Continue(h, r)
    BY <2>1, <2>2 DEF Continue
  <2>3. CASE Answer(h, "refused") \/ Answer(h, "error")
    BY <2>1, <2>3, TrueAnswer DEF Results
  <2> QED
    BY <1>2, <2>2, <2>3
    DEF ReadSender, ReadReceiver, SumSenderCredits, SumSenderDebits,
        SumReceiverCredits, SumReceiverDebits, CompareSender, Fail
<1>3. ASSUME NEW h \in Handlers, Write(h) PROVE [Journal!Next]_<<transactions, answer>>
  <2>1. handler[h].key \in Keys /\ handler[h].payload \in Payloads /\ handler[h].at # "idle"
    BY <1>3, ServingThread DEF Inv, Write, Serving
  <2>2. CASE transactions[handler[h].key] = None
    <3>1. Journal!Book(handler[h].key, handler[h].payload)
      BY <1>3, <2>2 DEF Write, Insert, Continue, Journal!Book
    <3> QED
      BY <2>1, <3>1 DEF Journal!Next
  <2>3. CASE transactions[handler[h].key] # None
    <3>1. Answer(h, "error") /\ UNCHANGED transactions
      BY <1>3, <2>3 DEF Write, tables
    <3> QED
      BY <2>1, <3>1, TrueAnswer DEF Results
  <2> QED
    BY <2>2, <2>3
<1>4. ASSUME NEW h \in Handlers, CompareReceiver(h)
      PROVE  [Journal!Next]_<<transactions, answer>>
  <2>1. UNCHANGED transactions /\ handler[h].at # "idle"
        /\ transactions[handler[h].key] = handler[h].payload
    BY <1>4 DEF CompareReceiver, tables, Inv, Written, AfterWrite
  <2>2. Answer(h, "booked") \/ Answer(h, "error")
    BY <1>4 DEF CompareReceiver
  <2> QED
    BY <2>1, <2>2, TrueAnswer DEF Results
<1>5. ASSUME NEW h \in Handlers, NEW k \in Keys, NEW p \in Payloads, Receive(h, k, p)
      PROVE  [Journal!Next]_<<transactions, answer>>
  BY <1>5 DEF Receive, Continue, tables
<1>6. CASE UNCHANGED vars
  BY <1>6 DEF vars
<1> QED
  BY <1>1, <1>2, <1>3, <1>4, <1>5, <1>6 DEF Next, Step

\* However many threads serve however many retries, crud.transfer implements
\* the journal: one booking per key, never altered, truly reported.
THEOREM JournalKept == Spec => KeepsJournal
<1>1. Inv /\ [Next]_vars => [Journal!Next]_<<transactions, answer>>
  BY StepJournal
<1> QED
  BY InitJournal, <1>1, Invariance, PTL DEF Spec, KeepsJournal, Journal!Spec

-----------------------------------------------------------------------------
(* One thread *)

\* With no other thread, what a thread has read is still stored when it writes.
Current(r) ==
  /\ r.at \in {"read_receiver", "write"} => r.sender = balance[r.payload.sender]
  /\ r.at = "write" => r.receiver = balance[r.payload.receiver]

Sequential ==
  Cardinality(Handlers) = 1 =>
    /\ \A a \in Accounts : balance[a] = credits[a] - debits[a]
    /\ \A h \in Handlers : Current(handler[h])

LEMMA OneThread ==
  ASSUME Cardinality(Handlers) = 1, NEW g \in Handlers, NEW h \in Handlers
  PROVE  g = h
  BY FS_Singleton, LedgerAssumption

LEMMA StepSequential ==
  ASSUME Inv, Sequential, [Next]_vars
  PROVE  Sequential'
<1> SUFFICES ASSUME Cardinality(Handlers) = 1
             PROVE  Sequential'
  BY DEF Sequential
<1>0. TypeOK /\ (\A a \in Accounts : balance[a] = credits[a] - debits[a])
      /\ \A h \in Handlers : Current(handler[h]) /\ Prepared(handler[h])
  BY DEF Inv, Sequential
<1>1. ASSUME NEW h \in Handlers, Write(h), transactions[handler[h].key] = None
      PROVE  Sequential'
  <2>1. PICK s \in Serving : s = handler[h]
    BY <1>1, <1>0, ServingThread DEF Write
  <2> DEFINE p == s.payload
  <2>2. /\ p \in Payloads /\ p.sender \in Accounts /\ p.receiver \in Accounts
        /\ p.sender # p.receiver /\ p.amount \in Nat
        /\ s.sender = balance[p.sender] /\ s.receiver = balance[p.receiver]
    BY <1>0, <1>1, <2>1, PayloadFields DEF Write, Current, Prepared, Serving
  <2>3. /\ balance' = [balance EXCEPT ![p.sender] = s.sender - p.amount,
                                      ![p.receiver] = s.receiver + p.amount]
        /\ debits' = [debits EXCEPT ![p.sender] = @ + p.amount]
        /\ credits' = [credits EXCEPT ![p.receiver] = @ + p.amount]
    BY <1>1, <2>1 DEF Write, Insert
  <2>4. \A a \in Accounts : balance'[a] = credits'[a] - debits'[a]
    BY <1>0, <2>2, <2>3 DEF TypeOK
  <2>5. handler' = [handler EXCEPT ![h] = [s EXCEPT !.at = "sum_sender_credits"]]
    BY <1>1, <2>1 DEF Write, Insert, Continue
  <2>6. handler'[h].at = "sum_sender_credits"
    BY <1>0, <2>5 DEF TypeOK, Serving
  <2>7. \A g \in Handlers : Current(handler[g])'
    BY <2>6, OneThread DEF Current
  <2> QED
    BY <2>4, <2>7 DEF Sequential
<1>2. ASSUME UNCHANGED tables, NEW h \in Handlers, NEW r, Current(r),
             handler' = [handler EXCEPT ![h] = r]
      PROVE  Sequential'
  <2>1. handler'[h] = r /\ UNCHANGED <<balance, credits, debits>>
    BY <1>0, <1>2 DEF TypeOK, tables
  <2> QED
    BY <1>0, <1>2, <2>1, OneThread DEF Sequential, Current
<1>3. ASSUME NEW h \in Handlers, NEW result, Answer(h, result), UNCHANGED tables
      PROVE  Sequential'
  <2>1. Current(Idle)
    BY DEF Current, Idle
  <2> QED
    BY <1>2, <1>3, <2>1 DEF Answer
<1>4. ASSUME NEW h \in Handlers, NEW r, Continue(h, r), Current(r), UNCHANGED tables
      PROVE  Sequential'
  BY <1>2, <1>4 DEF Continue
<1>5. ASSUME NEW h \in Handlers, ReadSender(h) PROVE Sequential'
  <2>1. PICK s \in Serving : s = handler[h]
    BY <1>5, <1>0, ServingThread DEF ReadSender
  <2> DEFINE r == [s EXCEPT !.at = "read_receiver", !.sender = balance[s.payload.sender]]
  <2>2. Current(r)
    BY DEF Current, Serving
  <2>3. UNCHANGED tables /\ (Answer(h, "refused") \/ Continue(h, r))
    BY <1>5, <2>1 DEF ReadSender
  <2> QED
    BY <1>3, <1>4, <2>2, <2>3
<1>6. ASSUME NEW h \in Handlers, ReadReceiver(h) PROVE Sequential'
  <2>1. PICK s \in Serving : s = handler[h]
    BY <1>6, <1>0, ServingThread DEF ReadReceiver
  <2> DEFINE n == balance[s.payload.receiver]
             r == [s EXCEPT !.at = "write", !.receiver = n, !.total = s.sender + n]
  <2>2. s.sender = balance[s.payload.sender]
    BY <1>0, <1>6, <2>1 DEF ReadReceiver, Current
  <2>3. Current(r)
    BY <2>2 DEF Current, Serving
  <2>4. UNCHANGED tables /\ (Answer(h, "refused") \/ Continue(h, r))
    BY <1>6, <2>1 DEF ReadReceiver
  <2> QED
    BY <1>3, <1>4, <2>3, <2>4
<1>7. ASSUME NEW h \in Handlers,
             \/ SumSenderCredits(h) \/ SumSenderDebits(h)
             \/ SumReceiverCredits(h) \/ SumReceiverDebits(h)
             \/ CompareSender(h) \/ CompareReceiver(h)
             \/ FindKey(h) \/ Fail(h)
             \/ (Write(h) /\ transactions[handler[h].key] # None)
      PROVE  Sequential'
  <2>1. handler[h] \in Serving
    BY <1>0, <1>7, ServingThread
    DEF SumSenderCredits, SumSenderDebits, SumReceiverCredits, SumReceiverDebits,
        CompareSender, CompareReceiver, FindKey, Fail, Write
  <2>2. Current(Idle)
    BY DEF Current, Idle
  <2>4. CASE \/ SumSenderCredits(h) \/ SumSenderDebits(h)
             \/ SumReceiverCredits(h) \/ SumReceiverDebits(h)
    <3>1. Answer(h, "error") \/ \E r : Continue(h, r) /\ Current(r)
      <4>1. \A n : \A at \in AfterWrite :
              /\ Current([handler[h] EXCEPT !.at = at, !.sender = n])
              /\ Current([handler[h] EXCEPT !.at = at, !.receiver = n])
        BY <2>1 DEF Serving, Current, AfterWrite
      <4> QED
        BY <2>4, <4>1
        DEF SumSenderCredits, SumSenderDebits, SumReceiverCredits, SumReceiverDebits, AfterWrite
    <3>2. UNCHANGED tables
      BY <2>4 DEF SumSenderCredits, SumSenderDebits, SumReceiverCredits, SumReceiverDebits
    <3> QED
      BY <1>3, <1>4, <3>1, <3>2
  <2>5. CASE CompareSender(h)
    <3>1. Answer(h, "error") \/ \E r : Continue(h, r) /\ Current(r)
      <4> DEFINE r == [handler[h] EXCEPT !.at = "compare_receiver"]
      <4>1. Current(r)
        BY <2>1 DEF Serving, Current
      <4> QED
        BY <2>5, <4>1 DEF CompareSender
    <3> QED
      BY <1>3, <1>4, <2>5, <3>1 DEF CompareSender
  <2>6. CASE FindKey(h)
    <3>1. (\E result : Answer(h, result)) \/ \E r : Continue(h, r) /\ Current(r)
      BY <2>1, <2>6 DEF FindKey, Serving, Current
    <3> QED
      BY <1>3, <1>4, <2>6, <3>1 DEF FindKey
  <2>7. CASE CompareReceiver(h) \/ Fail(h) \/ (Write(h) /\ transactions[handler[h].key] # None)
    BY <1>3, <1>4, <2>2, <2>7 DEF CompareReceiver, Fail, Write
  <2> QED
    BY <1>7, <2>4, <2>5, <2>6, <2>7
<1>8. ASSUME NEW h \in Handlers, NEW k \in Keys, NEW p \in Payloads, Receive(h, k, p)
      PROVE  Sequential'
  <2>1. PICK r : Continue(h, r) /\ Current(r) /\ UNCHANGED tables
    BY <1>8 DEF Receive, Current
  <2> QED
    BY <1>4, <2>1
<1>9. CASE UNCHANGED vars
  <2>1. UNCHANGED <<balance, credits, debits, handler>>
    BY <1>9 DEF vars
  <2>2. \A h \in Handlers : Current(handler[h])'
    BY <1>0, <2>1 DEF Current
  <2> QED
    BY <1>0, <2>1, <2>2 DEF Sequential
<1>10. ASSUME NEW h \in Handlers, Step(h) \/ Fail(h) PROVE Sequential'
  BY <1>1, <1>5, <1>6, <1>7, <1>10 DEF Step
<1> QED
  BY <1>8, <1>9, <1>10 DEF Next

\* Served by one thread at a time, crud.transfer keeps every stored balance
\* equal to the sum of the account's entries, wherever a request fails.
THEOREM SequentialAgrees == Spec => []NoDriftWhenSequential
<1>1. Init => Sequential
  BY LedgerAssumption DEF Init, Sequential, Current, Idle
<1>2. Inv /\ Sequential /\ [Next]_vars => Sequential'
  BY StepSequential
<1>3. Inv /\ Sequential => NoDriftWhenSequential
  BY DEF Inv, TypeOK, Sequential, NoDriftWhenSequential, Drift
<1> QED
  BY <1>1, <1>2, <1>3, Invariance, PTL DEF Spec

-----------------------------------------------------------------------------
(* The batches *)

IsFunction(f, D) == f = [x \in D |-> f[x]]

ClosingPoints == {"find", "sum_credit", "sum_debit", "last_row"}

Batch(at, d, left, created, credit, debit, began) ==
  [at |-> at, day |-> d, left |-> left, created |-> created,
   credit |-> credit, debit |-> debit, began |-> began]

\* The record of a batch that runs: where it is, and nothing else.
IsBatch(r) ==
  \E at \in ClosingPoints, d \in Days, left \in Seq(Accounts) :
    \E S, credit, debit, began : \E created \in Seq(S) :
      r = Batch(at, d, left, created, credit, debit, began)

Snapped(created) == {s.account : s \in ToSet(created)}

\* It reads an account of those left, and makes rows of accounts.
Reads(r) ==
  /\ r.at # "find" => r.left # <<>>
  /\ Snapped(r.created) \subseteq Accounts

\* Every account is left, has its row made or is closed.
Covers(r) == Accounts \subseteq ToSet(r.left) \cup Snapped(r.created) \cup DOMAIN closings[r.day]

BatchOK(r) == r = NoBatch \/ (IsBatch(r) /\ Reads(r) /\ Covers(r))

\* The snapshots of a day are a table with rows for all accounts or for none.
AllOrNone ==
  \A d \in Days : IsFunction(closings[d], DOMAIN closings[d])
                  /\ DOMAIN closings[d] \in {{}, Accounts}

\* The inductive invariant.
ClosingInv ==
  /\ IsFunction(closer, Closers) /\ IsFunction(closings, Days)
  /\ \A b \in Closers : BatchOK(closer[b])
  /\ AllOrNone

-----------------------------------------------------------------------------
(* Sequences *)

LEMMA HeadAndTail ==
  ASSUME NEW s \in Seq(Accounts), s # <<>>
  PROVE  /\ Head(s) \in Accounts /\ Tail(s) \in Seq(Accounts)
         /\ ToSet(s) \subseteq {Head(s)} \cup ToSet(Tail(s))
<1>1. /\ Head(s) \in Accounts /\ Tail(s) \in Seq(Accounts) /\ Len(Tail(s)) = Len(s) - 1
      /\ \A i \in 1..Len(Tail(s)) : Tail(s)[i] = s[i + 1]
      /\ Len(s) \in Nat /\ DOMAIN s = 1..Len(s) /\ DOMAIN Tail(s) = 1..Len(Tail(s))
      /\ Head(s) = s[1]
  BY HeadTailProperties, LenProperties
<1>2. ASSUME NEW i \in DOMAIN s, i # 1
      PROVE  s[i] \in ToSet(Tail(s))
  <2>1. i - 1 \in DOMAIN Tail(s) /\ Tail(s)[i - 1] = s[i]
    BY <1>1, <1>2
  <2> QED
    BY <2>1 DEF ToSet
<1> QED
  BY <1>1, <1>2 DEF ToSet

LEMMA RowAdded ==
  ASSUME NEW S, NEW s \in Seq(S), NEW e
  PROVE  /\ Append(s, e) \in Seq(S \cup {e})
         /\ Snapped(Append(s, e)) = Snapped(s) \cup {e.account}
<1>1. s \in Seq(S \cup {e})
  BY SeqMonotonic
<1>2. /\ Append(s, e) \in Seq(S \cup {e}) /\ Len(s) \in Nat
      /\ DOMAIN s = 1..Len(s) /\ DOMAIN Append(s, e) = 1..(Len(s) + 1)
      /\ \A i \in 1..Len(s) : Append(s, e)[i] = s[i]
      /\ Append(s, e)[Len(s) + 1] = e
  BY <1>1
<1>3. ToSet(Append(s, e)) = ToSet(s) \cup {e}
  BY <1>2 DEF ToSet
<1> QED
  BY <1>2, <1>3 DEF Snapped

-----------------------------------------------------------------------------
(* The invariant *)

LEMMA ClosingInitInv == ClosingInit => ClosingInv
<1> SUFFICES ASSUME ClosingInit
             PROVE  ClosingInv
  OBVIOUS
<1>1. IsFunction(closer, Closers) /\ \A b \in Closers : BatchOK(closer[b])
  BY DEF ClosingInit, IsFunction, BatchOK
<1>2. IsFunction(closings, Days) /\ \A d \in Days : closings[d] = [a \in {} |-> None]
  BY DEF ClosingInit, IsFunction
<1>3. AllOrNone
  BY <1>2 DEF AllOrNone, IsFunction
<1> QED
  BY <1>1, <1>2, <1>3 DEF ClosingInv

\* A step of one batch that closes nothing.
LEMMA BatchMoves ==
  ASSUME ClosingInv, NEW b \in Closers, NEW r, BatchOK(r),
         closer' = [closer EXCEPT ![b] = r], UNCHANGED closings
  PROVE  ClosingInv'
<1>1. IsFunction(closer', Closers) /\ closer'[b] = r
      /\ \A c \in Closers \ {b} : closer'[c] = closer[c]
  <2>1. IsFunction(closer, Closers)
    BY DEF ClosingInv
  <2>2. closer' = [c \in Closers |-> IF c = b THEN r ELSE closer[c]]
    BY <2>1 DEF IsFunction
  <2> QED
    BY <2>1, <2>2 DEF IsFunction
<1>2. \A c \in Closers : BatchOK(closer'[c])
  BY <1>1 DEF ClosingInv
<1>3. \A c \in Closers : BatchOK(closer[c])'
  BY <1>2 DEF BatchOK, Covers
<1> QED
  BY <1>1, <1>3 DEF ClosingInv, AllOrNone

LEMMA RunningBatch ==
  ASSUME ClosingInv, NEW b \in Closers, closer[b].at # "idle"
  PROVE  IsBatch(closer[b]) /\ Reads(closer[b]) /\ Covers(closer[b])
BY DEF ClosingInv, BatchOK, NoBatch

LEMMA StartClosingInv ==
  ASSUME ClosingInv, NEW b \in Closers, NEW d \in Days, StartClosing(b, d)
  PROVE  ClosingInv'
<1> DEFINE r == Batch("find", d, AccountOrder, <<>>, 0, 0, Len(ledger))
<1>1. IsBatch(r)
  <2>1. AccountOrder \in Seq(Accounts) /\ <<>> \in Seq(Accounts) /\ "find" \in ClosingPoints
    BY ClosingAssumption DEF ClosingPoints
  <2> QED
    BY <2>1 DEF IsBatch
<1>2. Reads(r) /\ Covers(r)
  <2>1. r.at = "find" /\ r.left = AccountOrder /\ r.created = <<>> /\ r.day = d
    BY DEF Batch
  <2>2. Snapped(<<>>) = {}
    BY DEF Snapped, ToSet
  <2> QED
    BY <2>1, <2>2, ClosingAssumption DEF Reads, Covers
<1>3. BatchOK(r) /\ closer' = [closer EXCEPT ![b] = r] /\ UNCHANGED closings
  BY <1>1, <1>2 DEF BatchOK, StartClosing, Batch
<1> QED
  BY <1>3, BatchMoves

LEMMA FindClosingInv ==
  ASSUME ClosingInv, NEW b \in Closers, FindClosing(b)
  PROVE  ClosingInv'
<1>1. /\ closer[b].at = "find" /\ closer[b].left # <<>> /\ UNCHANGED closings
      /\ IF ThisAccount(b) \in DOMAIN closings[closer[b].day]
         THEN closer' = [closer EXCEPT ![b] = [closer[b] EXCEPT !.left = Tail(closer[b].left)]]
         ELSE closer' = [closer EXCEPT ![b] = [closer[b] EXCEPT !.at = "sum_credit"]]
  BY DEF FindClosing
<1>2. IsBatch(closer[b]) /\ Reads(closer[b]) /\ Covers(closer[b])
  BY <1>1, RunningBatch
<1>3. PICK at \in ClosingPoints, d \in Days, left \in Seq(Accounts) :
        \E S, credit, debit, began : \E created \in Seq(S) :
          closer[b] = Batch(at, d, left, created, credit, debit, began)
  BY <1>2 DEF IsBatch
<1>4. PICK S, credit, debit, began, created :
        created \in Seq(S) /\ closer[b] = Batch(at, d, left, created, credit, debit, began)
  BY <1>3
<1>5. closer[b].left = left /\ closer[b].created = created /\ closer[b].day = d
  BY <1>4 DEF Batch
<1>6. /\ Head(left) \in Accounts /\ Tail(left) \in Seq(Accounts)
      /\ ToSet(left) \subseteq {Head(left)} \cup ToSet(Tail(left))
  BY <1>1, <1>5, HeadAndTail
<1>7. CASE ThisAccount(b) \in DOMAIN closings[closer[b].day]
  <2> DEFINE r == Batch("find", d, Tail(left), created, credit, debit, began)
  <2>1. closer' = [closer EXCEPT ![b] = r]
    BY <1>1, <1>4, <1>7 DEF Batch
  <2>2. IsBatch(r)
    BY <1>4, <1>6 DEF IsBatch, ClosingPoints
  <2>3. r.at = "find" /\ r.left = Tail(left) /\ r.created = created /\ r.day = d
    BY DEF Batch
  <2>4. Reads(r) /\ Covers(r)
    BY <1>2, <1>5, <1>6, <1>7, <2>3 DEF Reads, Covers, ThisAccount
  <2> QED
    BY <1>1, <2>1, <2>2, <2>4, BatchMoves DEF BatchOK
<1>8. CASE ThisAccount(b) \notin DOMAIN closings[closer[b].day]
  <2> DEFINE r == Batch("sum_credit", d, left, created, credit, debit, began)
  <2>1. closer' = [closer EXCEPT ![b] = r]
    BY <1>1, <1>4, <1>8 DEF Batch
  <2>2. IsBatch(r)
    BY <1>4 DEF IsBatch, ClosingPoints
  <2>3. r.left = left /\ r.created = created /\ r.day = d
    BY DEF Batch
  <2>4. Reads(r) /\ Covers(r)
    BY <1>1, <1>2, <1>5, <2>3 DEF Reads, Covers
  <2> QED
    BY <1>1, <2>1, <2>2, <2>4, BatchMoves DEF BatchOK
<1> QED
  BY <1>7, <1>8

\* A sum is read: nothing else of the batch changes.
LEMMA SumInv ==
  ASSUME ClosingInv, NEW b \in Closers, SumCredit(b) \/ SumDebit(b)
  PROVE  ClosingInv'
<1>1. closer[b].at \in {"sum_credit", "sum_debit"} /\ UNCHANGED closings
  BY DEF SumCredit, SumDebit
<1>2. IsBatch(closer[b]) /\ Reads(closer[b]) /\ Covers(closer[b])
  BY <1>1, RunningBatch
<1>3. PICK at \in ClosingPoints, d \in Days, left \in Seq(Accounts) :
        \E S, credit, debit, began : \E created \in Seq(S) :
          closer[b] = Batch(at, d, left, created, credit, debit, began)
  BY <1>2 DEF IsBatch
<1>4. PICK S, credit, debit, began, created :
        created \in Seq(S) /\ closer[b] = Batch(at, d, left, created, credit, debit, began)
  BY <1>3
<1>5. closer[b].left = left /\ closer[b].created = created /\ closer[b].day = d
  BY <1>4 DEF Batch
<1>6. ASSUME NEW next \in ClosingPoints, NEW c, NEW e,
             closer' = [closer EXCEPT ![b] = Batch(next, d, left, created, c, e, began)]
      PROVE  ClosingInv'
  <2> DEFINE r == Batch(next, d, left, created, c, e, began)
  <2>1. IsBatch(r)
    BY <1>4 DEF IsBatch
  <2>2. r.left = left /\ r.created = created /\ r.day = d
    BY DEF Batch
  <2>3. Reads(r) /\ Covers(r)
    BY <1>1, <1>2, <1>5, <2>2 DEF Reads, Covers
  <2> QED
    BY <1>1, <1>6, <2>1, <2>3, BatchMoves DEF BatchOK
<1>7. CASE SumCredit(b)
  <2> DEFINE sum == SumOf(ThisAccount(b), "CREDIT", ledger)
  <2>1. closer' = [closer EXCEPT ![b] = [closer[b] EXCEPT !.at = "sum_debit", !.credit = sum]]
    BY <1>4, <1>7 DEF SumCredit, ClosingInv, IsFunction
  <2> HIDE DEF sum
  <2>2. closer' = [closer EXCEPT ![b] = Batch("sum_debit", d, left, created, sum, debit, began)]
    <3>1. [closer[b] EXCEPT !.at = "sum_debit", !.credit = sum]
            = Batch("sum_debit", d, left, created, sum, debit, began)
      <4>1. [Batch(at, d, left, created, credit, debit, began) EXCEPT !.at = "sum_debit"]
              = Batch("sum_debit", d, left, created, credit, debit, began)
        BY DEF Batch
      <4>2. [Batch("sum_debit", d, left, created, credit, debit, began) EXCEPT !.credit = sum]
              = Batch("sum_debit", d, left, created, sum, debit, began)
        BY DEF Batch
      <4> QED
        BY <1>4, <4>1, <4>2, Zenon
    <3> QED
      BY <2>1, <3>1
  <2> QED
    BY <1>6, <2>2 DEF ClosingPoints
<1>8. CASE SumDebit(b)
  <2> DEFINE sum == SumOf(ThisAccount(b), "DEBIT", ledger)
  <2>1. closer' = [closer EXCEPT ![b] = [closer[b] EXCEPT !.at = "last_row", !.debit = sum]]
    BY <1>4, <1>8 DEF SumDebit, ClosingInv, IsFunction
  <2> HIDE DEF sum
  <2>2. closer' = [closer EXCEPT ![b] = Batch("last_row", d, left, created, credit, sum, began)]
    <3>1. [closer[b] EXCEPT !.at = "last_row", !.debit = sum]
            = Batch("last_row", d, left, created, credit, sum, began)
      <4>1. [Batch(at, d, left, created, credit, debit, began) EXCEPT !.at = "last_row"]
              = Batch("last_row", d, left, created, credit, debit, began)
        BY DEF Batch
      <4>2. [Batch("last_row", d, left, created, credit, debit, began) EXCEPT !.debit = sum]
              = Batch("last_row", d, left, created, credit, sum, began)
        BY DEF Batch
      <4> QED
        BY <1>4, <4>1, <4>2, Zenon
    <3> QED
      BY <2>1, <3>1
  <2> QED
    BY <1>6, <2>2 DEF ClosingPoints
<1> QED
  BY <1>7, <1>8

\* The record of a batch when it goes on to the next account.
NextAccount(c, l, rows) ==
  [c EXCEPT !.at = "find", !.left = l, !.created = rows, !.credit = 0, !.debit = 0]

LEMMA RecordAdded ==
  ASSUME NEW at, NEW d, NEW left, NEW created, NEW credit, NEW debit, NEW began,
         NEW l, NEW rows
  PROVE  NextAccount(Batch(at, d, left, created, credit, debit, began), l, rows)
           = Batch("find", d, l, rows, 0, 0, began)
<1> DEFINE c == Batch(at, d, left, created, credit, debit, began)
<1>1. [Batch(at, d, left, created, credit, debit, began) EXCEPT !.at = "find"]
        = Batch("find", d, left, created, credit, debit, began)
  BY DEF Batch
<1>2. [Batch("find", d, left, created, credit, debit, began) EXCEPT !.left = l]
        = Batch("find", d, l, created, credit, debit, began)
  BY DEF Batch
<1>3. [Batch("find", d, l, created, credit, debit, began) EXCEPT !.created = rows]
        = Batch("find", d, l, rows, credit, debit, began)
  BY DEF Batch
<1>4. [Batch("find", d, l, rows, credit, debit, began) EXCEPT !.credit = 0]
        = Batch("find", d, l, rows, 0, debit, began)
  BY DEF Batch
<1>5. [Batch("find", d, l, rows, 0, debit, began) EXCEPT !.debit = 0]
        = Batch("find", d, l, rows, 0, 0, began)
  BY DEF Batch
<1>6. [c EXCEPT !.at = "find", !.left = l] = Batch("find", d, l, created, credit, debit, began)
  BY <1>1, <1>2, Zenon
<1>7. [c EXCEPT !.at = "find", !.left = l, !.created = rows]
        = Batch("find", d, l, rows, credit, debit, began)
  BY <1>6, <1>3, Zenon
<1>8. [c EXCEPT !.at = "find", !.left = l, !.created = rows, !.credit = 0]
        = Batch("find", d, l, rows, 0, debit, began)
  BY <1>7, <1>4, Zenon
<1> QED
  BY <1>8, <1>5, Zenon DEF NextAccount

LEMMA LastRowInv ==
  ASSUME ClosingInv, NEW b \in Closers, LastRow(b)
  PROVE  ClosingInv'
<1>1. closer[b].at = "last_row" /\ UNCHANGED closings
  BY DEF LastRow
<1>2. IsBatch(closer[b]) /\ Reads(closer[b]) /\ Covers(closer[b])
  BY <1>1, RunningBatch
<1>3. PICK at \in ClosingPoints, d \in Days, left \in Seq(Accounts) :
        \E S, credit, debit, began : \E created \in Seq(S) :
          closer[b] = Batch(at, d, left, created, credit, debit, began)
  BY <1>2 DEF IsBatch
<1>4. PICK S, credit, debit, began, created :
        created \in Seq(S) /\ closer[b] = Batch(at, d, left, created, credit, debit, began)
  BY <1>3
<1>5. /\ closer[b].left = left /\ closer[b].created = created /\ closer[b].day = d
      /\ closer[b].credit = credit /\ closer[b].debit = debit
  BY <1>4 DEF Batch
<1>6. /\ Head(left) \in Accounts /\ Tail(left) \in Seq(Accounts)
      /\ ToSet(left) \subseteq {Head(left)} \cup ToSet(Tail(left))
  BY <1>1, <1>2, <1>5, HeadAndTail DEF Reads
<1> DEFINE last == LastRowId(ThisAccount(b))
           e == [account |-> Head(left), row |-> [credit |-> credit, debit |-> debit, last |-> last]]
           r == Batch("find", d, Tail(left), Append(created, e), 0, 0, began)
<1> HIDE DEF last
<1>7. closer' = [closer EXCEPT ![b] =
         [closer[b] EXCEPT !.at = "find", !.left = Tail(left), !.created = Append(created, e),
                           !.credit = 0, !.debit = 0]]
  BY <1>5 DEF LastRow, AddSnapshot, ThisAccount, last, ClosingInv, IsFunction
<1>8. e.account = Head(left)
  OBVIOUS
<1> HIDE DEF e
<1>9. closer' = [closer EXCEPT ![b] = r]
  <2>1. NextAccount(closer[b], Tail(left), Append(created, e)) = r
    BY <1>4, RecordAdded
  <2> QED
    BY <1>7, <2>1, Zenon DEF NextAccount
<1>10. /\ Append(created, e) \in Seq(S \cup {e})
       /\ Snapped(Append(created, e)) = Snapped(created) \cup {Head(left)}
  BY <1>4, <1>8, RowAdded
<1>11. IsBatch(r)
  BY <1>6, <1>10 DEF IsBatch, ClosingPoints
<1>12. r.at = "find" /\ r.left = Tail(left) /\ r.created = Append(created, e) /\ r.day = d
  BY DEF Batch
<1>13. Reads(r) /\ Covers(r)
  BY <1>2, <1>5, <1>6, <1>10, <1>12 DEF Reads, Covers
<1> QED
  BY <1>1, <1>9, <1>11, <1>13, BatchMoves DEF BatchOK

\* The commit closes the day for all accounts, or changes nothing.
LEMMA CommitClosingInv ==
  ASSUME ClosingInv, NEW b \in Closers, CommitClosing(b)
  PROVE  /\ ClosingInv'
         /\ \A d \in Days :
              \/ closings'[d] = closings[d]
              \/ DOMAIN closings[d] = {} /\ DOMAIN closings'[d] = Accounts
<1> DEFINE d == closer[b].day
           rows == Snapshots(b)
<1>1. /\ closer[b].at = "find" /\ closer[b].left = <<>>
      /\ closer' = [closer EXCEPT ![b] = NoBatch]
  BY DEF CommitClosing
<1>2. IsBatch(closer[b]) /\ Reads(closer[b]) /\ Covers(closer[b])
  BY <1>1, RunningBatch
<1>3. d \in Days
  BY <1>2 DEF IsBatch, Batch
<1>4. DOMAIN rows = Snapped(closer[b].created)
  BY DEF Snapshots, Snapped
<1>5. DOMAIN rows \subseteq Accounts /\ Accounts \subseteq DOMAIN rows \cup DOMAIN closings[d]
  <2>1. ToSet(<<>>) = {}
    BY DEF ToSet
  <2> QED
    BY <1>1, <1>2, <1>4, <2>1 DEF Reads, Covers
<1>6. DOMAIN closings[d] \in {{}, Accounts} /\ IsFunction(closings[d], DOMAIN closings[d])
      /\ IsFunction(closings, Days)
  BY <1>3 DEF ClosingInv, AllOrNone
<1>7. BatchOK(NoBatch)
  BY DEF BatchOK
<1>8. CASE UNCHANGED closings
  BY <1>1, <1>7, <1>8, BatchMoves
<1>9. CASE /\ DOMAIN rows \cap DOMAIN closings[d] = {}
           /\ closings' = [closings EXCEPT ![d] = Inserted(rows, closings[d])]
  <2> DEFINE table == Inserted(rows, closings[d])
  <2>1. DOMAIN table = DOMAIN rows \cup DOMAIN closings[d] /\ IsFunction(table, DOMAIN table)
    BY DEF Inserted, IsFunction
  <2>2. DOMAIN closings[d] = {} => DOMAIN table = Accounts
    BY <1>5, <2>1
  <2>3. DOMAIN closings[d] = Accounts => table = closings[d]
    <3> SUFFICES ASSUME DOMAIN closings[d] = Accounts
                 PROVE  table = closings[d]
      OBVIOUS
    <3>1. DOMAIN rows = {}
      BY <1>5, <1>9
    <3>2. table = [a \in DOMAIN closings[d] |-> closings[d][a]]
      BY <3>1 DEF Inserted
    <3> QED
      BY <1>6, <3>2 DEF IsFunction
  <2> HIDE DEF rows, table
  <2>4. /\ IsFunction(closings', Days) /\ closings'[d] = table
        /\ \A e \in Days \ {d} : closings'[e] = closings[e]
    <3>1. closings' = [e \in Days |-> IF e = d THEN table ELSE closings[e]]
      BY <1>3, <1>6, <1>9 DEF table, IsFunction
    <3> QED
      BY <1>3, <1>6, <3>1 DEF IsFunction
  <2>5. DOMAIN table = Accounts /\ DOMAIN closings[d] \subseteq DOMAIN table
    BY <1>6, <2>2, <2>3
  <2>6. AllOrNone'
    BY <1>3, <2>1, <2>4, <2>5 DEF ClosingInv, AllOrNone
  <2>7. /\ IsFunction(closer', Closers) /\ closer'[b] = NoBatch
        /\ \A c \in Closers \ {b} : closer'[c] = closer[c]
    <3>1. IsFunction(closer, Closers)
      BY DEF ClosingInv
    <3>2. closer' = [c \in Closers |-> IF c = b THEN NoBatch ELSE closer[c]]
      BY <1>1, <3>1 DEF IsFunction
    <3> QED
      BY <3>1, <3>2 DEF IsFunction
  <2>8. \A c \in Closers \ {b} : BatchOK(closer[c])'
    <3> SUFFICES ASSUME NEW c \in Closers \ {b}, closer[c] # NoBatch
                 PROVE  (IsBatch(closer[c]) /\ Reads(closer[c]) /\ Covers(closer[c]))'
      BY <2>7 DEF BatchOK
    <3>1. IsBatch(closer[c]) /\ Reads(closer[c]) /\ Covers(closer[c])
      BY DEF ClosingInv, BatchOK
    <3>2. closer[c].day \in Days
      BY <3>1 DEF IsBatch, Batch
    <3>3. DOMAIN closings[closer[c].day] \subseteq DOMAIN closings'[closer[c].day]
      BY <2>4, <2>5, <3>2
    <3>4. closer'[c] = closer[c]
      BY <2>7
    <3>5. Accounts \subseteq ToSet(closer[c].left) \cup Snapped(closer[c].created)
                               \cup DOMAIN closings'[closer[c].day]
      BY <3>1, <3>3 DEF Covers
    <3> QED
      BY <3>1, <3>4, <3>5 DEF Covers
  <2>9. ClosingInv'
    BY <2>4, <2>6, <2>7, <2>8 DEF ClosingInv, BatchOK
  <2>10. ASSUME NEW e \in Days
         PROVE  \/ closings'[e] = closings[e]
                \/ DOMAIN closings[e] = {} /\ DOMAIN closings'[e] = Accounts
    BY <1>6, <2>2, <2>3, <2>4
  <2> QED
    BY <2>9, <2>10
<1> QED
  BY <1>8, <1>9 DEF CommitClosing

LEMMA ClosingFailsInv ==
  ASSUME ClosingInv, NEW b \in Closers, ClosingFails(b)
  PROVE  ClosingInv'
BY BatchMoves DEF ClosingFails, BatchOK

\* A step of a batch keeps the invariant, and only a commit writes a snapshot.
LEMMA BatchSteps ==
  ASSUME ClosingInv, NEW b \in Closers,
         (\E d \in Days : StartClosing(b, d)) \/ ClosingStep(b) \/ ClosingFails(b)
  PROVE  /\ ClosingInv'
         /\ \A d \in Days :
              \/ closings'[d] = closings[d]
              \/ DOMAIN closings[d] = {} /\ DOMAIN closings'[d] = Accounts
<1>1. CASE CommitClosing(b)
  BY <1>1, CommitClosingInv
<1>2. CASE \/ \E d \in Days : StartClosing(b, d)
           \/ FindClosing(b) \/ SumCredit(b) \/ SumDebit(b) \/ LastRow(b) \/ ClosingFails(b)
  <2>1. ClosingInv'
    BY <1>2, StartClosingInv, FindClosingInv, SumInv, LastRowInv, ClosingFailsInv
  <2>2. UNCHANGED closings
    BY <1>2 DEF StartClosing, FindClosing, SumCredit, SumDebit, LastRow, ClosingFails
  <2> QED
    BY <2>1, <2>2
<1> QED
  BY <1>1, <1>2 DEF ClosingStep

LEMMA ClosingStill ==
  ASSUME ClosingInv, UNCHANGED closingVars
  PROVE  ClosingInv'
<1>1. UNCHANGED closer /\ UNCHANGED closings
  BY DEF closingVars
<1> QED
  BY <1>1 DEF ClosingInv, BatchOK, Covers, AllOrNone

LEMMA ClosingInvStep == ClosingInv /\ [ClosingNext]_allVars => ClosingInv'
<1> SUFFICES ASSUME ClosingInv, [ClosingNext]_allVars
             PROVE  ClosingInv'
  OBVIOUS
<1>1. CASE TransferStep \/ UNCHANGED allVars
  BY <1>1, ClosingStill DEF TransferStep, allVars
<1>2. ASSUME NEW b \in Closers,
             (\E d \in Days : StartClosing(b, d)) \/ ClosingStep(b) \/ ClosingFails(b)
      PROVE  ClosingInv'
  BY <1>2, BatchSteps
<1> QED
  BY <1>1, <1>2 DEF ClosingNext

-----------------------------------------------------------------------------
(* Sums over ledger rows *)

LedgerRow == [account : Accounts, type : {"CREDIT", "DEBIT"}, amount : Nat]

LEMMA RowsTyped ==
  ASSUME NEW rows \in Seq(LedgerRow)
  PROVE  /\ Len(rows) \in Nat /\ DOMAIN rows = 1..Len(rows)
         /\ \A i \in 1..Len(rows) : rows[i].amount \in Nat
<1>1. Len(rows) \in Nat /\ DOMAIN rows = 1..Len(rows)
  BY LenProperties
<1>2. \A i \in 1..Len(rows) : rows[i] \in LedgerRow
  BY ElementOfSeq
<1> QED
  BY <1>1, <1>2 DEF LedgerRow

LEMMA RowSum ==
  ASSUME NEW rows \in Seq(LedgerRow), NEW a, NEW type
  PROVE  /\ IsFiniteSet(RowsOf(a, type, rows))
         /\ \A i \in RowsOf(a, type, rows) : rows[i].amount \in Nat
         /\ SumOf(a, type, rows) =
              SumOver([i \in RowsOf(a, type, rows) |-> rows[i].amount], RowsOf(a, type, rows))
         /\ SumOf(a, type, rows) \in Nat
<1> DEFINE S == RowsOf(a, type, rows)
           f == [i \in S |-> rows[i].amount]
<1>1. S \in SUBSET (1..Len(rows)) /\ Len(rows) \in Nat
  BY RowsTyped DEF RowsOf
<1>2. IsFiniteSet(S)
  <2> HIDE DEF S
  <2>1. IsFiniteSet(1..Len(rows))
    BY <1>1, FS_Interval
  <2> QED
    BY <1>1, <2>1, FS_Subset
<1>3. \A i \in S : rows[i].amount \in Nat
  BY <1>1, RowsTyped
<1>4. \A i \in S : f[i] \in Nat
  BY <1>3
<1>5. SumOf(a, type, rows) = SumOver(f, S)
  <2> HIDE DEF S
  <2>1. MapThenSumSet(LAMBDA i : rows[i].amount, S) = SumOver([i \in S |-> rows[i].amount], S)
    BY <1>2, AmountsComputed
  <2> QED
    BY Zenon, <2>1 DEF SumOf, S
<1> HIDE DEF f, S
<1>6. SumOver(f, S) \in Nat
  BY <1>2, <1>4, SumNat
<1> QED
  BY <1>2, <1>3, <1>5, <1>6 DEF f, S

\* Rows are only added: a sum grows with them, and does not when none of them
\* is the account's.
LEMMA SumGrows ==
  ASSUME NEW rows \in Seq(LedgerRow), NEW more \in Seq(LedgerRow), Len(rows) <= Len(more),
         \A i \in 1..Len(rows) : more[i] = rows[i], NEW a, NEW type
  PROVE  /\ SumOf(a, type, rows) <= SumOf(a, type, more)
         /\ (\A i \in 1..Len(more) : i > Len(rows) => more[i].account # a)
              => SumOf(a, type, rows) = SumOf(a, type, more)
<1> DEFINE S == RowsOf(a, type, rows)
           T == RowsOf(a, type, more)
           f == [i \in S |-> rows[i].amount]
           g == [i \in T |-> more[i].amount]
<1>1. /\ Len(rows) \in Nat /\ DOMAIN rows = 1..Len(rows)
      /\ Len(more) \in Nat /\ DOMAIN more = 1..Len(more)
  BY RowsTyped
<1>2. \A i \in 1..Len(rows) : i \in 1..Len(more)
  BY <1>1
<1>3. S \in SUBSET T
  BY <1>1, <1>2 DEF RowsOf
<1>4. (\A i \in 1..Len(more) : i > Len(rows) => more[i].account # a) => S = T
  <2> SUFFICES ASSUME \A i \in 1..Len(more) : i > Len(rows) => more[i].account # a,
                      NEW i \in T
               PROVE  i \in S
    BY <1>3
  <2>1. i \in 1..Len(more) /\ more[i].account = a /\ more[i].type = type
    BY <1>1 DEF RowsOf
  <2>2. i \in 1..Len(rows)
    BY <1>1, <2>1
  <2> QED
    BY <1>1, <2>1, <2>2 DEF RowsOf
<1>5. \A i \in S : f[i] = g[i]
  BY <1>1, <1>3 DEF RowsOf
<1>6. IsFiniteSet(S) /\ IsFiniteSet(T) /\ \A i \in T : g[i] \in Nat
  BY RowSum
<1>7. SumOf(a, type, rows) = SumOver(f, S) /\ SumOf(a, type, more) = SumOver(g, T)
  BY RowSum
<1> HIDE DEF S, T, f, g
<1>8. SumOver(f, S) = SumOver(g, S)
  BY <1>5, <1>6, SumSame
<1>9. SumOver(g, S) <= SumOver(g, T)
  BY <1>3, <1>6, SumWithin
<1> QED
  BY <1>4, <1>7, <1>8, <1>9

LEMMA Prefix ==
  ASSUME NEW rows \in Seq(LedgerRow), NEW n \in 0..Len(rows)
  PROVE  /\ SubSeq(rows, 1, n) \in Seq(LedgerRow) /\ Len(SubSeq(rows, 1, n)) = n
         /\ \A i \in 1..n : SubSeq(rows, 1, n)[i] = rows[i]
<1>1. Len(rows) \in Nat /\ n \in Nat /\ n <= Len(rows)
  BY RowsTyped
<1>2. \A i \in 1..n : rows[i] \in LedgerRow
  BY <1>1, ElementOfSeq
<1>3. /\ SubSeq(rows, 1, n) \in Seq(LedgerRow)
      /\ Len(SubSeq(rows, 1, n)) = IF 1 <= n THEN n - 1 + 1 ELSE 0
      /\ \A i \in 1..(n - 1 + 1) : SubSeq(rows, 1, n)[i] = rows[1 + i - 1]
  BY <1>1, <1>2, SubSeqProperties
<1> QED
  BY <1>1, <1>3

\* What a batch reads of an account lies between what was booked before the
\* batch began and what is booked by now.
Between(rows, type, a, n, began) ==
  n \in SumOf(a, type, SubSeq(rows, 1, began))..SumOf(a, type, rows)

\* No entry above the watermark of a snapshot is in its sums.
Marked(rows, a, s) ==
  /\ s.last \in 0..Len(rows)
  /\ s.credit <= SumOf(a, "CREDIT", SubSeq(rows, 1, s.last))
  /\ s.debit <= SumOf(a, "DEBIT", SubSeq(rows, 1, s.last))

\* The record r of a batch, at every step of it.
Summed(rows, r) ==
  r.at # "idle" =>
    /\ r.began \in 0..Len(rows)
    /\ r.at \in {"sum_debit", "last_row"} => Between(rows, "CREDIT", Head(r.left), r.credit, r.began)
    /\ r.at = "last_row" => Between(rows, "DEBIT", Head(r.left), r.debit, r.began)
    /\ \A i \in DOMAIN r.created :
         LET a == r.created[i].account s == r.created[i].row IN
         /\ Between(rows, "CREDIT", a, s.credit, r.began)
         /\ Between(rows, "DEBIT", a, s.debit, r.began)
         /\ Marked(rows, a, s)

\* The inductive invariant about the sums.
SumsInv ==
  /\ ledger \in Seq(LedgerRow)
  /\ \A b \in Closers : Summed(ledger, closer[b])
  /\ \A d \in Days : \A a \in DOMAIN closings[d] : Marked(ledger, a, closings[d][a])

LEMMA RowsAdded ==
  ASSUME NEW rows \in Seq(LedgerRow), NEW more \in Seq(LedgerRow), Len(rows) <= Len(more),
         \A i \in 1..Len(rows) : more[i] = rows[i]
  PROVE  /\ \A r : Summed(rows, r) => Summed(more, r)
         /\ \A a, s : Marked(rows, a, s) => Marked(more, a, s)
<1>1. Len(rows) \in Nat /\ Len(more) \in Nat
  BY RowsTyped
<1>2. ASSUME NEW n \in 0..Len(rows)
      PROVE  SubSeq(more, 1, n) = SubSeq(rows, 1, n) /\ n \in 0..Len(more)
  <2>1. n \in 0..Len(more) /\ \A i \in 1..n : more[i] = rows[i]
    BY <1>1
  <2>2. /\ SubSeq(rows, 1, n) \in Seq(LedgerRow) /\ Len(SubSeq(rows, 1, n)) = n
        /\ \A i \in 1..n : SubSeq(rows, 1, n)[i] = rows[i]
    BY Prefix
  <2>3. /\ SubSeq(more, 1, n) \in Seq(LedgerRow) /\ Len(SubSeq(more, 1, n)) = n
        /\ \A i \in 1..n : SubSeq(more, 1, n)[i] = more[i]
    BY <2>1, Prefix
  <2> QED
    BY <2>1, <2>2, <2>3, SeqEqual
<1>3. ASSUME NEW type, NEW a
      PROVE  /\ SumOf(a, type, rows) <= SumOf(a, type, more)
             /\ SumOf(a, type, rows) \in Nat /\ SumOf(a, type, more) \in Nat
  BY SumGrows, RowSum
<1>4. ASSUME NEW n \in 0..Len(rows), NEW type, NEW a, NEW x, Between(rows, type, a, x, n)
      PROVE  Between(more, type, a, x, n)
  <2>1. SumOf(a, type, SubSeq(rows, 1, n)) \in Nat
    BY Prefix, RowSum
  <2>2. x \in SumOf(a, type, SubSeq(rows, 1, n))..SumOf(a, type, rows)
    BY <1>4 DEF Between
  <2>3. x \in SumOf(a, type, SubSeq(rows, 1, n))..SumOf(a, type, more)
    BY <1>3, <2>1, <2>2
  <2> QED
    BY <1>2, <2>3 DEF Between
<1>5. ASSUME NEW a, NEW s, Marked(rows, a, s) PROVE Marked(more, a, s)
  BY <1>2, <1>5 DEF Marked
<1> QED
  BY <1>4, <1>5, <1>1 DEF Summed

\* The last entry of an account is the watermark of all of its entries.
LEMMA LastRowCovers ==
  ASSUME ledger \in Seq(LedgerRow), NEW a
  PROVE  /\ LastRowId(a) \in 0..Len(ledger)
         /\ \A type : SumOf(a, type, SubSeq(ledger, 1, LastRowId(a))) = SumOf(a, type, ledger)
<1> DEFINE own == {i \in DOMAIN ledger : ledger[i].account = a}
           n == LastRowId(a)
<1>1. Len(ledger) \in Nat /\ DOMAIN ledger = 1..Len(ledger)
  BY RowsTyped
<1>2. own \in SUBSET (1..Len(ledger)) /\ \A i \in 1..Len(ledger) : ledger[i].account = a => i \in own
  BY <1>1
<1>3. n = IF own = {} THEN 0 ELSE Max(own)
  BY DEF LastRowId
<1> HIDE DEF own, n
<1>4. n \in 0..Len(ledger) /\ \A i \in own : i <= n
  <2>1. CASE own = {}
    BY <1>1, <1>3, <2>1
  <2>2. CASE own # {}
    <3>1. IsFiniteSet(1..Len(ledger))
      BY <1>1, FS_Interval
    <3>2. IsFiniteSet(own) /\ own \subseteq Int
      <4>1. own \in SUBSET (1..Len(ledger))
        BY <1>2
      <4>2. IsFiniteSet(own)
        BY <3>1, <4>1, FS_Subset
      <4> QED
        BY <1>1, <4>1, <4>2
    <3>3. Max(own) \in own /\ \A i \in own : i <= Max(own)
      BY <2>2, <3>2, MaxOfFinite
    <3> QED
      BY <1>1, <1>2, <1>3, <2>2, <3>3
  <2> QED
    BY <2>1, <2>2
<1> DEFINE s == SubSeq(ledger, 1, n)
<1>5. s \in Seq(LedgerRow) /\ Len(s) = n /\ \A i \in 1..n : s[i] = ledger[i]
  BY <1>4, Prefix
<1> HIDE DEF s
<1>6. \A i \in 1..Len(ledger) : i > Len(s) => ledger[i].account # a
  BY <1>1, <1>2, <1>4, <1>5
<1>7. Len(s) <= Len(ledger) /\ \A i \in 1..Len(s) : ledger[i] = s[i]
  BY <1>1, <1>4, <1>5
<1>8. \A type : SumOf(a, type, s) = SumOf(a, type, ledger)
  BY <1>5, <1>6, <1>7, SumGrows
<1> QED
  BY <1>4, <1>8 DEF s, n

\* A booked transfer is one between two accounts of the ledger.
LEMMA NewEntriesTyped ==
  ASSUME Inv, Next
  PROVE  NewEntries \in Seq(LedgerRow)
<1> DEFINE booked == {k \in Keys : transactions[k] # transactions'[k]}
<1>1. ASSUME NEW k \in booked
      PROVE  EntriesOf(transactions'[k]) \in Seq(LedgerRow)
  <2> DEFINE p == transactions'[k]
  <2>1. \E h \in Handlers : Write(h) /\ transactions[handler[h].key] = None
    BY DEF Next, Step, Receive, FindKey, ReadSender, ReadReceiver, Write, SumSenderCredits, SumSenderDebits,
                SumReceiverCredits, SumReceiverDebits,
           CompareSender, CompareReceiver, Fail, tables
  <2>2. PICK h \in Handlers : Write(h) /\ transactions[handler[h].key] = None
    BY <2>1
  <2>3. /\ handler[h] \in Serving /\ handler[h].at = "write" /\ Insert(h)
        /\ Prepared(handler[h])
    BY <2>2, ServingThread DEF Inv, Write
  <2>4. handler[h].payload \in Payloads /\ handler[h].key \in Keys
    BY <2>3 DEF Serving
  <2>5. p = handler[h].payload
    BY <2>3, <2>4 DEF Insert, Inv, TypeOK
  <2>6. p.sender \in Accounts /\ p.receiver \in Accounts /\ p.amount \in Nat
    BY <2>3, <2>4, <2>5, PayloadFields DEF Prepared
  <2> HIDE DEF p
  <2>7. /\ Entry(p.sender, "DEBIT", p.amount) \in LedgerRow
        /\ Entry(p.receiver, "CREDIT", p.amount) \in LedgerRow
    BY <2>6 DEF Entry, LedgerRow
  <2> QED
    BY <2>7 DEF EntriesOf, p
<1>2. CASE booked = {}
  BY <1>2 DEF NewEntries
<1>3. CASE booked # {}
  <2> DEFINE k == CHOOSE j \in booked : TRUE
  <2>1. k \in booked
    BY <1>3
  <2>2. NewEntries = EntriesOf(transactions'[k])
    BY <1>3 DEF NewEntries
  <2> HIDE DEF k, booked
  <2> QED
    BY <1>1, <2>1, <2>2
<1> QED
  BY <1>2, <1>3

LEMMA TransferAdds ==
  ASSUME Inv, SumsInv, TransferStep
  PROVE  SumsInv'
<1>1. NewEntries \in Seq(LedgerRow)
  BY NewEntriesTyped DEF TransferStep
<1>2. ledger \in Seq(LedgerRow) /\ ledger' = ledger \o NewEntries /\ UNCHANGED <<closer, closings>>
  BY DEF SumsInv, TransferStep, closingVars
<1> DEFINE more == ledger \o NewEntries
<1>3. /\ more \in Seq(LedgerRow) /\ Len(more) = Len(ledger) + Len(NewEntries)
      /\ \A i \in 1..Len(ledger) + Len(NewEntries) :
           more[i] = IF i <= Len(ledger) THEN ledger[i] ELSE NewEntries[i - Len(ledger)]
  BY <1>1, <1>2, ConcatProperties
<1>4. Len(ledger) \in Nat /\ Len(NewEntries) \in Nat
  BY <1>1, <1>2, LenProperties
<1> HIDE DEF more
<1>5. Len(ledger) <= Len(more) /\ \A i \in 1..Len(ledger) : more[i] = ledger[i]
  BY <1>3, <1>4
<1>6. /\ \A r : Summed(ledger, r) => Summed(more, r)
      /\ \A a, s : Marked(ledger, a, s) => Marked(more, a, s)
  BY <1>2, <1>3, <1>5, RowsAdded
<1>7. ledger' = more
  BY <1>2 DEF more
<1> QED
  BY <1>2, <1>3, <1>6, <1>7 DEF SumsInv

LEMMA SumsMove ==
  ASSUME ClosingInv, SumsInv, NEW b \in Closers, NEW r, Summed(ledger, r),
         closer' = [closer EXCEPT ![b] = r], UNCHANGED <<ledger, closings>>
  PROVE  SumsInv'
<1>1. closer' = [c \in Closers |-> IF c = b THEN r ELSE closer[c]]
  BY DEF ClosingInv, IsFunction
<1>2. \A c \in Closers : Summed(ledger, closer'[c])
  BY <1>1 DEF SumsInv
<1> QED
  BY <1>2 DEF SumsInv

\* What is read between two moments is between them.
LEMMA ReadNow ==
  ASSUME ledger \in Seq(LedgerRow), NEW n \in 0..Len(ledger), NEW a, NEW type
  PROVE  Between(ledger, type, a, SumOf(a, type, ledger), n)
<1>1. Len(ledger) \in Nat
  BY RowsTyped
<1>2. /\ SubSeq(ledger, 1, n) \in Seq(LedgerRow) /\ Len(SubSeq(ledger, 1, n)) = n
      /\ \A i \in 1..n : SubSeq(ledger, 1, n)[i] = ledger[i]
  BY Prefix
<1> DEFINE s == SubSeq(ledger, 1, n)
<1>3. Len(s) <= Len(ledger) /\ \A i \in 1..Len(s) : ledger[i] = s[i]
  BY <1>1, <1>2
<1>4. s \in Seq(LedgerRow)
  BY <1>2
<1> HIDE DEF s
<1>5. SumOf(a, type, s) <= SumOf(a, type, ledger)
  BY <1>3, <1>4, SumGrows
<1>6. SumOf(a, type, s) \in Nat /\ SumOf(a, type, ledger) \in Nat
  BY <1>4, RowSum
<1>7. SumOf(a, type, ledger) \in SumOf(a, type, s)..SumOf(a, type, ledger)
  BY <1>5, <1>6
<1> QED
  BY <1>7 DEF Between, s

LEMMA StartSums ==
  ASSUME ClosingInv, SumsInv, NEW b \in Closers, NEW d \in Days, StartClosing(b, d)
  PROVE  SumsInv'
<1> DEFINE r == Batch("find", d, AccountOrder, <<>>, 0, 0, Len(ledger))
<1>1. r.at = "find" /\ r.created = <<>> /\ r.began = Len(ledger)
  BY DEF Batch
<1>2. Len(ledger) \in 0..Len(ledger) /\ DOMAIN <<>> = {}
  BY RowsTyped DEF SumsInv
<1>3. closer' = [closer EXCEPT ![b] = r] /\ UNCHANGED <<ledger, closings>>
  BY DEF StartClosing, Batch
<1> HIDE DEF r
<1>4. Summed(ledger, r)
  BY <1>1, <1>2 DEF Summed
<1> QED
  BY <1>3, <1>4, SumsMove

\* A running batch, taken apart.
LEMMA BatchParts ==
  ASSUME ClosingInv, SumsInv, NEW b \in Closers, closer[b].at # "idle"
  PROVE  \E at, d, left, created, credit, debit, began :
           /\ closer[b] = Batch(at, d, left, created, credit, debit, began)
           /\ closer[b].at = at /\ closer[b].left = left /\ closer[b].created = created
           /\ closer[b].credit = credit /\ closer[b].debit = debit /\ closer[b].began = began
           /\ began \in 0..Len(ledger)
           /\ \E S : created \in Seq(S)
<1>1. IsBatch(closer[b]) /\ Summed(ledger, closer[b])
  BY RunningBatch DEF SumsInv
<1>2. PICK at \in ClosingPoints, d \in Days, left \in Seq(Accounts) :
        \E S, credit, debit, began : \E created \in Seq(S) :
          closer[b] = Batch(at, d, left, created, credit, debit, began)
  BY <1>1 DEF IsBatch
<1>3. PICK S, credit, debit, began, created :
        created \in Seq(S) /\ closer[b] = Batch(at, d, left, created, credit, debit, began)
  BY <1>2
<1>4. /\ closer[b].at = at /\ closer[b].left = left /\ closer[b].created = created
      /\ closer[b].credit = credit /\ closer[b].debit = debit /\ closer[b].began = began
  BY <1>3 DEF Batch
<1>5. began \in 0..Len(ledger)
  BY <1>1, <1>4 DEF Summed
<1> QED
  BY <1>3, <1>4, <1>5

LEMMA FindSums ==
  ASSUME ClosingInv, SumsInv, NEW b \in Closers, FindClosing(b)
  PROVE  SumsInv'
<1>1. closer[b].at = "find" /\ UNCHANGED <<ledger, closings>>
  BY DEF FindClosing
<1>2. PICK at, d, left, created, credit, debit, began :
        /\ closer[b] = Batch(at, d, left, created, credit, debit, began)
        /\ closer[b].at = at /\ closer[b].left = left
  BY <1>1, BatchParts
<1>3. \E l, p : /\ closer' = [closer EXCEPT ![b] = Batch(p, d, l, created, credit, debit, began)]
                /\ p \in {"find", "sum_credit"}
  <2>1. CASE ThisAccount(b) \in DOMAIN closings[closer[b].day]
    <3>1. closer' = [closer EXCEPT ![b] = [closer[b] EXCEPT !.left = Tail(closer[b].left)]]
      BY <2>1 DEF FindClosing
    <3>2. closer[b].left = left
      BY <1>2
    <3>3. [Batch(at, d, left, created, credit, debit, began) EXCEPT !.left = Tail(left)]
            = Batch(at, d, Tail(left), created, credit, debit, began)
      <4>1. ASSUME NEW l
            PROVE  [Batch(at, d, left, created, credit, debit, began) EXCEPT !.left = l]
                     = Batch(at, d, l, created, credit, debit, began)
        BY DEF Batch
      <4> QED
        BY <4>1, Zenon
    <3>4. closer' = [closer EXCEPT ![b] = Batch(at, d, Tail(left), created, credit, debit, began)]
      BY Zenon, <1>2, <3>1, <3>2, <3>3
    <3>5. at = "find"
      BY <1>1, <1>2 DEF Batch
    <3> QED
      BY <3>4, <3>5
  <2>2. CASE ThisAccount(b) \notin DOMAIN closings[closer[b].day]
    <3>1. closer' = [closer EXCEPT ![b] = [closer[b] EXCEPT !.at = "sum_credit"]]
      BY <2>2 DEF FindClosing
    <3>2. [Batch(at, d, left, created, credit, debit, began) EXCEPT !.at = "sum_credit"]
            = Batch("sum_credit", d, left, created, credit, debit, began)
      BY DEF Batch
    <3>3. closer' = [closer EXCEPT ![b] = Batch("sum_credit", d, left, created, credit, debit, began)]
      BY Zenon, <1>2, <3>1, <3>2
    <3> QED
      BY <3>3
  <2> QED
    BY <2>1, <2>2
<1>4. PICK l, p : /\ closer' = [closer EXCEPT ![b] = Batch(p, d, l, created, credit, debit, began)]
                 /\ p \in {"find", "sum_credit"}
  BY <1>3
<1> DEFINE r == Batch(p, d, l, created, credit, debit, began)
<1>5. r.at \in {"find", "sum_credit"} /\ r.began = closer[b].began /\ r.created = closer[b].created
  BY <1>2, <1>4 DEF Batch
<1> HIDE DEF r
<1>6. Summed(ledger, closer[b])
  BY DEF SumsInv
<1>7. Summed(ledger, r)
  BY <1>1, <1>5, <1>6 DEF Summed
<1> QED
  BY <1>1, <1>4, <1>7, SumsMove DEF r

LEMMA CreditSums ==
  ASSUME ClosingInv, SumsInv, NEW b \in Closers, SumCredit(b)
  PROVE  SumsInv'
<1> DEFINE a == ThisAccount(b)
           sum == SumOf(a, "CREDIT", ledger)
<1>1. closer[b].at = "sum_credit" /\ UNCHANGED <<ledger, closings>>
      /\ closer' = [closer EXCEPT ![b] = [closer[b] EXCEPT !.at = "sum_debit", !.credit = sum]]
  BY DEF SumCredit, ClosingInv, IsFunction
<1>2. PICK at, d, left, created, credit, debit, began :
        /\ closer[b] = Batch(at, d, left, created, credit, debit, began)
        /\ closer[b].left = left /\ closer[b].created = created /\ closer[b].began = began
        /\ began \in 0..Len(ledger)
  BY <1>1, BatchParts
<1>3. Between(ledger, "CREDIT", a, sum, began)
  BY <1>2, ReadNow DEF SumsInv
<1>4. a = Head(left)
  BY <1>2 DEF ThisAccount
<1> HIDE DEF sum, a
<1> DEFINE r == Batch("sum_debit", d, left, created, sum, debit, began)
<1>5. closer' = [closer EXCEPT ![b] = r]
  <2>1. [Batch(at, d, left, created, credit, debit, began) EXCEPT !.at = "sum_debit"]
          = Batch("sum_debit", d, left, created, credit, debit, began)
    BY DEF Batch
  <2>2. [Batch("sum_debit", d, left, created, credit, debit, began) EXCEPT !.credit = sum] = r
    BY DEF Batch
  <2>3. closer[b] = Batch(at, d, left, created, credit, debit, began)
    BY <1>2
  <2>4. [closer[b] EXCEPT !.at = "sum_debit", !.credit = sum] = r
    BY <2>1, <2>2, <2>3, Zenon
  <2> QED
    BY <1>1, <2>4
<1>6. /\ r.at = "sum_debit" /\ r.left = left /\ r.began = began /\ r.created = created
      /\ r.credit = sum
  BY DEF Batch
<1> HIDE DEF r
<1>7. Summed(ledger, closer[b])
  BY DEF SumsInv
<1>8. Summed(ledger, r)
  BY <1>1, <1>2, <1>3, <1>4, <1>6, <1>7 DEF Summed
<1> QED
  BY <1>1, <1>5, <1>8, SumsMove

LEMMA DebitSums ==
  ASSUME ClosingInv, SumsInv, NEW b \in Closers, SumDebit(b)
  PROVE  SumsInv'
<1> DEFINE a == ThisAccount(b)
           sum == SumOf(a, "DEBIT", ledger)
<1>1. closer[b].at = "sum_debit" /\ UNCHANGED <<ledger, closings>>
      /\ closer' = [closer EXCEPT ![b] = [closer[b] EXCEPT !.at = "last_row", !.debit = sum]]
  BY DEF SumDebit, ClosingInv, IsFunction
<1>2. PICK at, d, left, created, credit, debit, began :
        /\ closer[b] = Batch(at, d, left, created, credit, debit, began)
        /\ closer[b].left = left /\ closer[b].created = created /\ closer[b].began = began
        /\ closer[b].credit = credit /\ began \in 0..Len(ledger)
  BY <1>1, BatchParts
<1>3. Between(ledger, "DEBIT", a, sum, began)
  BY <1>2, ReadNow DEF SumsInv
<1>4. a = Head(left)
  BY <1>2 DEF ThisAccount
<1> HIDE DEF sum, a
<1> DEFINE r == Batch("last_row", d, left, created, credit, sum, began)
<1>5. closer' = [closer EXCEPT ![b] = r]
  <2>1. [Batch(at, d, left, created, credit, debit, began) EXCEPT !.at = "last_row"]
          = Batch("last_row", d, left, created, credit, debit, began)
    BY DEF Batch
  <2>2. [Batch("last_row", d, left, created, credit, debit, began) EXCEPT !.debit = sum] = r
    BY DEF Batch
  <2>3. closer[b] = Batch(at, d, left, created, credit, debit, began)
    BY <1>2
  <2>4. [closer[b] EXCEPT !.at = "last_row", !.debit = sum] = r
    BY <2>1, <2>2, <2>3, Zenon
  <2> QED
    BY <1>1, <2>4
<1>6. /\ r.at = "last_row" /\ r.left = left /\ r.began = began /\ r.created = created
      /\ r.credit = credit /\ r.debit = sum
  BY DEF Batch
<1> HIDE DEF r
<1>7. Summed(ledger, closer[b])
  BY DEF SumsInv
<1>8. Summed(ledger, r)
  BY <1>1, <1>2, <1>3, <1>4, <1>6, <1>7 DEF Summed
<1> QED
  BY <1>1, <1>5, <1>8, SumsMove

LEMMA LastRowSums ==
  ASSUME ClosingInv, SumsInv, NEW b \in Closers, LastRow(b)
  PROVE  SumsInv'
<1> DEFINE a == ThisAccount(b)
           last == LastRowId(a)
           row == [credit |-> closer[b].credit, debit |-> closer[b].debit, last |-> last]
           e == [account |-> a, row |-> row]
<1>1. closer[b].at = "last_row" /\ UNCHANGED <<ledger, closings>>
  BY DEF LastRow
<1>2. PICK at, d, left, created, credit, debit, began :
        /\ closer[b] = Batch(at, d, left, created, credit, debit, began)
        /\ closer[b].left = left /\ closer[b].created = created /\ closer[b].began = began
        /\ \E S : created \in Seq(S)
  BY <1>1, BatchParts
<1>3. a = Head(left)
  BY <1>2 DEF ThisAccount
<1>4. Summed(ledger, closer[b]) /\ ledger \in Seq(LedgerRow)
  BY DEF SumsInv
<1>5. /\ Between(ledger, "CREDIT", a, closer[b].credit, began)
      /\ Between(ledger, "DEBIT", a, closer[b].debit, began)
  BY <1>1, <1>2, <1>3, <1>4 DEF Summed
<1>6. /\ last \in 0..Len(ledger)
      /\ \A type : SumOf(a, type, SubSeq(ledger, 1, last)) = SumOf(a, type, ledger)
  BY <1>4, LastRowCovers
<1>7. e.account = a /\ e.row = row /\ row.credit = closer[b].credit
      /\ row.debit = closer[b].debit /\ row.last = last
  OBVIOUS
<1>8. closer' = [closer EXCEPT ![b] =
         [closer[b] EXCEPT !.at = "find", !.left = Tail(left), !.created = Append(created, e),
                           !.credit = 0, !.debit = 0]]
  BY <1>2 DEF LastRow, AddSnapshot, ClosingInv, IsFunction
<1> HIDE DEF a, last, row, e
<1>9. Marked(ledger, a, row)
  <2>1. closer[b].credit <= SumOf(a, "CREDIT", ledger)
    BY <1>5 DEF Between
  <2>2. closer[b].debit <= SumOf(a, "DEBIT", ledger)
    BY <1>5 DEF Between
  <2> QED
    BY <1>6, <1>7, <2>1, <2>2 DEF Marked
<1> DEFINE r == Batch("find", d, Tail(left), Append(created, e), 0, 0, began)
<1>10. closer' = [closer EXCEPT ![b] = r]
  <2>1. closer[b] = Batch(at, d, left, created, credit, debit, began)
    BY <1>2
  <2>2. NextAccount(closer[b], Tail(left), Append(created, e)) = r
    BY <2>1, RecordAdded
  <2> QED
    BY <1>8, <2>2, Zenon DEF NextAccount
<1>11. r.at = "find" /\ r.began = began /\ r.created = Append(created, e)
  BY DEF Batch
<1> HIDE DEF r
<1>12. Summed(ledger, r)
  <2>1. DOMAIN Append(created, e) = 1..(Len(created) + 1) /\ DOMAIN created = 1..Len(created)
        /\ Append(created, e)[Len(created) + 1] = e
        /\ (\A i \in 1..Len(created) : Append(created, e)[i] = created[i])
        /\ Len(created) \in Nat
    <3>1. PICK S : created \in Seq(S)
      BY <1>2
    <3>2. created \in Seq(S \cup {e})
      BY <3>1, SeqMonotonic
    <3> QED
      BY <3>2
  <2>2. \A i \in DOMAIN Append(created, e) : i \in DOMAIN created \/ Append(created, e)[i] = e
    BY <2>1
  <2>3. \A i \in DOMAIN created : Append(created, e)[i] = created[i]
    BY <2>1
  <2> QED
    BY <1>1, <1>2, <1>4, <1>5, <1>7, <1>9, <1>11, <2>2, <2>3 DEF Summed
<1> QED
  BY <1>1, <1>10, <1>12, SumsMove

LEMMA CommitSums ==
  ASSUME ClosingInv, SumsInv, NEW b \in Closers, CommitClosing(b)
  PROVE  SumsInv'
<1> DEFINE day == closer[b].day
           rows == Snapshots(b)
<1>1. /\ closer[b].at = "find" /\ UNCHANGED ledger
      /\ closer' = [closer EXCEPT ![b] = NoBatch]
  BY DEF CommitClosing, vars
<1>2. Summed(ledger, NoBatch)
  BY DEF Summed, NoBatch
<1>3. CASE UNCHANGED closings
  BY <1>1, <1>2, <1>3, SumsMove
<1>4. CASE closings' = [closings EXCEPT ![day] = Inserted(rows, closings[day])]
  <2>1. \A a \in DOMAIN rows : Marked(ledger, a, rows[a])
    <3> SUFFICES ASSUME NEW a \in DOMAIN rows
                 PROVE  Marked(ledger, a, rows[a])
      OBVIOUS
    <3> DEFINE s == CHOOSE e \in ToSet(closer[b].created) : e.account = a
    <3>1. \E e \in ToSet(closer[b].created) : e.account = a
      BY DEF Snapshots
    <3>2. s \in ToSet(closer[b].created) /\ s.account = a
      BY <3>1
    <3>3. rows[a] = s.row
      BY DEF Snapshots
    <3> HIDE DEF s
    <3>4. PICK i \in DOMAIN closer[b].created : s = closer[b].created[i]
      BY <3>2 DEF ToSet
    <3>5. Summed(ledger, closer[b])
      BY DEF SumsInv
    <3> QED
      BY <1>1, <3>2, <3>3, <3>4, <3>5 DEF Summed
  <2> HIDE DEF rows
  <2>2. \A a \in DOMAIN Inserted(rows, closings[day]) :
          Inserted(rows, closings[day])[a] = IF a \in DOMAIN rows THEN rows[a] ELSE closings[day][a]
    BY DEF Inserted
  <2>3. DOMAIN Inserted(rows, closings[day]) = DOMAIN rows \cup DOMAIN closings[day]
    BY DEF Inserted
  <2>4. IsFunction(closings, Days) /\ IsFunction(closer, Closers)
    BY DEF ClosingInv
  <2>5. /\ \A d \in Days \ {day} : closings'[d] = closings[d]
        /\ day \in Days => closings'[day] = Inserted(rows, closings[day])
    <3> DEFINE table == Inserted(rows, closings[day])
    <3> HIDE DEF table
    <3>1. closings' = [d \in Days |-> IF d = day THEN table ELSE closings[d]]
      BY <1>4, <2>4 DEF IsFunction, table
    <3> QED
      BY <3>1 DEF table
  <2>6. \A d \in Days : \A a \in DOMAIN closings'[d] : Marked(ledger, a, closings'[d][a])
    BY <2>1, <2>2, <2>3, <2>5 DEF SumsInv
  <2>7. closer' = [c \in Closers |-> IF c = b THEN NoBatch ELSE closer[c]]
    BY <1>1, <2>4 DEF IsFunction
  <2>8. \A c \in Closers : Summed(ledger, closer'[c])
    BY <1>2, <2>7 DEF SumsInv
  <2> QED
    BY <1>1, <2>6, <2>8 DEF SumsInv
<1> QED
  BY <1>3, <1>4 DEF CommitClosing

LEMMA SumsStep ==
  ASSUME Inv, ClosingInv, SumsInv, [ClosingNext]_allVars
  PROVE  SumsInv'
<1>1. ASSUME NEW b \in Closers, ClosingFails(b) PROVE SumsInv'
  <2>1. Summed(ledger, NoBatch)
    BY DEF Summed, NoBatch
  <2> QED
    BY <1>1, <2>1, SumsMove DEF ClosingFails
<1>2. CASE UNCHANGED allVars
  <2>1. UNCHANGED <<ledger, closings, closer>>
    BY <1>2 DEF allVars, closingVars
  <2> QED
    BY <2>1 DEF SumsInv
<1>3. ASSUME NEW b \in Closers, ClosingStep(b) PROVE SumsInv'
  BY <1>3, FindSums, CreditSums, DebitSums, LastRowSums, CommitSums DEF ClosingStep
<1> QED
  BY <1>1, <1>2, <1>3, StartSums, TransferAdds DEF ClosingNext

LEMMA DepositsTyped ==
  ASSUME NEW rows \in SetToSeqs({Entry(a, "CREDIT", OpeningBalance[a]) :
                                  a \in {x \in Accounts : OpeningBalance[x] > 0}})
  PROVE  rows \in Seq(LedgerRow)
<1> DEFINE funded == {x \in Accounts : OpeningBalance[x] > 0}
           deposits == {Entry(a, "CREDIT", OpeningBalance[a]) : a \in funded}
           D == {i \in DOMAIN AccountOrder : AccountOrder[i] \in funded}
           f == [i \in D |-> Entry(AccountOrder[i], "CREDIT", OpeningBalance[AccountOrder[i]])]
<1>1. AccountOrder \in Seq(Accounts) /\ ToSet(AccountOrder) = Accounts
  BY ClosingAssumption
<1>2. \A a \in Accounts : \E i \in DOMAIN AccountOrder : AccountOrder[i] = a
  BY <1>1 DEF ToSet
<1>3. IsFiniteSet(D)
  <2>1. DOMAIN AccountOrder = 1..Len(AccountOrder) /\ Len(AccountOrder) \in Nat
    BY <1>1, LenProperties
  <2>2. IsFiniteSet(DOMAIN AccountOrder)
    BY <2>1, FS_Interval
  <2> QED
    BY <2>2, FS_Subset
<1>4. f \in Surjection(D, deposits)
  <2>1. f \in [D -> deposits]
    OBVIOUS
  <2>2. \A e \in deposits : \E i \in D : f[i] = e
    BY <1>2
  <2> QED
    BY <2>1, <2>2 DEF Surjection
<1>5. deposits \subseteq LedgerRow
  BY LedgerAssumption DEF Entry, LedgerRow
<1> HIDE DEF deposits, D, f
<1>6. IsFiniteSet(deposits)
  BY <1>3, <1>4, FS_Surjection DEF ExistsSurjection
<1>7. Cardinality(deposits) \in Nat
  BY <1>6, FS_CardinalityType
<1>8. rows \in [1..Cardinality(deposits) -> deposits]
  BY DEF SetToSeqs, deposits
<1> QED
  BY <1>5, <1>7, <1>8

LEMMA SumsInit == ClosingInit => SumsInv
<1> SUFFICES ASSUME ClosingInit PROVE SumsInv
  OBVIOUS
<1>1. ledger \in Seq(LedgerRow)
  BY DepositsTyped DEF ClosingInit
<1>2. \A b \in Closers : Summed(ledger, closer[b])
  BY DEF ClosingInit, NoBatch, Summed
<1>3. \A d \in Days : DOMAIN closings[d] = {}
  BY DEF ClosingInit
<1> QED
  BY <1>1, <1>2, <1>3 DEF SumsInv

-----------------------------------------------------------------------------
(* The theorems *)

\* A day is closed once: by one commit, for every account of the ledger, and no
\* later run of the batch, whoever started it, changes or adds a snapshot. Each
\* account was looked up at another moment, yet the primary key makes the
\* batch that found some of a day unclosed fail when another one closed it.
THEOREM DayClosedOnceForAll == ClosingSpec => ClosedOnceForAll
<1> DEFINE Once ==
      \A d \in Days :
        \/ closings'[d] = closings[d]
        \/ DOMAIN closings[d] = {} /\ DOMAIN closings'[d] = Accounts
<1>1. ClosingInv /\ [ClosingNext]_allVars => [Once]_allVars
  <2> SUFFICES ASSUME ClosingInv, ClosingNext
               PROVE  Once
    OBVIOUS
  <2>1. CASE TransferStep
    BY <2>1 DEF TransferStep, closingVars
  <2>2. ASSUME NEW b \in Closers,
               (\E d \in Days : StartClosing(b, d)) \/ ClosingStep(b) \/ ClosingFails(b)
        PROVE  Once
    BY <2>2, BatchSteps
  <2> QED
    BY <2>1, <2>2 DEF ClosingNext
<1>2. ClosingSpec => []ClosingInv
  BY ClosingInitInv, ClosingInvStep, PTL DEF ClosingSpec
<1> QED
  BY <1>1, <1>2, PTL DEF ClosingSpec, ClosedOnceForAll

\* run_daily_closing reads transactions and entries and writes only snapshots:
\* with any number of batches running, the transfers are those of the ledger
\* service alone.
THEOREM ClosingRunsTheLedger == ClosingSpec => Spec
<1>1. ClosingInit => Init
  BY DEF ClosingInit
<1>2. [ClosingNext]_allVars => [Next]_vars
  <2> SUFFICES ASSUME [ClosingNext]_allVars
               PROVE  [Next]_vars
    OBVIOUS
  <2>1. CASE TransferStep
    BY <2>1 DEF TransferStep
  <2>2. ASSUME NEW b \in Closers,
               (\E d \in Days : StartClosing(b, d)) \/ ClosingStep(b) \/ ClosingFails(b)
        PROVE  UNCHANGED vars
    BY <2>2 DEF StartClosing, ClosingStep, FindClosing, SumCredit, SumDebit, LastRow, AddSnapshot,
       CommitClosing, ClosingFails
  <2> QED
    BY <2>1, <2>2 DEF ClosingNext, allVars
<1> QED
  BY <1>1, <1>2, PTL DEF ClosingSpec, Spec

\* Beside any number of batches too, a single transfer thread leaves no stored
\* balance that differs from the entries, wherever it fails.
THEOREM SequentialAgreesWhileClosing == ClosingSpec => []NoDriftWhenSequential
BY ClosingRunsTheLedger, SequentialAgrees, PTL

LEMMA SumsInvariance == ClosingSpec => []SumsInv
<1>1. ClosingSpec => []Inv
  BY ClosingRunsTheLedger, Invariance, PTL
<1>2. ClosingSpec => []ClosingInv
  BY ClosingInitInv, ClosingInvStep, PTL DEF ClosingSpec
<1> QED
  BY <1>1, <1>2, SumsInit, SumsStep, PTL DEF ClosingSpec

\* run_daily_closing sums the credits and the debits of an account in separate
\* statements, while transfers commit: whatever it writes misses nothing that
\* was booked when the batch began and counts nothing that is not booked yet.
THEOREM SnapshotsOfTheirBatch == ClosingSpec => []ClosingOfThisBatch
<1>1. SumsInv => ClosingOfThisBatch
  BY DEF SumsInv, Summed, Between, ClosingOfThisBatch, UpTo
<1> QED
  BY <1>1, SumsInvariance, PTL

\* The last rowid is read after both sums, and rows are only added: no entry
\* above the watermark of a snapshot is in its sums, so that who continues
\* from the watermark may count an entry twice but never loses one.
THEOREM WatermarksCover == ClosingSpec => []WatermarkCoversTheSums
<1>1. SumsInv => WatermarkCoversTheSums
  BY DEF SumsInv, Marked, WatermarkCoversTheSums, UpTo
<1> QED
  BY <1>1, SumsInvariance, PTL
=============================================================================
