---------------------- MODULE TransferExecutionProofs ----------------------
(***************************************************************************)
(* Proofs about TransferExecution, for every value of its constants.       *)
(*                                                                         *)
(* The safety invariants are not inductive by themselves: that money moves *)
(* only for an authorised confirmation depends on what an Execute handler  *)
(* has already checked at each of its steps, on the history columns that   *)
(* no statement clears, and on auth context rows never changing owner.     *)
(* Inv collects these facts.                                               *)
(*                                                                         *)
(* Two properties need more. Completions are as many as decisions allow    *)
(* because each completion event, written or about to be, and each approval *)
(* not yet spent stems from a handler that read the confirmation while it   *)
(* was PENDING (Budgeted). The daily limit is overshot by a bounded amount  *)
(* because what is executed, together with what the handlers past the limit *)
(* check may still execute, never exceeds the bound (Limited).             *)
(***************************************************************************)
EXTENDS TransferExecution, Sums

\* The steps a handler reaches only after the named check has passed.
PastApproval == {"load_auth", "read_balance", "read_limit", "move", "await_ledger",
                 "mark", "record_audit", "void_confirmation", "void_auth"}

PastAuthentication == PastApproval \ {"load_auth"}

\* A row that a handler has read, or claimed, is there when it is written: no
\* statement deletes one.
Referenced ==
  /\ \A h \in Channels : channel[h].at = "authenticate"
                         => auth[channel[h].auth].status # "absent"
  /\ \A r \in Executes :
       /\ execute[r].at \in PastAuthentication => auth[execute[r].auth].status # "absent"
       /\ execute[r].at \notin {"idle", "claim"}
          => idempotency[execute[r].key].status # "absent"

\* The amount of a confirmation is fixed before it is executed, and the ledger
\* compares it with the balance it then computes from.
Funded ==
  /\ \A r \in Executes :
       execute[r].at \in PastApproval => status[execute[r].confirmation] # "absent"
  /\ \A m \in sent : status[m.confirmation] # "absent"
  /\ \A w \in LedgerThreads :
       serving[w] # IdleThread =>
         /\ serving[w].request \in sent
         /\ serving[w].sender >= fixed[serving[w].request.confirmation].amount

Typed == TypeOK /\ Referenced

\* The history columns record every approval and every verification.
History ==
  /\ \A c \in Confirmations : status[c] \in {"APPROVED", "EXECUTED"} => c \in approvedAt
  /\ \A a \in AuthContexts : auth[a].status = "VERIFIED" => a \in verifiedAt
  /\ \A a \in verifiedAt : auth[a].status # "absent"

Authorised(c) ==
  /\ c \in approvedAt
  /\ \E a \in verifiedAt : auth[a].confirmation = c

Checked ==
  \A r \in Executes :
    /\ execute[r].at \in PastApproval => execute[r].confirmation \in approvedAt
    /\ execute[r].at \in PastAuthentication => Authorised(execute[r].confirmation)

\* Every ledger request carries the key made from its confirmation, and was
\* made for an authorised one; every booking was requested.
Requests ==
  /\ \A i \in DOMAIN posted : posted[i] \in sent
  /\ \A m \in sent : m.key = m.confirmation /\ Authorised(m.confirmation)

\* No two bookings of the ledger carry one key.
BookedOnce == \A i, j \in DOMAIN posted : posted[i].key = posted[j].key => i = j

\* One handler at a time owns the record of a key, for its own confirmation.
Claimed == {r \in Executes : execute[r].at \notin {"idle", "claim"}}

Ownership ==
  \A r \in Claimed :
    /\ idempotency[execute[r].key].status = "IN_PROGRESS"
    /\ idempotency[execute[r].key].confirmation = execute[r].confirmation
    /\ \A q \in Claimed : q # r => execute[q].key # execute[r].key

\* A handler that reports a completion has the ledger's transaction.
Reported ==
  /\ \A r \in Executes :
       \/ execute[r].at \in {"mark", "record_audit"}
       \/ execute[r].at = "store" /\ execute[r].outcome = "completed"
       => Moved(execute[r].confirmation)
  /\ CompletionMeansMoved

Inv ==
  /\ Typed /\ Funded /\ History /\ Checked /\ Requests /\ BookedOnce /\ Ownership
  /\ Reported

-----------------------------------------------------------------------------
(* Types *)

LEMMA FixedDataNonempty == FixedData # {}
<1>1. PICK a \in Accounts, n \in Amounts : TRUE
  BY ConstantsAssumption
<1>2. [from |-> a, to |-> a, amount |-> n] \in FixedData
  BY <1>1 DEF FixedData
<1> QED
  BY <1>2

LEMMA InitTypeOK == Init => TypeOK
<1> SUFFICES ASSUME Init PROVE TypeOK
  OBVIOUS
<1>1. (CHOOSE f \in FixedData : TRUE) \in FixedData
  BY FixedDataNonempty
<1>2. fixed \in [Confirmations -> FixedData]
  BY <1>1 DEF Init
<1>3. posted \in Bookings
  BY DEF Init, Bookings
<1> QED
  BY <1>2, <1>3, ConstantsAssumption
  DEF Init, TypeOK, ConfirmationStatus

\* A running handler stays well-typed wherever it goes next.
LEMMA GotoTyped ==
  ASSUME TypeOK, NEW r \in Executes, execute[r].at # "idle", NEW p \in Point, Goto(r, p)
  PROVE  execute' \in [Executes -> {IdleExecute} \cup RunningExecute]
<1>1. execute[r] \in RunningExecute
  BY DEF TypeOK, IdleExecute
<1>2. [execute[r] EXCEPT !.at = p] \in RunningExecute
  BY <1>1 DEF RunningExecute
<1>3. execute' = [execute EXCEPT ![r] = [execute[r] EXCEPT !.at = p]]
  BY DEF Goto, TypeOK
<1> QED
  BY <1>2, <1>3 DEF TypeOK

LEMMA AnswerTyped ==
  ASSUME TypeOK, NEW r \in Executes, execute[r].at # "idle",
         NEW o \in Outcomes, Answer(r, o)
  PROVE  execute' \in [Executes -> {IdleExecute} \cup RunningExecute]
<1>1. execute[r] \in RunningExecute
  BY DEF TypeOK, IdleExecute
<1>2. [execute[r] EXCEPT !.at = "store", !.outcome = o] \in RunningExecute
  BY <1>1 DEF RunningExecute, Point
<1>3. execute' = [execute EXCEPT ![r] = [execute[r] EXCEPT !.at = "store", !.outcome = o]]
  BY DEF Answer, TypeOK
<1> QED
  BY <1>2, <1>3 DEF TypeOK


LEMMA InitTyped == Init => Typed
  BY InitTypeOK DEF Typed, Referenced, Init, IdleExecute, IdleChannel, PastAuthentication,
                    PastApproval

LEMMA UserTyped ==
  ASSUME Typed, UserNext
  PROVE  Typed'
<1> USE DEF Typed, Referenced
<1>1. ASSUME NEW h \in Channels, NEW c \in Confirmations, NEW d \in {"approve", "cancel"},
             ReadConfirmation(h, c, d)
      PROVE  Typed'
  BY <1>1 DEF ReadConfirmation, TypeOK, confirmationVars, authVars, ledgerVars,
              DecidingChannel
<1>2. ASSUME NEW h \in Channels, Decide(h) PROVE Typed'
  <2>1. channel[h].confirmation \in Confirmations
    BY <1>2 DEF Decide, TypeOK, IdleChannel, DecidingChannel, AuthenticatingChannel
  <2> QED
    BY <1>2, <2>1 DEF Decide, TypeOK, authVars, ledgerVars, ConfirmationStatus, IdleChannel
<1>3. ASSUME NEW h \in Channels, NEW a \in AuthContexts,
             NEW d \in {"VERIFIED", "FAILED", "CANCELLED"}, ReadAuth(h, a, d)
      PROVE  Typed'
  BY <1>3 DEF ReadAuth, TypeOK, confirmationVars, authVars, ledgerVars,
              AuthenticatingChannel
<1>4. ASSUME NEW h \in Channels, Authenticate(h) PROVE Typed'
  <2>1. channel[h] \in AuthenticatingChannel
    BY <1>4 DEF Authenticate, TypeOK, IdleChannel, DecidingChannel
  <2> DEFINE a == channel[h].auth
  <2>2. /\ a \in AuthContexts
        /\ channel[h].decision \in AuthStatus \ {"absent"}
    BY <2>1 DEF AuthenticatingChannel, AuthStatus
  <2>3. auth[a] \in AuthRow
    BY <1>4, <2>2 DEF Authenticate, TypeOK, NoAuth
  <2>4. [auth[a] EXCEPT !.status = channel[h].decision] \in AuthRow
    BY <2>2, <2>3 DEF AuthRow
  <2>5. auth' = [auth EXCEPT ![a] = [auth[a] EXCEPT !.status = channel[h].decision]]
    BY <1>4 DEF Authenticate, TypeOK
  <2>6. TypeOK'
    BY <1>4, <2>2, <2>4, <2>5
    DEF Authenticate, TypeOK, confirmationVars, ledgerVars
  <2>7. \A b \in AuthContexts : auth[b].status # "absent" => auth'[b].status # "absent"
    BY <2>2, <2>4, <2>5 DEF TypeOK, AuthRow
  <2> QED
    BY <1>4, <2>6, <2>7
    DEF Authenticate, TypeOK, IdleChannel, RunningExecute, PastAuthentication,
        PastApproval, IdleExecute, AuthenticatingChannel, DecidingChannel
<1>5. ASSUME NEW h \in Channels, ChannelFails(h) PROVE Typed'
  BY <1>5 DEF ChannelFails, TypeOK, confirmationVars, authVars, ledgerVars, IdleChannel
<1> QED
  BY <1>1, <1>2, <1>3, <1>4, <1>5 DEF UserNext

LEMMA AgentTyped ==
  ASSUME Typed, AgentNext
  PROVE  Typed'
<1> USE DEF Typed, Referenced
<1>1. ASSUME NEW c \in Confirmations, NEW f \in FixedData, Prepare(c, f) PROVE Typed'
  BY <1>1 DEF Prepare, TypeOK, ConfirmationStatus, authVars, ledgerVars
<1>2. ASSUME NEW a \in AuthContexts, NEW c \in Confirmations, BeginAuth(a, c) PROVE Typed'
  <2>1. [status |-> "creating", confirmation |-> c] \in AuthRow
    BY DEF AuthRow, AuthStatus
  <2> QED
    BY <1>2, <2>1 DEF BeginAuth, TypeOK, confirmationVars, ledgerVars
<1>3. ASSUME NEW a \in AuthContexts, CreateAuth(a) PROVE Typed'
  <2>1. auth[a] \in AuthRow
    BY <1>3 DEF CreateAuth, TypeOK, NoAuth
  <2>2. [auth[a] EXCEPT !.status = "PENDING"] \in AuthRow
    BY <2>1 DEF AuthRow, AuthStatus
  <2>3. auth' = [auth EXCEPT ![a] = [auth[a] EXCEPT !.status = "PENDING"]]
    BY <1>3 DEF CreateAuth, TypeOK
  <2>4. TypeOK'
    BY <1>3, <2>2, <2>3 DEF CreateAuth, TypeOK, confirmationVars, ledgerVars
  <2>5. \A b \in AuthContexts : auth[b].status # "absent" => auth'[b].status # "absent"
    BY <2>2, <2>3 DEF TypeOK, AuthRow
  <2> QED
    BY <1>3, <2>4, <2>5
    DEF CreateAuth, TypeOK, IdleChannel, RunningExecute, PastAuthentication,
        PastApproval, IdleExecute, AuthenticatingChannel, DecidingChannel
<1>4. ASSUME NEW r \in Executes, NEW k \in Keys, NEW c \in Confirmations,
             NEW a \in AuthContexts, BeginExecute(r, k, c, a)
      PROVE  Typed'
  <2>1. [at |-> "claim", key |-> k, confirmation |-> c, auth |-> a, outcome |-> "none"]
          \in RunningExecute
    BY DEF RunningExecute, Point, Outcomes
  <2> QED
    BY <1>4, <2>1 DEF BeginExecute, TypeOK, confirmationVars, authVars, ledgerVars,
                      PastAuthentication, PastApproval
<1> QED
  BY <1>1, <1>2, <1>3, <1>4 DEF AgentNext

LEMMA ClockTyped ==
  ASSUME Typed,
         \/ \E c \in Confirmations : ConfirmationExpires(c)
         \/ \E a \in AuthContexts : AuthExpires(a)
  PROVE  Typed'
  BY DEF Typed, Referenced, ConfirmationExpires, AuthExpires, TypeOK, confirmationVars,
         authVars, ledgerVars

\* A booking is a row more: the earlier ones stay where they are.
LEMMA PostsEffect ==
  ASSUME TypeOK, NEW w \in LedgerThreads, LedgerPosts(w)
  PROVE  /\ serving[w] \in ServingThread /\ serving[w].request \in LedgerRequest
         /\ posted' \in Bookings
         /\ DOMAIN posted' = DOMAIN posted \cup {Len(posted) + 1}
         /\ posted'[Len(posted) + 1] = serving[w].request
         /\ \A i \in DOMAIN posted : posted'[i] = posted[i]
         /\ \A i \in DOMAIN posted : posted[i].key # serving[w].request.key
<1>1. serving[w] \in ServingThread
  BY DEF LedgerPosts, TypeOK
<1>2. serving[w].request \in LedgerRequest
  BY <1>1 DEF ServingThread
<1>3. posted \in Seq(LedgerRequest) /\ posted' = Append(posted, serving[w].request)
  BY DEF LedgerPosts, TypeOK, Bookings
<1>4. /\ posted' \in Seq(LedgerRequest)
      /\ DOMAIN posted = 1..Len(posted) /\ Len(posted) \in Nat
      /\ DOMAIN posted' = 1..(Len(posted) + 1)
      /\ posted'[Len(posted) + 1] = serving[w].request
      /\ \A i \in 1..Len(posted) : posted'[i] = posted[i]
  BY <1>2, <1>3
<1>5. DOMAIN posted' = DOMAIN posted \cup {Len(posted) + 1}
  BY <1>4
<1>6. \A i \in DOMAIN posted : posted[i].key # serving[w].request.key
  BY DEF LedgerPosts, InsertAllowed
<1> QED
  BY <1>1, <1>2, <1>4, <1>5, <1>6 DEF Bookings

\* No balance is written below zero: the ledger compares the amount with the
\* balance it subtracts it from.
LEMMA LedgerTyped ==
  ASSUME Typed, Funded, LedgerNext
  PROVE  Typed'
<1>1. ASSUME NEW w \in LedgerThreads, NEW m \in sent, LedgerReads(w, m) PROVE Typed'
  <2> DEFINE f == fixed[m.confirmation]
  <2>1. m \in LedgerRequest /\ f.from \in Accounts /\ f.to \in Accounts
    BY DEF Typed, TypeOK, LedgerRequest, FixedData
  <2>2. balance[f.from] \in Nat /\ balance[f.to] \in Nat
    BY <2>1 DEF Typed, TypeOK
  <2>3. [at |-> "serving", request |-> m, sender |-> balance[f.from],
         receiver |-> balance[f.to]] \in ServingThread
    BY <2>1, <2>2 DEF ServingThread
  <2>4. serving' \in [LedgerThreads -> {IdleThread} \cup ServingThread]
    BY <1>1, <2>3 DEF LedgerReads, Serve, Typed, TypeOK
  <2> QED
    BY <1>1, <2>4 DEF LedgerReads, Serve, Typed, Referenced, TypeOK, confirmationVars, authVars
<1>2. ASSUME NEW w \in LedgerThreads, LedgerPosts(w) PROVE Typed'
  <2> DEFINE m == serving[w].request
             f == fixed[m.confirmation]
  <2>1. /\ m \in LedgerRequest /\ serving[w].sender \in Nat /\ serving[w].receiver \in Nat
        /\ posted' \in Bookings
    BY <1>2, PostsEffect DEF Typed, ServingThread
  <2>2. f \in FixedData
    BY <2>1 DEF Typed, TypeOK, LedgerRequest
  <2>3. /\ f.from \in Accounts /\ f.to \in Accounts
        /\ f.amount \in Nat /\ serving[w].sender >= f.amount
    BY <1>2, <2>2, ConstantsAssumption DEF FixedData, Funded, LedgerPosts
  <2>4. serving[w].sender - f.amount \in Nat /\ serving[w].receiver + f.amount \in Nat
    BY <2>1, <2>3
  <2>5. balance' \in [Accounts -> Nat]
    BY <1>2, <2>3, <2>4 DEF LedgerPosts, Typed, TypeOK
  <2>6. serving' \in [LedgerThreads -> {IdleThread} \cup ServingThread]
    BY <1>2 DEF LedgerPosts, Typed, TypeOK
  <2> QED
    BY <1>2, <2>1, <2>5, <2>6
    DEF LedgerPosts, Typed, Referenced, TypeOK, confirmationVars, authVars
<1>3. ASSUME NEW w \in LedgerThreads, LedgerFails(w) PROVE Typed'
  BY <1>3 DEF LedgerFails, Typed, Referenced, TypeOK, confirmationVars, authVars
<1> QED
  BY <1>1, <1>2, <1>3 DEF LedgerNext

\* What moving on, answering and stopping do to the handlers.
LEMMA GotoEffect ==
  ASSUME TypeOK, NEW r \in Executes, execute[r].at # "idle", NEW p \in Point, Goto(r, p)
  PROVE  /\ execute'[r].at = p
         /\ execute'[r].key = execute[r].key
         /\ execute'[r].confirmation = execute[r].confirmation
         /\ execute'[r].auth = execute[r].auth
         /\ execute'[r].outcome = execute[r].outcome
         /\ \A q \in Executes : q # r => execute'[q] = execute[q]
<1>1. execute[r] \in RunningExecute
  BY DEF TypeOK, IdleExecute
<1>2. execute' = [execute EXCEPT ![r] = [execute[r] EXCEPT !.at = p]]
  BY DEF Goto, TypeOK
<1> QED
  BY <1>1, <1>2 DEF RunningExecute, TypeOK

LEMMA AnswerEffect ==
  ASSUME TypeOK, NEW r \in Executes, execute[r].at # "idle",
         NEW o \in Outcomes, Answer(r, o)
  PROVE  /\ execute'[r].at = "store"
         /\ execute'[r].key = execute[r].key
         /\ execute'[r].confirmation = execute[r].confirmation
         /\ execute'[r].auth = execute[r].auth
         /\ execute'[r].outcome = o
         /\ \A q \in Executes : q # r => execute'[q] = execute[q]
<1>1. execute[r] \in RunningExecute
  BY DEF TypeOK, IdleExecute
<1>2. execute' = [execute EXCEPT ![r] = [execute[r] EXCEPT !.at = "store", !.outcome = o]]
  BY DEF Answer, TypeOK
<1> QED
  BY <1>1, <1>2 DEF RunningExecute, TypeOK

LEMMA StopEffect ==
  ASSUME TypeOK, NEW r \in Executes, execute' = [execute EXCEPT ![r] = IdleExecute]
  PROVE  /\ execute' \in [Executes -> {IdleExecute} \cup RunningExecute]
         /\ execute'[r] = IdleExecute
         /\ \A q \in Executes : q # r => execute'[q] = execute[q]
  BY DEF TypeOK

\* What a running handler works on.
LEMMA RunningFields ==
  ASSUME TypeOK, NEW r \in Executes, execute[r].at # "idle"
  PROVE  /\ execute[r].key \in Keys /\ execute[r].confirmation \in Confirmations
         /\ execute[r].auth \in AuthContexts /\ execute[r].outcome \in Outcomes
         /\ execute[r].at \in Point
  BY DEF TypeOK, IdleExecute, RunningExecute

\* A step by which a handler only moves on.
LEMMA MovesOnTyped ==
  ASSUME Typed, NEW r \in Executes, execute[r].at \notin {"idle", "claim"},
         NEW p \in Point, Goto(r, p),
         p \in PastAuthentication => auth[execute[r].auth].status # "absent",
         status' \in [Confirmations -> ConfirmationStatus],
         sent' \subseteq LedgerRequest,
         UNCHANGED <<fixed, approvedAt, overdue, authVars, idempotency, channel, serving,
                     posted, balance, audit>>
  PROVE  Typed'
<1>1. execute' \in [Executes -> {IdleExecute} \cup RunningExecute]
  BY GotoTyped DEF Typed
<1>2. TypeOK'
  BY <1>1 DEF Typed, TypeOK, authVars
<1>3. \A q \in Executes : q # r => execute'[q] = execute[q]
  BY GotoEffect DEF Typed
<1>4. execute'[r].key = execute[r].key /\ execute'[r].auth = execute[r].auth
      /\ execute'[r].at = p
  BY GotoEffect DEF Typed
<1> QED
  BY <1>2, <1>3, <1>4 DEF Typed, Referenced, authVars

\* A step by which a handler arrives at its answer.
LEMMA AnswersTyped ==
  ASSUME Typed, NEW r \in Executes, execute[r].at \notin {"idle", "claim"},
         NEW o \in Outcomes, Answer(r, o),
         auth' \in [AuthContexts -> {NoAuth} \cup AuthRow],
         \A a \in AuthContexts : auth[a].status # "absent" => auth'[a].status # "absent",
         audit' \in [Confirmations -> Nat],
         UNCHANGED <<confirmationVars, verifiedAt, authOverdue, idempotency, channel,
                     ledgerVars>>
  PROVE  Typed'
<1>1. execute' \in [Executes -> {IdleExecute} \cup RunningExecute]
  BY AnswerTyped DEF Typed
<1>2. TypeOK'
  BY <1>1 DEF Typed, TypeOK, confirmationVars, ledgerVars
<1>3. \A q \in Executes : q # r => execute'[q] = execute[q]
  BY AnswerEffect DEF Typed
<1>4. execute'[r].key = execute[r].key /\ execute'[r].at = "store"
  BY AnswerEffect DEF Typed
<1>5. \A h \in Channels : channel'[h].at = "authenticate"
                          => auth'[channel'[h].auth].status # "absent"
  BY DEF Typed, Referenced, TypeOK, IdleChannel, DecidingChannel, AuthenticatingChannel
<1>6. \A q \in Executes :
        /\ execute'[q].at \in PastAuthentication => auth'[execute'[q].auth].status # "absent"
        /\ execute'[q].at \notin {"idle", "claim"}
           => idempotency'[execute'[q].key].status # "absent"
  BY <1>3, <1>4, RunningFields
  DEF Typed, Referenced, PastAuthentication, PastApproval
<1> QED
  BY <1>2, <1>5, <1>6 DEF Typed, Referenced

LEMMA ExecuteTyped ==
  ASSUME Typed, NEW r \in Executes, ExecuteStep(r) \/ ExecuteFails(r)
  PROVE  Typed'
<1> DEFINE k == execute[r].key
           c == execute[r].confirmation
<1>a. TypeOK
  BY DEF Typed
<1>b. \A p \in {"load_auth", "read_balance", "read_limit", "move", "await_ledger", "mark",
                "record_audit", "void_confirmation", "void_auth", "store"} :
        execute[r].at = p => execute[r].at \notin {"idle", "claim"}
  OBVIOUS
<1>c. execute[r].at \in PastAuthentication => auth[execute[r].auth].status # "absent"
  BY DEF Typed, Referenced
<1>d. Point \subseteq {"claim", "load_confirmation", "load_auth", "store"} \cup PastAuthentication
  BY DEF Point, PastAuthentication, PastApproval
<1>1. CASE ClaimKey(r)
  <2>1. CASE idempotency[k].status = "absent"
    <3>1. /\ k \in Keys /\ c \in Confirmations
          /\ execute[r].at # "idle"
      BY <1>1, <1>a, RunningFields DEF ClaimKey
    <3>2. Goto(r, "load_confirmation")
      BY <1>1, <2>1 DEF ClaimKey
    <3>3. execute' \in [Executes -> {IdleExecute} \cup RunningExecute]
      BY <1>a, <3>1, <3>2, GotoTyped DEF Point
    <3>4. /\ execute'[r].at = "load_confirmation" /\ execute'[r].key = k
          /\ \A q \in Executes : q # r => execute'[q] = execute[q]
      BY <1>a, <3>1, <3>2, GotoEffect DEF Point
    <3>5. [status |-> "IN_PROGRESS", confirmation |-> c, outcome |-> "none"]
            \in IdempotencyRecord
      BY <3>1 DEF IdempotencyRecord, Outcomes
    <3>6. idempotency' = [idempotency EXCEPT ![k] =
            [status |-> "IN_PROGRESS", confirmation |-> c, outcome |-> "none"]]
      BY <1>1, <2>1 DEF ClaimKey
    <3>7. TypeOK'
      BY <1>1, <1>a, <3>3, <3>5, <3>6
      DEF ClaimKey, TypeOK, confirmationVars, authVars, ledgerVars
    <3>8. \A j \in Keys : idempotency[j].status # "absent" \/ j = k
                          => idempotency'[j].status # "absent"
      BY <1>a, <3>1, <3>6 DEF TypeOK
    <3>9. UNCHANGED <<authVars, channel>>
      BY <1>1 DEF ClaimKey
    <3>10. \A q \in Executes : execute'[q].at \notin {"idle", "claim"}
             => idempotency'[execute'[q].key].status # "absent"
      BY <1>a, <3>1, <3>4, <3>8, RunningFields DEF Typed, Referenced
    <3> QED
      BY <3>4, <3>7, <3>9, <3>10
      DEF Typed, Referenced, authVars, PastAuthentication, PastApproval
  <2>2. CASE idempotency[k].status # "absent"
    <3>1. execute' = [execute EXCEPT ![r] = IdleExecute]
      BY <1>1, <2>2 DEF ClaimKey
    <3> QED
      BY <1>1, <2>2, <1>a, <3>1, StopEffect
      DEF ClaimKey, Typed, Referenced, TypeOK, confirmationVars, authVars, ledgerVars,
          IdleExecute, PastAuthentication, PastApproval
  <2> QED
    BY <2>1, <2>2
<1>2. CASE LoadConfirmation(r)
  BY <1>2, <1>a, MovesOnTyped
  DEF LoadConfirmation, Point, PastAuthentication, PastApproval, confirmationVars,
      ledgerVars, TypeOK
<1>3. CASE LoadAuth(r)
  <2>1. auth[execute[r].auth].status # "absent"
    BY <1>3 DEF LoadAuth, BelongsTo
  <2>2. \/ Answer(r, "reauthentication_required") \/ Goto(r, "read_balance")
    BY <1>3 DEF LoadAuth
  <2>3. execute[r].at \notin {"idle", "claim"}
    BY <1>3 DEF LoadAuth
  <2>4. UNCHANGED <<confirmationVars, authVars, idempotency, channel, ledgerVars, audit>>
    BY <1>3 DEF LoadAuth
  <2> QED
    BY <1>a, <2>1, <2>2, <2>3, <2>4, MovesOnTyped, AnswersTyped
    DEF Point, Outcomes, confirmationVars, authVars, ledgerVars, TypeOK
<1>4. CASE ReadBalance(r)
  BY <1>4, <1>a, <1>c, MovesOnTyped
  DEF ReadBalance, Point, PastAuthentication, PastApproval, confirmationVars, ledgerVars, TypeOK
<1>5. CASE ReadLimit(r)
  BY <1>5, <1>a, <1>c, MovesOnTyped
  DEF ReadLimit, Point, PastAuthentication, PastApproval, confirmationVars, ledgerVars, TypeOK
<1>6. CASE VoidConfirmation(r)
  BY <1>6, <1>a, <1>c, MovesOnTyped, RunningFields
  DEF VoidConfirmation, Point, PastAuthentication, PastApproval, ConfirmationStatus,
      ledgerVars, TypeOK
<1>7. CASE VoidAuth(r)
  <2> DEFINE a == execute[r].auth
  <2>1. /\ execute[r].at \notin {"idle", "claim"} /\ Answer(r, "correction_required")
        /\ a \in AuthContexts
        /\ auth[a].status # "absent"
    BY <1>7, <1>a, <1>c, RunningFields DEF VoidAuth, PastAuthentication, PastApproval
  <2>2. auth[a] \in AuthRow
    BY <1>a, <2>1 DEF TypeOK, NoAuth
  <2>3. [auth[a] EXCEPT !.status = "EXPIRED"] \in AuthRow
    BY <2>2 DEF AuthRow, AuthStatus
  <2>4. auth' = [auth EXCEPT ![a] = [auth[a] EXCEPT !.status = "EXPIRED"]]
    BY <1>7, <1>a DEF VoidAuth, TypeOK
  <2>5. auth' \in [AuthContexts -> {NoAuth} \cup AuthRow]
    BY <1>a, <2>3, <2>4 DEF TypeOK
  <2>6. \A b \in AuthContexts : auth[b].status # "absent" => auth'[b].status # "absent"
    BY <1>a, <2>1, <2>3, <2>4 DEF TypeOK, AuthRow
  <2>7. UNCHANGED <<confirmationVars, verifiedAt, authOverdue, idempotency, channel,
                    ledgerVars, audit>>
    BY <1>7 DEF VoidAuth
  <2> QED
    BY <1>a, <2>1, <2>5, <2>6, <2>7, AnswersTyped DEF Outcomes, TypeOK
<1>8. CASE MoveLedger(r)
  <2>1. [key |-> LedgerKey(r), confirmation |-> c] \in LedgerRequest
    BY <1>8, <1>a, RunningFields DEF MoveLedger, LedgerKey, LedgerRequest
  <2> QED
    BY <1>8, <1>a, <1>c, <2>1, MovesOnTyped
    DEF MoveLedger, Point, PastAuthentication, PastApproval, confirmationVars, TypeOK
<1>9. CASE LedgerAnswers(r)
  BY <1>9, <1>a, <1>c, MovesOnTyped
  DEF LedgerAnswers, Point, PastAuthentication, PastApproval, confirmationVars, ledgerVars,
      TypeOK
<1>10. CASE MarkExecuted(r)
  <2>1. CASE status[c] = "APPROVED"
    BY <1>10, <2>1, <1>a, <1>c, MovesOnTyped, RunningFields
    DEF MarkExecuted, Point, PastAuthentication, PastApproval, ConfirmationStatus,
        ledgerVars, TypeOK
  <2>2. CASE status[c] # "APPROVED"
    BY <1>10, <2>2, <1>a, AnswersTyped
    DEF MarkExecuted, Outcomes, confirmationVars, authVars, TypeOK
  <2> QED
    BY <2>1, <2>2
<1>11. CASE RecordAudit(r)
  <2>1. audit' \in [Confirmations -> Nat]
    BY <1>11, <1>a, RunningFields DEF RecordAudit, TypeOK
  <2> QED
    BY <1>11, <1>a, <2>1, AnswersTyped DEF RecordAudit, Outcomes, authVars, TypeOK
<1>12. CASE StoreAnswer(r)
  <2>1. /\ k \in Keys /\ execute[r].outcome \in Outcomes
        /\ idempotency[k].status # "absent"
    BY <1>12, <1>a, RunningFields DEF StoreAnswer, Typed, Referenced
  <2>2. idempotency[k] \in IdempotencyRecord
    BY <1>a, <2>1 DEF TypeOK, NoRecord
  <2> DEFINE new == [idempotency[k] EXCEPT !.status = "COMPLETED",
                                           !.outcome = execute[r].outcome]
  <2>3. new \in IdempotencyRecord
    BY <2>1, <2>2 DEF IdempotencyRecord
  <2>4. idempotency' = [idempotency EXCEPT ![k] = new]
    BY <1>12, <1>a DEF StoreAnswer, TypeOK
  <2>5. execute' = [execute EXCEPT ![r] = IdleExecute]
    BY <1>12 DEF StoreAnswer
  <2>6. \A j \in Keys : idempotency[j].status # "absent" => idempotency'[j].status # "absent"
    BY <1>a, <2>1, <2>3, <2>4 DEF TypeOK, IdempotencyRecord
  <2>7. UNCHANGED <<confirmationVars, authVars, channel, ledgerVars, audit>>
    BY <1>12 DEF StoreAnswer
  <2>8. TypeOK'
    BY <1>a, <2>3, <2>4, <2>5, <2>7, StopEffect
    DEF TypeOK, confirmationVars, authVars, ledgerVars
  <2> QED
    BY <1>a, <2>5, <2>6, <2>7, <2>8, StopEffect, RunningFields
    DEF Typed, Referenced, authVars, IdleExecute, PastAuthentication, PastApproval
<1>13. CASE ExecuteFails(r)
  BY <1>13, <1>a, StopEffect
  DEF ExecuteFails, Typed, Referenced, TypeOK, confirmationVars, authVars, ledgerVars,
      IdleExecute, PastAuthentication, PastApproval
<1> QED
  BY <1>1, <1>2, <1>3, <1>4, <1>5, <1>6, <1>7, <1>8, <1>9, <1>10, <1>11, <1>12, <1>13
  DEF ExecuteStep

LEMMA TypedStep == Typed /\ Funded /\ [Next]_vars => Typed'
<1> SUFFICES ASSUME Typed, Funded, [Next]_vars PROVE Typed'
  OBVIOUS
<1>1. CASE UserNext
  BY <1>1, UserTyped
<1>2. CASE AgentNext
  BY <1>2, AgentTyped
<1>3. CASE \E r \in Executes : ExecuteStep(r) \/ ExecuteFails(r)
  BY <1>3, ExecuteTyped
<1>4. CASE LedgerNext
  BY <1>4, LedgerTyped
<1>5. CASE \/ \E c \in Confirmations : ConfirmationExpires(c)
           \/ \E a \in AuthContexts : AuthExpires(a)
  BY <1>5, ClockTyped
<1>6. CASE UNCHANGED vars
  BY <1>6 DEF vars, Typed, TypeOK, Referenced
<1> QED
  BY <1>1, <1>2, <1>3, <1>4, <1>5, <1>6 DEF Next

-----------------------------------------------------------------------------
(* What only grows *)

\* Approvals, verifications and ledger transactions are never taken back, and an
\* authentication attempt stays with its confirmation.
Grows ==
  /\ approvedAt \subseteq approvedAt' /\ verifiedAt \subseteq verifiedAt'
  /\ sent \subseteq sent'
  /\ \A i \in DOMAIN posted : i \in DOMAIN posted' /\ posted'[i] = posted[i]
  /\ \A a \in AuthContexts :
       auth[a].status # "absent" => /\ auth'[a].status # "absent"
                                    /\ auth'[a].confirmation = auth[a].confirmation

\* Overwriting the status of a row keeps its confirmation.
LEMMA StatusWrite ==
  ASSUME TypeOK, NEW a \in AuthContexts, auth[a].status # "absent",
         NEW s \in AuthStatus \ {"absent"}, auth' = [auth EXCEPT ![a].status = s]
  PROVE  /\ auth'[a].status = s
         /\ \A b \in AuthContexts : b # a => auth'[b] = auth[b]
         /\ \A b \in AuthContexts : auth'[b].confirmation = auth[b].confirmation
         /\ \A b \in AuthContexts : auth[b].status # "absent" => auth'[b].status # "absent"
<1>1. auth[a] \in AuthRow
  BY DEF TypeOK, NoAuth
<1>2. auth' = [auth EXCEPT ![a] = [auth[a] EXCEPT !.status = s]]
  BY DEF TypeOK
<1> QED
  BY <1>1, <1>2 DEF AuthRow, TypeOK

LEMMA StepGrows ==
  ASSUME Typed, Next
  PROVE  Grows
<1> USE DEF Grows
<1>a. TypeOK
  BY DEF Typed
<1>1. CASE UserNext
  <2>1. ASSUME NEW h \in Channels, Authenticate(h) PROVE Grows
    <3>1. channel[h] \in AuthenticatingChannel
      BY <2>1, <1>a DEF Authenticate, TypeOK, IdleChannel, DecidingChannel
    <3>2. /\ channel[h].auth \in AuthContexts
          /\ auth[channel[h].auth].status # "absent"
          /\ channel[h].decision \in AuthStatus \ {"absent"}
      BY <2>1, <3>1 DEF AuthenticatingChannel, AuthStatus, Typed, Referenced, Authenticate
    <3>3. auth' = [auth EXCEPT ![channel[h].auth].status = channel[h].decision]
      BY <2>1 DEF Authenticate
    <3>4. \A b \in AuthContexts :
            /\ auth'[b].confirmation = auth[b].confirmation
            /\ auth[b].status # "absent" => auth'[b].status # "absent"
      BY <1>a, <3>2, <3>3, StatusWrite
    <3> QED
      BY <2>1, <3>4 DEF Authenticate, confirmationVars, ledgerVars
  <2> QED
    BY <1>1, <2>1
    DEF UserNext, ReadConfirmation, Decide, ReadAuth, ChannelFails, confirmationVars,
        authVars, ledgerVars
<1>2. CASE AgentNext
  <2>1. ASSUME NEW a \in AuthContexts, CreateAuth(a) PROVE Grows
    <3>1. \A b \in AuthContexts :
            /\ auth'[b].confirmation = auth[b].confirmation
            /\ auth[b].status # "absent" => auth'[b].status # "absent"
      BY <2>1, <1>a, StatusWrite DEF CreateAuth, AuthStatus
    <3> QED
      BY <2>1, <3>1 DEF CreateAuth, confirmationVars, ledgerVars
  <2>2. ASSUME NEW a \in AuthContexts, NEW c \in Confirmations, BeginAuth(a, c) PROVE Grows
    BY <2>2, <1>a DEF BeginAuth, TypeOK, confirmationVars, ledgerVars
  <2> QED
    BY <1>2, <2>1, <2>2
    DEF AgentNext, Prepare, BeginExecute, confirmationVars, authVars, ledgerVars
<1>3. ASSUME NEW r \in Executes, ExecuteStep(r) \/ ExecuteFails(r) PROVE Grows
  <2>1. CASE VoidAuth(r)
    <3>1. /\ execute[r].auth \in AuthContexts
          /\ auth[execute[r].auth].status # "absent"
      BY <2>1, <1>a, RunningFields
      DEF VoidAuth, Typed, Referenced, PastAuthentication, PastApproval
    <3>2. \A b \in AuthContexts :
            /\ auth'[b].confirmation = auth[b].confirmation
            /\ auth[b].status # "absent" => auth'[b].status # "absent"
      BY <2>1, <1>a, <3>1, StatusWrite DEF VoidAuth, AuthStatus
    <3> QED
      BY <2>1, <3>2 DEF VoidAuth, confirmationVars, ledgerVars
  <2>2. CASE ~VoidAuth(r)
    BY <1>3, <2>2
    DEF ExecuteStep, ExecuteFails, ClaimKey, LoadConfirmation, LoadAuth, ReadBalance,
        ReadLimit, VoidConfirmation, MoveLedger, LedgerAnswers, MarkExecuted, RecordAudit,
        StoreAnswer, confirmationVars, authVars, ledgerVars
  <2> QED
    BY <2>1, <2>2
<1>4. CASE LedgerNext
  <2>1. ASSUME NEW w \in LedgerThreads, LedgerPosts(w) PROVE Grows
    BY <2>1, <1>a, PostsEffect DEF LedgerPosts, confirmationVars, authVars
  <2> QED
    BY <1>4, <2>1
    DEF LedgerNext, LedgerReads, Serve, LedgerFails, confirmationVars, authVars
<1>5. CASE \/ \E c \in Confirmations : ConfirmationExpires(c)
           \/ \E a \in AuthContexts : AuthExpires(a)
  BY <1>5 DEF ConfirmationExpires, AuthExpires, confirmationVars, authVars, ledgerVars
<1> QED
  BY <1>1, <1>2, <1>3, <1>4, <1>5 DEF Next

\* So what authorises a transfer, and the transaction that moved it, last.
LEMMA AuthorisedLasts ==
  ASSUME Typed, History, Grows, NEW c, Authorised(c)
  PROVE  Authorised(c)'
<1>1. PICK a \in verifiedAt : auth[a].confirmation = c
  BY DEF Authorised
<1>2. a \in AuthContexts /\ auth[a].status # "absent"
  BY DEF Typed, TypeOK, History
<1> QED
  BY <1>1, <1>2 DEF Authorised, Grows

LEMMA MovedLasts ==
  ASSUME Grows, NEW c, Moved(c)
  PROVE  Moved(c)'
  BY DEF Grows, Moved

-----------------------------------------------------------------------------
(* The inductive invariant *)

LEMMA InitInv == Init => Inv
<1> SUFFICES ASSUME Init PROVE Inv
  OBVIOUS
<1>1. Typed
  BY InitTyped
<1>2. \A r \in Executes : execute[r].at = "idle" /\ execute[r].outcome = "none"
  BY DEF Init, IdleExecute
<1>3. History /\ Checked /\ Requests /\ BookedOnce /\ Ownership
  BY <1>2 DEF Init, History, NoAuth, Checked, PastApproval, PastAuthentication, Requests,
              BookedOnce, Ownership, Claimed
<1>4. Reported
  BY <1>2 DEF Init, Reported, CompletionMeansMoved, NoRecord
<1>5. Funded
  BY <1>2 DEF Init, Funded, PastApproval
<1> QED
  BY <1>1, <1>3, <1>4, <1>5 DEF Inv

\* A confirmation row stays, with the accounts and the amount it fixed.
LEMMA FixedStays ==
  ASSUME TypeOK, Next, NEW c \in Confirmations, status[c] # "absent"
  PROVE  status'[c] # "absent" /\ fixed'[c] = fixed[c]
<1> DEFINE Stays == status'[c] # "absent" /\ fixed'[c] = fixed[c]
<1>1. CASE UserNext
  <2>1. ASSUME NEW h \in Channels, Decide(h) PROVE Stays
    BY <2>1 DEF Decide, TypeOK
  <2> QED
    BY <1>1, <2>1
    DEF UserNext, ReadConfirmation, ReadAuth, Authenticate, ChannelFails, confirmationVars
<1>2. CASE AgentNext
  <2>1. ASSUME NEW d \in Confirmations, NEW f \in FixedData, Prepare(d, f) PROVE Stays
    BY <2>1 DEF Prepare, TypeOK
  <2> QED
    BY <1>2, <2>1 DEF AgentNext, BeginAuth, CreateAuth, BeginExecute, confirmationVars
<1>3. ASSUME NEW r \in Executes, ExecuteStep(r) \/ ExecuteFails(r) PROVE Stays
  <2>1. CASE MarkExecuted(r) \/ VoidConfirmation(r)
    BY <2>1 DEF MarkExecuted, VoidConfirmation, TypeOK
  <2>2. CASE ~MarkExecuted(r) /\ ~VoidConfirmation(r)
    BY <1>3, <2>2
    DEF ExecuteStep, ExecuteFails, ClaimKey, LoadConfirmation, LoadAuth, ReadBalance,
        ReadLimit, VoidAuth, MoveLedger, LedgerAnswers, RecordAudit, StoreAnswer,
        confirmationVars
  <2> QED
    BY <2>1, <2>2
<1>4. CASE LedgerNext
  BY <1>4 DEF LedgerNext, LedgerReads, Serve, LedgerPosts, LedgerFails, confirmationVars
<1>5. CASE \/ \E d \in Confirmations : ConfirmationExpires(d)
           \/ \E a \in AuthContexts : AuthExpires(a)
  BY <1>5 DEF ConfirmationExpires, AuthExpires, confirmationVars
<1> QED
  BY <1>1, <1>2, <1>3, <1>4, <1>5 DEF Next

LEMMA HistoryStep ==
  ASSUME Inv, Next
  PROVE  History'
<1> USE DEF History
<1>a. Typed /\ TypeOK /\ History
  BY DEF Inv, Typed
<1>1. CASE UserNext
  <2>1. ASSUME NEW h \in Channels, Decide(h) PROVE History'
    BY <2>1, <1>a DEF Decide, TypeOK, authVars
  <2>2. ASSUME NEW h \in Channels, Authenticate(h) PROVE History'
    <3>1. channel[h] \in AuthenticatingChannel
      BY <2>2, <1>a DEF Authenticate, TypeOK, IdleChannel, DecidingChannel
    <3>2. /\ channel[h].auth \in AuthContexts
          /\ auth[channel[h].auth].status # "absent"
          /\ channel[h].decision \in AuthStatus \ {"absent"}
      BY <2>2, <1>a, <3>1 DEF AuthenticatingChannel, AuthStatus, Typed, Referenced, Authenticate
    <3>3. auth' = [auth EXCEPT ![channel[h].auth].status = channel[h].decision]
      BY <2>2 DEF Authenticate
    <3>4. /\ auth'[channel[h].auth].status = channel[h].decision
          /\ \A b \in AuthContexts : b # channel[h].auth => auth'[b] = auth[b]
          /\ \A b \in AuthContexts : auth[b].status # "absent" => auth'[b].status # "absent"
      BY <1>a, <3>2, <3>3, StatusWrite
    <3> QED
      BY <2>2, <1>a, <3>2, <3>4 DEF Authenticate, confirmationVars, TypeOK
  <2> QED
    BY <1>1, <1>a, <2>1, <2>2
    DEF UserNext, ReadConfirmation, ReadAuth, ChannelFails, confirmationVars, authVars
<1>2. CASE AgentNext
  <2>1. ASSUME NEW c \in Confirmations, NEW f \in FixedData, Prepare(c, f) PROVE History'
    BY <2>1, <1>a DEF Prepare, TypeOK, authVars
  <2>2. ASSUME NEW a \in AuthContexts, NEW c \in Confirmations, BeginAuth(a, c)
        PROVE  History'
    BY <2>2, <1>a DEF BeginAuth, TypeOK, confirmationVars
  <2>3. ASSUME NEW a \in AuthContexts, CreateAuth(a) PROVE History'
    <3>1. /\ auth'[a].status = "PENDING"
          /\ \A b \in AuthContexts : b # a => auth'[b] = auth[b]
      BY <2>3, <1>a, StatusWrite DEF CreateAuth, AuthStatus
    <3> QED
      BY <2>3, <1>a, <3>1 DEF CreateAuth, confirmationVars, TypeOK
  <2> QED
    BY <1>2, <1>a, <2>1, <2>2, <2>3
    DEF AgentNext, BeginExecute, confirmationVars, authVars
<1>3. ASSUME NEW r \in Executes, ExecuteStep(r) \/ ExecuteFails(r) PROVE History'
  <2>1. CASE VoidConfirmation(r)
    BY <2>1, <1>a DEF VoidConfirmation, TypeOK, authVars
  <2>2. CASE MarkExecuted(r)
    BY <2>2, <1>a DEF MarkExecuted, TypeOK, authVars
  <2>3. CASE VoidAuth(r)
    <3>1. /\ execute[r].auth \in AuthContexts
          /\ auth[execute[r].auth].status # "absent"
      BY <2>3, <1>a, RunningFields
      DEF VoidAuth, Typed, Referenced, PastAuthentication, PastApproval
    <3>2. auth' = [auth EXCEPT ![execute[r].auth].status = "EXPIRED"]
      BY <2>3 DEF VoidAuth
    <3>3. "EXPIRED" \in AuthStatus \ {"absent"}
      BY DEF AuthStatus
    <3>4. /\ auth'[execute[r].auth].status = "EXPIRED"
          /\ \A b \in AuthContexts : b # execute[r].auth => auth'[b] = auth[b]
      BY <1>a, <3>1, <3>2, <3>3, StatusWrite
    <3> QED
      BY <2>3, <1>a, <3>1, <3>4 DEF VoidAuth, confirmationVars, TypeOK
  <2>4. CASE ~VoidConfirmation(r) /\ ~MarkExecuted(r) /\ ~VoidAuth(r)
    BY <1>3, <2>4, <1>a
    DEF ExecuteStep, ExecuteFails, ClaimKey, LoadConfirmation, LoadAuth, ReadBalance,
        ReadLimit, MoveLedger, LedgerAnswers, RecordAudit, StoreAnswer, confirmationVars,
        authVars
  <2> QED
    BY <2>1, <2>2, <2>3, <2>4
<1>4. CASE LedgerNext
  BY <1>4, <1>a DEF LedgerNext, LedgerReads, Serve, LedgerPosts, LedgerFails,
                    confirmationVars, authVars
<1>5. CASE \/ \E c \in Confirmations : ConfirmationExpires(c)
           \/ \E a \in AuthContexts : AuthExpires(a)
  BY <1>5, <1>a DEF ConfirmationExpires, AuthExpires, confirmationVars, authVars
<1> QED
  BY <1>1, <1>2, <1>3, <1>4, <1>5 DEF Next

\* What one step of a running handler does: it stops, or it goes on with the
\* same key and confirmation, having passed the checks of where it arrives.
Progress(r) ==
  LET now == execute[r] next == execute'[r] IN
  \/ next = IdleExecute
  \/ /\ next.key = now.key /\ next.confirmation = now.confirmation
     /\ next.at # "claim"
     /\ next.at \in PastApproval => now.confirmation \in approvedAt
     /\ next.at \in PastAuthentication => Authorised(now.confirmation)
     /\ \/ next.at \in {"mark", "record_audit"}
        \/ next.at = "store" /\ next.outcome = "completed"
        => Moved(now.confirmation)
     /\ \/ now.at # "claim" /\ UNCHANGED idempotency
        \/ /\ now.at = "claim" /\ idempotency[now.key].status = "absent"
           /\ idempotency' = [idempotency EXCEPT ![now.key] =
                [status |-> "IN_PROGRESS", confirmation |-> now.confirmation,
                 outcome |-> "none"]]

LEMMA ExecuteProgress ==
  ASSUME Inv, NEW r \in Executes, ExecuteStep(r) \/ ExecuteFails(r)
  PROVE  /\ Progress(r)
         /\ execute[r].at # "idle"
         /\ \A q \in Executes : q # r => execute'[q] = execute[q]
<1> DEFINE c == execute[r].confirmation
           Conclusion == /\ Progress(r)
                         /\ execute[r].at # "idle"
                         /\ \A q \in Executes : q # r => execute'[q] = execute[q]
<1>a. TypeOK
  BY DEF Inv, Typed
<1>b. /\ execute[r].at \in PastApproval => c \in approvedAt
      /\ execute[r].at \in PastAuthentication => Authorised(c)
      /\ execute[r].at \in {"mark", "record_audit"} => Moved(c)
  BY DEF Inv, Checked, Reported
<1>1. CASE execute' = [execute EXCEPT ![r] = IdleExecute]
  <2>1. execute[r].at # "idle"
    BY DEF ExecuteStep, ExecuteFails, ClaimKey, LoadConfirmation, LoadAuth, ReadBalance,
           ReadLimit, VoidConfirmation, VoidAuth, MoveLedger, LedgerAnswers, MarkExecuted,
           RecordAudit, StoreAnswer
  <2> QED
    BY <1>1, <1>a, <2>1, StopEffect DEF Progress
<1>2. CASE ClaimKey(r) /\ idempotency[execute[r].key].status = "absent"
  <2>1. execute[r].at = "claim" /\ Goto(r, "load_confirmation")
    BY <1>2 DEF ClaimKey
  <2> QED
    BY <1>2, <1>a, <2>1, GotoEffect
    DEF ClaimKey, Progress, Point, PastApproval, PastAuthentication
<1>3. CASE LoadConfirmation(r)
  <2>1. c \in approvedAt
    BY <1>3, <1>a, RunningFields DEF LoadConfirmation, Approved, Inv, History
  <2> QED
    BY <1>3, <1>a, <2>1, GotoEffect
    DEF LoadConfirmation, Progress, Point, PastApproval, PastAuthentication
<1>4. CASE LoadAuth(r)
  <2>1. c \in approvedAt /\ execute[r].at = "load_auth"
    BY <1>4, <1>b DEF LoadAuth, PastApproval
  <2>2. CASE Answer(r, "reauthentication_required")
    BY <1>4, <1>a, <2>1, <2>2, AnswerEffect
    DEF LoadAuth, Progress, Outcomes, PastApproval, PastAuthentication
  <2>3. CASE Goto(r, "read_balance") /\ auth[execute[r].auth].status = "VERIFIED"
    <3>1. Authorised(c)
      BY <1>4, <1>a, <2>1, <2>3, RunningFields
      DEF LoadAuth, BelongsTo, Authorised, Inv, History
    <3> QED
      BY <1>4, <1>a, <2>1, <2>3, <3>1, GotoEffect
      DEF LoadAuth, Progress, Point, PastApproval, PastAuthentication
  <2> QED
    BY <1>4, <2>2, <2>3 DEF LoadAuth
<1>5. CASE \E p \in {"read_limit", "void_confirmation", "move", "void_auth", "await_ledger"} :
             /\ Goto(r, p)
             /\ execute[r].at \in {"read_balance", "read_limit", "void_confirmation", "move"}
             /\ UNCHANGED idempotency
  <2>1. c \in approvedAt /\ Authorised(c)
    BY <1>5, <1>b DEF PastApproval, PastAuthentication
  <2> QED
    BY <1>5, <1>a, <2>1, GotoEffect
    DEF Progress, Point, PastApproval, PastAuthentication
<1>6. CASE ReadBalance(r) \/ ReadLimit(r) \/ VoidConfirmation(r) \/ MoveLedger(r)
  BY <1>5, <1>6 DEF ReadBalance, ReadLimit, VoidConfirmation, MoveLedger
<1>7. CASE VoidAuth(r)
  BY <1>7, <1>a, AnswerEffect
  DEF VoidAuth, Progress, Outcomes, PastApproval, PastAuthentication
<1>8. CASE LedgerAnswers(r)
  <2>1. PICK i \in DOMAIN posted : posted[i].key = c
    BY <1>8 DEF LedgerAnswers, LedgerKey
  <2>2. Moved(c)
    BY <2>1 DEF Inv, Requests, Moved
  <2>3. Authorised(c) /\ c \in approvedAt
    BY <1>8, <1>b DEF LedgerAnswers, PastApproval, PastAuthentication
  <2> QED
    BY <1>8, <1>a, <2>2, <2>3, GotoEffect
    DEF LedgerAnswers, Progress, Point, PastApproval, PastAuthentication
<1>9. CASE MarkExecuted(r)
  <2>1. Moved(c) /\ Authorised(c) /\ c \in approvedAt
    BY <1>9, <1>b DEF MarkExecuted, PastApproval, PastAuthentication
  <2>2. execute[r].at = "mark" /\ (Goto(r, "record_audit") \/ Answer(r, "completed"))
    BY <1>9 DEF MarkExecuted
  <2>3. UNCHANGED idempotency
    BY <1>9 DEF MarkExecuted
  <2>4. CASE Goto(r, "record_audit")
    BY <1>a, <2>1, <2>2, <2>3, <2>4, GotoEffect
    DEF Progress, Point, PastApproval, PastAuthentication
  <2>5. CASE Answer(r, "completed")
    BY <1>a, <2>1, <2>2, <2>3, <2>5, AnswerEffect
    DEF Progress, Outcomes, PastApproval, PastAuthentication
  <2> QED
    BY <2>2, <2>4, <2>5
<1>10. CASE RecordAudit(r)
  BY <1>10, <1>a, <1>b, AnswerEffect
  DEF RecordAudit, Progress, Outcomes, PastApproval, PastAuthentication
<1> QED
  BY <1>1, <1>2, <1>3, <1>4, <1>6, <1>7, <1>8, <1>9, <1>10
  DEF ExecuteStep, ExecuteFails, ClaimKey, StoreAnswer

\* A step is one of a running handler, the start of one, or leaves handlers,
\* keys and completions as they are.
Elsewhere ==
  /\ UNCHANGED <<execute, idempotency, sent, audit>>
  /\ UNCHANGED posted \/ \E w \in LedgerThreads : LedgerPosts(w)
  /\ \A c \in Confirmations : status'[c] = "EXECUTED" => status[c] = "EXECUTED"

LEMMA StepKinds ==
  ASSUME TypeOK, Funded, Next
  PROVE  \/ \E r \in Executes : ExecuteStep(r) \/ ExecuteFails(r)
         \/ \E r \in Executes, k \in Keys, c \in Confirmations, a \in AuthContexts :
              BeginExecute(r, k, c, a)
         \/ Elsewhere
<1>1. CASE UserNext
  <2>1. ASSUME NEW h \in Channels, Decide(h) PROVE Elsewhere
    BY <2>1 DEF Decide, Elsewhere, TypeOK, ledgerVars
  <2> QED
    BY <1>1, <2>1
    DEF UserNext, ReadConfirmation, ReadAuth, Authenticate, ChannelFails, Elsewhere,
        confirmationVars, ledgerVars
<1>2. CASE AgentNext
  <2>1. ASSUME NEW c \in Confirmations, NEW f \in FixedData, Prepare(c, f) PROVE Elsewhere
    BY <2>1 DEF Prepare, Elsewhere, TypeOK, ledgerVars
  <2> QED
    BY <1>2, <2>1
    DEF AgentNext, BeginAuth, CreateAuth, Elsewhere, confirmationVars, ledgerVars
<1>3. CASE LedgerNext
  <2>1. ASSUME NEW w \in LedgerThreads, LedgerPosts(w) PROVE Elsewhere
    BY <2>1 DEF LedgerPosts, Elsewhere, confirmationVars
  <2> QED
    BY <1>3, <2>1 DEF LedgerNext, LedgerReads, Serve, LedgerFails, Elsewhere, confirmationVars
<1>4. CASE \/ \E c \in Confirmations : ConfirmationExpires(c)
           \/ \E a \in AuthContexts : AuthExpires(a)
  BY <1>4 DEF ConfirmationExpires, AuthExpires, Elsewhere, confirmationVars, ledgerVars
<1> QED
  BY <1>1, <1>2, <1>3, <1>4 DEF Next

\* The start of a handler, seen from the handlers.
LEMMA BeginEffect ==
  ASSUME TypeOK, NEW r \in Executes, NEW k \in Keys, NEW c \in Confirmations,
         NEW a \in AuthContexts, BeginExecute(r, k, c, a)
  PROVE  /\ execute'[r].at = "claim"
         /\ \A q \in Executes : q # r => execute'[q] = execute[q]
         /\ UNCHANGED <<status, idempotency, sent, posted, audit>>
  BY DEF BeginExecute, TypeOK, confirmationVars, ledgerVars

LEMMA FundedStep ==
  ASSUME Inv, Next
  PROVE  Funded'
<1>a. TypeOK /\ Funded
  BY DEF Inv, Typed
<1>b. \A c \in Confirmations :
        status[c] # "absent" => status'[c] # "absent" /\ fixed'[c] = fixed[c]
  BY <1>a, FixedStays
<1>c. /\ \A m \in sent : m.confirmation \in Confirmations
      /\ \A w \in LedgerThreads :
           serving[w] # IdleThread => serving[w].request.confirmation \in Confirmations
  BY <1>a DEF TypeOK, LedgerRequest, ServingThread
<1>d. \A q \in Executes : execute[q].at \in PastApproval
                          => execute[q].confirmation \in Confirmations
  BY <1>a, RunningFields DEF PastApproval
<1>e. ASSUME NEW q \in Executes, execute'[q].at \in PastApproval,
             \/ execute'[q] = execute[q]
             \/ /\ execute'[q].confirmation = execute[q].confirmation
                /\ execute[q].at \in PastApproval \cup {"load_confirmation"}
                /\ execute[q].at = "load_confirmation" => Approved(execute[q].confirmation)
      PROVE  status'[execute'[q].confirmation] # "absent"
  BY <1>a, <1>b, <1>d, <1>e, RunningFields DEF Funded, Approved
<1>1. CASE UNCHANGED <<execute, sent, serving>>
  BY <1>1, <1>a, <1>b, <1>c, <1>d DEF Funded
<1>2. ASSUME NEW r \in Executes, ExecuteStep(r) \/ ExecuteFails(r) PROVE Funded'
  <2>1. /\ execute[r].at # "idle"
        /\ \A q \in Executes : q # r => execute'[q] = execute[q]
    BY <1>2, ExecuteProgress
  <2>2. \/ execute'[r].at \notin PastApproval
        \/ /\ execute'[r].confirmation = execute[r].confirmation
           /\ execute[r].at \in PastApproval \cup {"load_confirmation"}
           /\ execute[r].at = "load_confirmation" => Approved(execute[r].confirmation)
    <3>1. CASE ClaimKey(r) \/ StoreAnswer(r) \/ ExecuteFails(r)
      BY <3>1, <1>a, <2>1, StopEffect, GotoEffect
      DEF ClaimKey, StoreAnswer, ExecuteFails, IdleExecute, PastApproval, Point
    <3>2. CASE LoadConfirmation(r)
      BY <3>2, <1>a, <2>1, GotoEffect DEF LoadConfirmation, Point
    <3>3. /\ \A p \in Point : Goto(r, p) => execute'[r].confirmation = execute[r].confirmation
          /\ \A o \in Outcomes : Answer(r, o) => execute'[r].at \notin PastApproval
      BY <1>a, <2>1, GotoEffect, AnswerEffect DEF PastApproval
    <3>4. CASE \/ LoadAuth(r) \/ ReadBalance(r) \/ ReadLimit(r) \/ VoidConfirmation(r)
               \/ VoidAuth(r) \/ MoveLedger(r) \/ LedgerAnswers(r) \/ MarkExecuted(r)
               \/ RecordAudit(r)
      BY <3>3, <3>4
      DEF LoadAuth, ReadBalance, ReadLimit, VoidConfirmation, VoidAuth, MoveLedger,
          LedgerAnswers, MarkExecuted, RecordAudit, Point, Outcomes, PastApproval
    <3> QED
      BY <1>2, <3>1, <3>2, <3>4 DEF ExecuteStep
  <2>3. \A q \in Executes : execute'[q].at \in PastApproval
                            => status'[execute'[q].confirmation] # "absent"
    BY <1>e, <2>1, <2>2
  <2>4. UNCHANGED serving
    BY <1>2 DEF ExecuteStep, ExecuteFails, ClaimKey, LoadConfirmation, LoadAuth, ReadBalance,
                ReadLimit, VoidConfirmation, VoidAuth, MoveLedger, LedgerAnswers,
                MarkExecuted, RecordAudit, StoreAnswer, ledgerVars
  <2>5. CASE MoveLedger(r)
    <3>1. status[execute[r].confirmation] # "absent" /\ execute[r].confirmation \in Confirmations
      BY <2>5, <1>a, <1>d DEF MoveLedger, Funded, PastApproval
    <3> QED
      BY <1>a, <1>b, <1>c, <2>3, <2>4, <2>5, <3>1 DEF MoveLedger, Funded
  <2>6. CASE UNCHANGED sent
    BY <1>a, <1>b, <1>c, <2>3, <2>4, <2>6 DEF Funded
  <2>7. MoveLedger(r) \/ UNCHANGED sent
    BY <1>2 DEF ExecuteStep, ExecuteFails, ClaimKey, LoadConfirmation, LoadAuth, ReadBalance,
                ReadLimit, VoidConfirmation, VoidAuth, LedgerAnswers, MarkExecuted,
                RecordAudit, StoreAnswer, ledgerVars
  <2> QED
    BY <2>5, <2>6, <2>7
<1>3. ASSUME NEW r \in Executes, NEW k \in Keys, NEW c \in Confirmations,
             NEW a \in AuthContexts, BeginExecute(r, k, c, a)
      PROVE  Funded'
  <2>1. UNCHANGED <<sent, serving>>
    BY <1>3 DEF BeginExecute, ledgerVars
  <2>2. \A q \in Executes : execute'[q].at \in PastApproval => execute'[q] = execute[q]
    BY <1>3, <1>a, BeginEffect DEF PastApproval
  <2> QED
    BY <1>a, <1>b, <1>c, <1>e, <2>1, <2>2 DEF Funded
<1>4. CASE LedgerNext
  <2>1. UNCHANGED <<status, fixed, execute, sent>>
    BY <1>4 DEF LedgerNext, LedgerReads, Serve, LedgerPosts, LedgerFails, confirmationVars
  <2>2. ASSUME NEW w \in LedgerThreads, NEW m \in sent, LedgerReads(w, m) PROVE Funded'
    <3>1. /\ serving'[w].request = m
          /\ serving'[w].sender = balance[fixed[m.confirmation].from]
          /\ \A v \in LedgerThreads \ {w} : serving'[v] = serving[v]
      BY <2>2, <1>a DEF LedgerReads, Serve, TypeOK
    <3>2. serving'[w].sender >= fixed[m.confirmation].amount
      BY <2>2, <3>1 DEF LedgerReads, HasFunds
    <3> QED
      BY <1>a, <2>1, <3>1, <3>2 DEF Funded
  <2>3. ASSUME NEW w \in LedgerThreads, LedgerPosts(w) \/ LedgerFails(w) PROVE Funded'
    <3>1. /\ serving'[w] = IdleThread
          /\ \A v \in LedgerThreads \ {w} : serving'[v] = serving[v]
      BY <2>3, <1>a DEF LedgerPosts, LedgerFails, TypeOK
    <3> QED
      BY <1>a, <2>1, <3>1 DEF Funded
  <2> QED
    BY <1>4, <2>2, <2>3 DEF LedgerNext
<1>5. \/ UNCHANGED <<execute, sent, serving>> \/ LedgerNext
      \/ \E r \in Executes : ExecuteStep(r) \/ ExecuteFails(r)
      \/ \E r \in Executes, k \in Keys, c \in Confirmations, a \in AuthContexts :
           BeginExecute(r, k, c, a)
  BY DEF Next, UserNext, ReadConfirmation, Decide, ReadAuth, Authenticate, ChannelFails,
         AgentNext, Prepare, BeginAuth, CreateAuth, ConfirmationExpires, AuthExpires, ledgerVars
<1> QED
  BY <1>1, <1>2, <1>3, <1>4, <1>5

LEMMA CheckedStep ==
  ASSUME Inv, Next, Grows
  PROVE  Checked'
<1> DEFINE Later(c) == c \in approvedAt' /\ \E a \in verifiedAt' : auth'[a].confirmation = c
<1> SUFFICES ASSUME NEW q \in Executes
             PROVE  /\ execute'[q].at \in PastApproval
                       => execute'[q].confirmation \in approvedAt'
                    /\ execute'[q].at \in PastAuthentication
                       => Later(execute'[q].confirmation)
  BY DEF Checked, Authorised
<1>a. TypeOK /\ Typed /\ Funded /\ History
  BY DEF Inv, Typed
<1>b. \A c \in approvedAt : c \in approvedAt'
  BY DEF Grows
<1>c. \A c : Authorised(c) => Later(c)
  BY <1>a, AuthorisedLasts DEF Authorised
<1>d. /\ execute[q].at \in PastApproval => execute[q].confirmation \in approvedAt
      /\ execute[q].at \in PastAuthentication => Authorised(execute[q].confirmation)
  BY DEF Inv, Checked
<1> HIDE DEF Later
<1>1. CASE execute'[q] = execute[q]
  BY <1>1, <1>b, <1>c, <1>d
<1>2. CASE execute'[q].at \in {"idle", "claim"}
  BY <1>2 DEF PastApproval, PastAuthentication
<1>3. CASE Progress(q)
  <2>1. CASE execute'[q] = IdleExecute
    BY <1>2, <2>1 DEF IdleExecute
  <2>2. CASE execute'[q] # IdleExecute
    BY <1>3, <2>2, <1>b, <1>c DEF Progress
  <2> QED
    BY <2>1, <2>2
<1>4. CASE \E r \in Executes : ExecuteStep(r) \/ ExecuteFails(r)
  BY <1>4, <1>1, <1>3, ExecuteProgress
<1>5. CASE \E r \in Executes, k \in Keys, c \in Confirmations, a \in AuthContexts :
             BeginExecute(r, k, c, a)
  BY <1>5, <1>a, <1>1, <1>2, BeginEffect
<1>6. CASE Elsewhere
  BY <1>6, <1>1 DEF Elsewhere
<1> QED
  BY <1>a, <1>4, <1>5, <1>6, StepKinds

LEMMA RequestsStep ==
  ASSUME Inv, Next, Grows
  PROVE  Requests'
<1>a. TypeOK /\ Typed /\ Funded /\ History /\ Requests
  BY DEF Inv, Typed
<1>b. \A c : Authorised(c) => Authorised(c)'
  BY <1>a, AuthorisedLasts
<1>1. CASE \E r \in Executes : ExecuteStep(r) \/ ExecuteFails(r)
  <2>1. PICK r \in Executes : ExecuteStep(r) \/ ExecuteFails(r)
    BY <1>1
  <2>2. UNCHANGED posted
    BY <2>1 DEF ExecuteStep, ExecuteFails, ClaimKey, LoadConfirmation, LoadAuth, ReadBalance,
                ReadLimit, VoidConfirmation, VoidAuth, MoveLedger, LedgerAnswers,
                MarkExecuted, RecordAudit, StoreAnswer, ledgerVars
  <2>3. CASE MoveLedger(r)
    <3>1. Authorised(execute[r].confirmation)
      BY <2>3 DEF MoveLedger, Inv, Checked, PastAuthentication, PastApproval
    <3> QED
      BY <2>2, <2>3, <3>1, <1>a, <1>b DEF MoveLedger, LedgerKey, Requests
  <2>4. CASE ~MoveLedger(r)
    <3>1. UNCHANGED sent
      BY <2>1, <2>4
      DEF ExecuteStep, ExecuteFails, ClaimKey, LoadConfirmation, LoadAuth, ReadBalance,
          ReadLimit, VoidConfirmation, VoidAuth, LedgerAnswers, MarkExecuted, RecordAudit,
          StoreAnswer, ledgerVars
    <3> QED
      BY <2>2, <3>1, <1>a, <1>b DEF Requests
  <2> QED
    BY <2>3, <2>4
<1>2. CASE Elsewhere
  <2>1. \A i \in DOMAIN posted' : posted'[i] \in sent
    <3>1. CASE UNCHANGED posted
      BY <3>1, <1>a DEF Requests
    <3>2. ASSUME NEW w \in LedgerThreads, LedgerPosts(w) PROVE \A i \in DOMAIN posted' : posted'[i] \in sent
      BY <3>2, <1>a, PostsEffect DEF Requests, Funded, LedgerPosts
    <3> QED
      BY <1>2, <3>1, <3>2 DEF Elsewhere
  <2> QED
    BY <1>2, <2>1, <1>a, <1>b DEF Elsewhere, Requests
<1>3. ASSUME NEW r \in Executes, NEW k \in Keys, NEW c \in Confirmations,
             NEW a \in AuthContexts, BeginExecute(r, k, c, a)
      PROVE  Requests'
  BY <1>3, <1>a, <1>b, BeginEffect DEF Requests
<1> QED
  BY <1>a, <1>1, <1>2, <1>3, StepKinds

LEMMA BookedOnceStep ==
  ASSUME Inv, Next
  PROVE  BookedOnce'
<1>a. TypeOK /\ Funded /\ BookedOnce
  BY DEF Inv, Typed
<1>1. ASSUME NEW w \in LedgerThreads, LedgerPosts(w) PROVE BookedOnce'
  BY <1>a, <1>1, PostsEffect DEF BookedOnce
<1>2. CASE UNCHANGED posted
  BY <1>a, <1>2 DEF BookedOnce
<1>3. ASSUME NEW r \in Executes, ExecuteStep(r) \/ ExecuteFails(r) PROVE UNCHANGED posted
  BY <1>3 DEF ExecuteStep, ExecuteFails, ClaimKey, LoadConfirmation, LoadAuth, ReadBalance,
              ReadLimit, VoidConfirmation, VoidAuth, MoveLedger, LedgerAnswers, MarkExecuted,
              RecordAudit, StoreAnswer, ledgerVars
<1>4. ASSUME NEW r \in Executes, NEW k \in Keys, NEW c \in Confirmations,
             NEW a \in AuthContexts, BeginExecute(r, k, c, a)
      PROVE  UNCHANGED posted
  BY <1>a, <1>4, BeginEffect
<1> QED
  BY <1>a, <1>1, <1>2, <1>3, <1>4, StepKinds DEF Elsewhere

LEMMA OwnershipStep ==
  ASSUME Inv, Next
  PROVE  Ownership'
<1>a. TypeOK /\ Funded /\ Ownership
  BY DEF Inv, Typed
<1>1. CASE \E r \in Executes : ExecuteStep(r) \/ ExecuteFails(r)
  <2>1. PICK r \in Executes : ExecuteStep(r) \/ ExecuteFails(r)
    BY <1>1
  <2>2. /\ Progress(r) /\ execute[r].at # "idle"
        /\ \A q \in Executes : q # r => execute'[q] = execute[q]
    BY <2>1, ExecuteProgress
  <2>3. execute[r].key \in Keys
    BY <1>a, <2>2, RunningFields
  <2>4. \A q \in Claimed : q \in Executes /\ execute[q].at # "idle" /\ execute[q].key \in Keys
    BY <1>a, RunningFields DEF Claimed
  <2>5. CASE execute'[r] = IdleExecute /\ UNCHANGED idempotency
    BY <1>a, <2>2, <2>5 DEF Ownership, Claimed, IdleExecute
  <2>6. CASE /\ execute'[r] = IdleExecute
             /\ r \in Claimed
             /\ \A k \in Keys : k # execute[r].key => idempotency'[k] = idempotency[k]
    BY <1>a, <2>2, <2>4, <2>6 DEF Ownership, Claimed, IdleExecute
  <2>7. CASE execute'[r] = IdleExecute
    <3>1. CASE StoreAnswer(r)
      <4>1. r \in Claimed
        BY <3>1 DEF StoreAnswer, Claimed
      <4>2. \A k \in Keys : k # execute[r].key => idempotency'[k] = idempotency[k]
        BY <3>1, <1>a DEF StoreAnswer, TypeOK
      <4> QED
        BY <2>6, <2>7, <4>1, <4>2
    <3>2. CASE ~StoreAnswer(r)
      <4>1. UNCHANGED idempotency
        <5>1. CASE ClaimKey(r)
          <6>1. Goto(r, "load_confirmation") => execute'[r].at = "load_confirmation"
            BY <1>a, <2>2, GotoEffect DEF Point
          <6> QED
            BY <5>1, <6>1, <2>7 DEF ClaimKey, IdleExecute
        <5>2. CASE ~ClaimKey(r)
          BY <2>1, <3>2, <5>2
          DEF ExecuteStep, ExecuteFails, LoadConfirmation, LoadAuth, ReadBalance, ReadLimit,
              VoidConfirmation, VoidAuth, MoveLedger, LedgerAnswers, MarkExecuted, RecordAudit
        <5> QED
          BY <5>1, <5>2
      <4> QED
        BY <2>5, <2>7, <4>1
    <3> QED
      BY <3>1, <3>2
  <2>8. CASE /\ execute[r].at # "claim" /\ UNCHANGED idempotency
             /\ execute'[r].key = execute[r].key
             /\ execute'[r].confirmation = execute[r].confirmation
    BY <1>a, <2>2, <2>8 DEF Ownership, Claimed
  <2>9. CASE /\ execute[r].at = "claim"
             /\ execute'[r].key = execute[r].key
             /\ execute'[r].confirmation = execute[r].confirmation
             /\ idempotency[execute[r].key].status = "absent"
             /\ idempotency' = [idempotency EXCEPT ![execute[r].key] =
                  [status |-> "IN_PROGRESS", confirmation |-> execute[r].confirmation,
                   outcome |-> "none"]]
    <3>1. \A q \in Claimed : q # r /\ execute[q].key # execute[r].key
      BY <1>a, <2>9 DEF Ownership, Claimed
    <3>2. /\ idempotency'[execute[r].key].status = "IN_PROGRESS"
          /\ idempotency'[execute[r].key].confirmation = execute[r].confirmation
          /\ \A k \in Keys : k # execute[r].key => idempotency'[k] = idempotency[k]
      BY <1>a, <2>3, <2>9 DEF TypeOK
    <3>3. \A q \in Claimed' : q \in Claimed \/ q = r
      BY <2>2 DEF Claimed
    <3> QED
      BY <1>a, <2>2, <2>4, <2>9, <3>1, <3>2, <3>3 DEF Ownership, Claimed
  <2> QED
    BY <2>2, <2>7, <2>8, <2>9 DEF Progress
<1>2. CASE Elsewhere
  BY <1>2, <1>a DEF Elsewhere, Ownership, Claimed
<1>3. ASSUME NEW r \in Executes, NEW k \in Keys, NEW c \in Confirmations,
             NEW a \in AuthContexts, BeginExecute(r, k, c, a)
      PROVE  Ownership'
  BY <1>3, <1>a, BeginEffect DEF Ownership, Claimed
<1> QED
  BY <1>a, <1>1, <1>2, <1>3, StepKinds

LEMMA CompletionStep ==
  ASSUME Inv, NEW r \in Executes, ExecuteStep(r) \/ ExecuteFails(r), Grows
  PROVE  CompletionMeansMoved'
<1> DEFINE c == execute[r].confirmation
           k == execute[r].key
<1>a. TypeOK /\ CompletionMeansMoved
  BY DEF Inv, Typed, Reported
<1>b. \A d \in Confirmations : Moved(d) => Moved(d)'
  BY MovedLasts
<1>c. \A r1 \in Executes : execute[r1].at \in {"mark", "record_audit"} 
                           => Moved(execute[r1].confirmation)
  BY DEF Inv, Reported
<1>1. \A d \in Confirmations : status'[d] = "EXECUTED" => Moved(d)
  <2>1. CASE MarkExecuted(r)
    BY <2>1, <1>a, <1>c DEF MarkExecuted, TypeOK, CompletionMeansMoved
  <2>2. CASE VoidConfirmation(r)
    BY <2>2, <1>a DEF VoidConfirmation, TypeOK, CompletionMeansMoved
  <2>3. CASE ~MarkExecuted(r) /\ ~VoidConfirmation(r)
    <3>1. UNCHANGED status
      BY <2>3
      DEF ExecuteStep, ExecuteFails, ClaimKey, LoadConfirmation, LoadAuth, ReadBalance,
          ReadLimit, VoidAuth, MoveLedger, LedgerAnswers, RecordAudit, StoreAnswer,
          confirmationVars
    <3> QED
      BY <3>1, <1>a DEF CompletionMeansMoved
  <2> QED
    BY <2>1, <2>2, <2>3
<1>2. \A d \in Confirmations : audit'[d] > 0 => Moved(d)
  <2>1. CASE RecordAudit(r)
    BY <2>1, <1>a, <1>c DEF RecordAudit, TypeOK, CompletionMeansMoved
  <2>2. CASE ~RecordAudit(r)
    <3>1. UNCHANGED audit
      BY <2>2
      DEF ExecuteStep, ExecuteFails, ClaimKey, LoadConfirmation, LoadAuth, ReadBalance,
          ReadLimit, VoidConfirmation, VoidAuth, MoveLedger, LedgerAnswers, MarkExecuted,
          StoreAnswer
    <3> QED
      BY <3>1, <1>a DEF CompletionMeansMoved
  <2> QED
    BY <2>1, <2>2
<1>3. \A j \in Keys : idempotency'[j].outcome = "completed"
        => Moved(idempotency'[j].confirmation) /\ idempotency'[j].confirmation \in Confirmations
  <2>1. \A j \in Keys : idempotency[j].outcome = "completed"
          => Moved(idempotency[j].confirmation) /\ idempotency[j].confirmation \in Confirmations
    BY <1>a DEF CompletionMeansMoved, TypeOK, NoRecord, IdempotencyRecord
  <2>2. CASE StoreAnswer(r)
    <3>1. /\ k \in Keys /\ c \in Confirmations /\ execute[r].outcome \in Outcomes
          /\ idempotency[k].status = "IN_PROGRESS" /\ idempotency[k].confirmation = c
          /\ execute[r].outcome = "completed" => Moved(c)
      BY <2>2, <1>a, RunningFields
      DEF StoreAnswer, Inv, Ownership, Claimed, Reported
    <3>2. idempotency[k] \in IdempotencyRecord
      BY <3>1, <1>a DEF TypeOK, NoRecord
    <3>3. idempotency' = [idempotency EXCEPT ![k] =
            [idempotency[k] EXCEPT !.status = "COMPLETED", !.outcome = execute[r].outcome]]
      BY <2>2, <1>a DEF StoreAnswer, TypeOK
    <3>4. /\ idempotency'[k].confirmation = c
          /\ idempotency'[k].outcome = execute[r].outcome
          /\ \A j \in Keys : j # k => idempotency'[j] = idempotency[j]
      BY <3>1, <3>2, <3>3, <1>a DEF TypeOK, IdempotencyRecord
    <3> QED
      BY <2>1, <3>1, <3>4
  <2>3. CASE ClaimKey(r)
    BY <2>1, <2>3, <1>a, RunningFields DEF ClaimKey, TypeOK
  <2>4. CASE ~StoreAnswer(r) /\ ~ClaimKey(r)
    <3>1. UNCHANGED idempotency
      BY <2>4
      DEF ExecuteStep, ExecuteFails, LoadConfirmation, LoadAuth, ReadBalance, ReadLimit,
          VoidConfirmation, VoidAuth, MoveLedger, LedgerAnswers, MarkExecuted, RecordAudit
    <3> QED
      BY <2>1, <3>1
  <2> QED
    BY <2>2, <2>3, <2>4
<1> QED
  BY <1>b, <1>1, <1>2, <1>3 DEF CompletionMeansMoved, Moved

LEMMA ReportedStep ==
  ASSUME Inv, Next, Grows
  PROVE  Reported'
<1> DEFINE MovedLater(c) == \E i \in DOMAIN posted' : posted'[i].confirmation = c
           Reports(q) == \/ execute'[q].at \in {"mark", "record_audit"}
                         \/ execute'[q].at = "store" /\ execute'[q].outcome = "completed"
<1>a. TypeOK /\ Funded /\ CompletionMeansMoved
  BY DEF Inv, Typed, Reported
<1>b. \A c : Moved(c) => MovedLater(c)
  BY DEF Moved, Grows
<1>1. ASSUME NEW q \in Executes, Reports(q)
      PROVE  MovedLater(execute'[q].confirmation)
  <2>1. CASE execute'[q] = execute[q]
    BY <1>1, <1>b, <2>1 DEF Inv, Reported
  <2>2. CASE Progress(q)
    <3>1. execute'[q] # IdleExecute
      BY <1>1 DEF IdleExecute
    <3>2. Moved(execute[q].confirmation) /\ execute'[q].confirmation = execute[q].confirmation
      BY <1>1, <2>2, <3>1 DEF Progress
    <3> QED
      BY <3>2, <1>b
  <2>3. execute'[q].at # "claim"
    BY <1>1
  <2>4. CASE \E r \in Executes : ExecuteStep(r) \/ ExecuteFails(r)
    BY <2>1, <2>2, <2>4, ExecuteProgress
  <2>5. CASE \E r \in Executes, k \in Keys, c \in Confirmations, a \in AuthContexts :
               BeginExecute(r, k, c, a)
    BY <1>a, <2>1, <2>3, <2>5, BeginEffect
  <2>6. CASE Elsewhere
    BY <2>1, <2>6 DEF Elsewhere
  <2> QED
    BY <1>a, <2>4, <2>5, <2>6, StepKinds
<1>2. CompletionMeansMoved'
  <2>1. CASE \E r \in Executes : ExecuteStep(r) \/ ExecuteFails(r)
    BY <2>1, CompletionStep
  <2>2. CASE Elsewhere
    BY <1>a, <1>b, <2>2 DEF Elsewhere, CompletionMeansMoved, Moved
  <2>3. CASE \E r \in Executes, k \in Keys, c \in Confirmations, a \in AuthContexts :
               BeginExecute(r, k, c, a)
    BY <1>a, <1>b, <2>3, BeginEffect DEF CompletionMeansMoved, Moved
  <2> QED
    BY <1>a, <2>1, <2>2, <2>3, StepKinds
<1> QED
  BY <1>1, <1>2 DEF Reported, Moved

LEMMA InvStep == Inv /\ [Next]_vars => Inv'
<1> SUFFICES ASSUME Inv, [Next]_vars PROVE Inv'
  OBVIOUS
<1>1. CASE Next
  <2>1. Typed' /\ Grows
    BY <1>1, TypedStep, StepGrows DEF Inv
  <2> QED
    BY <1>1, <2>1, FundedStep, HistoryStep, CheckedStep, RequestsStep, BookedOnceStep,
       OwnershipStep, ReportedStep
    DEF Inv
<1>2. CASE UNCHANGED vars
  BY <1>2
  DEF vars, Inv, Typed, TypeOK, Referenced, Funded, History, Checked, Authorised, Requests,
      BookedOnce, Ownership, Claimed, Reported, CompletionMeansMoved, Moved
<1> QED
  BY <1>1, <1>2

LEMMA Invariance == Spec => []Inv
  BY InitInv, InvStep, PTL DEF Spec

-----------------------------------------------------------------------------
(* What follows *)

\* Every row, handler and balance stays in its range. In particular the balance
\* column of no account is written below zero, however its transfers interleave;
\* that the column is the sum of the bookings is not said, nor true of bookings
\* that overlap.
THEOREM TypeCorrect == Spec => []TypeOK
<1>1. Inv => TypeOK
  BY DEF Inv, Typed
<1> QED
  BY <1>1, Invariance, PTL

\* Execute never moves the money of a confirmation twice, however many ledger
\* threads serve its attempts at the same time. Every ledger request for a
\* confirmation carries the one key made from it (_ledger_idempotency_key), and
\* the unique index on the key of a transaction lets one booking of it commit
\* (Transaction, crud.transfer).
THEOREM AtMostOnce == Spec => []MovedAtMostOnce
<1>1. Inv => MovedAtMostOnce
  <2> SUFFICES ASSUME Inv, NEW i \in DOMAIN posted, NEW j \in DOMAIN posted,
                      posted[i].confirmation = posted[j].confirmation
               PROVE  i = j
    BY DEF MovedAtMostOnce
  <2>1. posted[i].key = posted[i].confirmation /\ posted[j].key = posted[j].confirmation
    BY DEF Inv, Requests
  <2> QED
    BY <2>1 DEF Inv, BookedOnce
<1> QED
  BY <1>1, Invariance, PTL

\* Execute moves money only after the user's approval of the confirmation and
\* an additional authentication of the same confirmation: load_for_execute,
\* load_verified.
THEOREM OnlyWhenAuthorised == Spec => []MovedOnlyWhenAuthorised
<1>1. Inv => MovedOnlyWhenAuthorised
  BY DEF Inv, Requests, Authorised, MovedOnlyWhenAuthorised
<1> QED
  BY <1>1, Invariance, PTL

\* A confirmation marked EXECUTED, a completion event and a stored completed
\* answer each mean that the ledger has moved the money.
THEOREM CompletionIsTrue == Spec => []CompletionMeansMoved
<1>1. Inv => CompletionMeansMoved
  BY DEF Inv, Reported
<1> QED
  BY <1>1, Invariance, PTL

LEMMA AnswerStep ==
  ASSUME Inv, [Next]_vars, NEW k \in Keys, idempotency[k].status = "COMPLETED"
  PROVE  idempotency'[k] = idempotency[k]
<1>a. TypeOK /\ Funded
  BY DEF Inv, Typed
<1>1. ASSUME NEW r \in Executes, ExecuteStep(r) \/ ExecuteFails(r)
      PROVE  idempotency'[k] = idempotency[k]
  <2>1. CASE StoreAnswer(r)
    <3>1. r \in Claimed /\ idempotency[execute[r].key].status = "IN_PROGRESS"
      BY <2>1 DEF StoreAnswer, Claimed, Inv, Ownership
    <3>2. execute[r].key # k
      BY <3>1
    <3> QED
      BY <2>1, <3>2, <1>a DEF StoreAnswer, TypeOK
  <2>2. CASE ClaimKey(r)
    BY <2>2, <1>a DEF ClaimKey, TypeOK
  <2>3. CASE ~StoreAnswer(r) /\ ~ClaimKey(r)
    BY <1>1, <2>3
    DEF ExecuteStep, ExecuteFails, LoadConfirmation, LoadAuth, ReadBalance, ReadLimit,
        VoidConfirmation, VoidAuth, MoveLedger, LedgerAnswers, MarkExecuted, RecordAudit
  <2> QED
    BY <2>1, <2>2, <2>3
<1>2. ASSUME NEW r \in Executes, NEW j \in Keys, NEW c \in Confirmations,
             NEW a \in AuthContexts, BeginExecute(r, j, c, a)
      PROVE  idempotency'[k] = idempotency[k]
  BY <1>2, <1>a, BeginEffect
<1>3. CASE UNCHANGED vars
  BY <1>3 DEF vars
<1> QED
  BY <1>a, <1>1, <1>2, <1>3, StepKinds DEF Elsewhere

\* A caller that repeats a key gets the answer of the first handler, for good:
\* only the handler that claimed the key writes its record, once.
THEOREM StoredAnswerIsFinal == Spec => AnswerIsFinal
<1>1. Inv /\ [Next]_vars
      => [\A k \in Keys : idempotency[k].status = "COMPLETED"
                            => idempotency'[k] = idempotency[k]]_vars
  BY AnswerStep
<1> QED
  BY <1>1, Invariance, PTL DEF Spec, AnswerIsFinal

-----------------------------------------------------------------------------
(* Decisions and completion events *)

\* The handlers that are about to decide on c, and those that are about to
\* record its completion.
Deciders(c) == {h \in Channels : channel[h].at = "decide" /\ channel[h].confirmation = c}

Recorders(c) ==
  {r \in Executes : execute[r].at = "record_audit" /\ execute[r].confirmation = c}

Unspent(c) == IF status[c] = "APPROVED" THEN 1 ELSE 0

\* The events of a confirmation, written and about to be, and the approvals
\* that may still lead to one: each of them was a handler that read PENDING.
Budget(c) ==
  audit[c] + Cardinality(Recorders(c)) + Cardinality(Deciders(c)) + Unspent(c)

Undecided(c) == status[c] \in {"absent", "PENDING"} => audit[c] = 0 /\ Recorders(c) = {}

Budgeted ==
  \A c \in Confirmations : Undecided(c) /\ Budget(c) <= Cardinality(Channels)

Counts(c) ==
  /\ IsFiniteSet(Deciders(c)) /\ IsFiniteSet(Recorders(c))
  /\ Cardinality(Deciders(c)) \in Nat /\ Cardinality(Recorders(c)) \in Nat
  /\ Cardinality(Deciders(c)) <= Cardinality(Channels) /\ Cardinality(Channels) \in Nat
  /\ audit[c] \in Nat /\ Unspent(c) \in {0, 1}

LEMMA BudgetParts == TypeOK => \A c \in Confirmations : Counts(c)
<1> SUFFICES ASSUME TypeOK, NEW c \in Confirmations PROVE Counts(c)
  OBVIOUS
<1>1. Deciders(c) \subseteq Channels /\ Recorders(c) \subseteq Executes
  BY DEF Deciders, Recorders
<1>2. /\ IsFiniteSet(Deciders(c)) /\ Cardinality(Deciders(c)) <= Cardinality(Channels)
      /\ IsFiniteSet(Recorders(c))
  BY <1>1, FS_Subset, ConstantsAssumption
<1>3. /\ Cardinality(Deciders(c)) \in Nat /\ Cardinality(Recorders(c)) \in Nat
      /\ Cardinality(Channels) \in Nat
  BY <1>2, FS_CardinalityType, ConstantsAssumption
<1> QED
  BY <1>1, <1>2, <1>3 DEF TypeOK, Unspent, Counts

LEMMA BudgetPartsLater == TypeOK' => (\A c \in Confirmations : Counts(c))'
  BY BudgetParts, PTL

LEMMA BudgetedInit == Init => Budgeted
<1> SUFFICES ASSUME Init, NEW c \in Confirmations
             PROVE  Undecided(c) /\ Budget(c) <= Cardinality(Channels)
  BY DEF Budgeted
<1>1. TypeOK
  BY InitTypeOK
<1>2. Recorders(c) = {} /\ Deciders(c) = {} /\ audit[c] = 0 /\ Unspent(c) = 0
  BY DEF Init, Recorders, Deciders, IdleExecute, IdleChannel, Unspent
<1>3. Cardinality(Recorders(c)) = 0 /\ Cardinality(Deciders(c)) = 0
  BY <1>2, FS_EmptySet
<1> QED
  BY <1>1, <1>2, <1>3, BudgetParts DEF Undecided, Budget, Counts

\* A step that decides on nothing and completes nothing; handlers may stop.
Quiet ==
  /\ UNCHANGED <<status, audit>>
  /\ \A h \in Channels : channel'[h].at = "decide" => channel'[h] = channel[h]
  /\ \A r \in Executes : execute'[r].at = "record_audit" => execute'[r] = execute[r]

\* Budgets never grow but by a handler that reads a PENDING confirmation.
LEMMA BudgetShrinks ==
  ASSUME TypeOK, TypeOK', Budgeted, NEW c \in Confirmations,
         Deciders(c)' \subseteq Deciders(c), Recorders(c)' \subseteq Recorders(c),
         audit'[c] = audit[c],
         status'[c] = "APPROVED" => status[c] = "APPROVED",
         status'[c] \in {"absent", "PENDING"} => status[c] \in {"absent", "PENDING"}
  PROVE  Undecided(c)' /\ Budget(c)' <= Cardinality(Channels)
<1>1. /\ Cardinality(Deciders(c)') <= Cardinality(Deciders(c))
      /\ Cardinality(Recorders(c)') <= Cardinality(Recorders(c))
  BY BudgetParts, BudgetPartsLater, FS_Subset DEF Counts
<1>2. Unspent(c)' <= Unspent(c)
  BY DEF Unspent
<1>3. /\ Cardinality(Deciders(c)') \in Nat /\ Cardinality(Recorders(c)') \in Nat
      /\ Unspent(c)' \in {0, 1}
  BY BudgetPartsLater DEF Counts
<1>4. Budget(c) <= Cardinality(Channels) /\ Undecided(c)
  BY DEF Budgeted
<1>5. Budget(c)' = audit[c] + Cardinality(Recorders(c)') + Cardinality(Deciders(c)')
                   + Unspent(c)'
  BY DEF Budget
<1>6. Budget(c)' <= Cardinality(Channels)
  <2> HIDE DEF Deciders, Recorders, Unspent
  <2> QED
    BY <1>1, <1>2, <1>3, <1>4, <1>5, BudgetParts DEF Budget, Counts
<1> QED
  BY <1>4, <1>6 DEF Undecided

LEMMA QuietStep ==
  ASSUME TypeOK, TypeOK', Budgeted, Quiet
  PROVE  Budgeted'
<1> SUFFICES ASSUME NEW c \in Confirmations
             PROVE  Undecided(c)' /\ Budget(c)' <= Cardinality(Channels)
  BY DEF Budgeted
<1>1. Deciders(c)' \subseteq Deciders(c) /\ Recorders(c)' \subseteq Recorders(c)
  BY DEF Quiet, Deciders, Recorders
<1> QED
  BY <1>1, BudgetShrinks DEF Quiet

LEMMA UserDecides ==
  ASSUME TypeOK, TypeOK', Budgeted, UserNext
  PROVE  Budgeted'
<1>1. ASSUME NEW h \in Channels, NEW c \in Confirmations, NEW d, ReadConfirmation(h, c, d)
      PROVE  Budgeted'
  <2>1. UNCHANGED <<status, audit, execute>> /\ status[c] = "PENDING"
    BY <1>1 DEF ReadConfirmation, confirmationVars
  <2>2. channel'[h].confirmation = c /\ \A g \in Channels \ {h} : channel'[g] = channel[g]
    BY <1>1 DEF ReadConfirmation, TypeOK
  <2> SUFFICES ASSUME NEW b \in Confirmations
               PROVE  Undecided(b)' /\ Budget(b)' <= Cardinality(Channels)
    BY DEF Budgeted
  <2>3. Recorders(b)' = Recorders(b)
    BY <2>1 DEF Recorders
  <2>4. CASE b = c
    <3>1. audit'[c] = 0 /\ Recorders(c)' = {} /\ Unspent(c)' = 0
      BY <2>1, <2>3, <2>4 DEF Budgeted, Undecided, Unspent
    <3>2. /\ Cardinality(Deciders(c)') \in Nat /\ Cardinality(Channels) \in Nat
          /\ Cardinality(Deciders(c)') <= Cardinality(Channels)
      BY BudgetPartsLater DEF Counts
    <3>3. Budget(c)' = Cardinality(Deciders(c)')
      BY <3>1, <3>2, FS_EmptySet DEF Budget
    <3> QED
      BY <2>4, <3>1, <3>2, <3>3 DEF Undecided
  <2>5. CASE b # c
    <3>1. Deciders(b)' \subseteq Deciders(b)
      BY <2>2, <2>5 DEF Deciders
    <3> QED
      BY <2>1, <2>3, <3>1, BudgetShrinks
  <2> QED
    BY <2>4, <2>5
<1>2. ASSUME NEW h \in Channels, Decide(h)
      PROVE  Budgeted'
  <2>1. PICK c \in Confirmations : c = channel[h].confirmation
    BY <1>2 DEF Decide, TypeOK, IdleChannel, AuthenticatingChannel, DecidingChannel
  <2>2. /\ status'[c] \in {"APPROVED", "INVALIDATED"}
        /\ \A d \in Confirmations \ {c} : status'[d] = status[d]
        /\ UNCHANGED <<execute, audit>>
    BY <1>2, <2>1 DEF Decide, TypeOK
  <2>3. channel'[h].at = "idle" /\ \A g \in Channels \ {h} : channel'[g] = channel[g]
    BY <1>2 DEF Decide, TypeOK, IdleChannel
  <2> SUFFICES ASSUME NEW b \in Confirmations
               PROVE  Undecided(b)' /\ Budget(b)' <= Cardinality(Channels)
    BY DEF Budgeted
  <2>4. Recorders(b)' = Recorders(b) /\ audit'[b] = audit[b]
    BY <2>2 DEF Recorders
  <2>5. CASE b = c
    <3>1. h \in Deciders(c) /\ Deciders(c)' = Deciders(c) \ {h}
      BY <1>2, <2>1, <2>3 DEF Decide, Deciders
    <3>2. Cardinality(Deciders(c)') = Cardinality(Deciders(c)) - 1
      BY <2>1, <3>1, BudgetParts, FS_RemoveElement DEF Counts
    <3>3. Unspent(c)' <= 1 /\ Unspent(c)' \in {0, 1}
      BY DEF Unspent
    <3>4. Budget(c) <= Cardinality(Channels)
      BY <2>1 DEF Budgeted
    <3>5. Budget(c)' = audit[c] + Cardinality(Recorders(c)) + Cardinality(Deciders(c)')
                       + Unspent(c)'
      BY <2>4, <2>5 DEF Budget
    <3>6. Budget(c)' <= Cardinality(Channels)
      BY <2>1, <3>2, <3>3, <3>4, <3>5, BudgetParts DEF Budget, Counts
    <3> QED
      BY <2>2, <2>5, <3>6 DEF Undecided
  <2>6. CASE b # c
    <3>1. Deciders(b)' \subseteq Deciders(b)
      BY <2>3 DEF Deciders
    <3> QED
      BY <2>2, <2>4, <2>6, <3>1, BudgetShrinks
  <2> QED
    BY <2>5, <2>6
<1>3. ASSUME NEW h \in Channels, ChannelFails(h) \/ Authenticate(h)
      PROVE  Budgeted'
  <2>1. channel' = [channel EXCEPT ![h] = IdleChannel]
        /\ UNCHANGED <<status, audit, execute>>
    BY <1>3 DEF ChannelFails, Authenticate, confirmationVars
  <2> QED
    BY <2>1, QuietStep DEF Quiet, TypeOK, IdleChannel
<1>4. ASSUME NEW h \in Channels, NEW a \in AuthContexts, NEW d, ReadAuth(h, a, d)
      PROVE  Budgeted'
  <2>1. /\ channel'[h].at = "authenticate" /\ UNCHANGED <<status, audit, execute>>
        /\ \A g \in Channels \ {h} : channel'[g] = channel[g]
    BY <1>4 DEF ReadAuth, confirmationVars, TypeOK
  <2> QED
    BY <2>1, QuietStep DEF Quiet
<1> QED
  BY <1>1, <1>2, <1>3, <1>4 DEF UserNext

LEMMA ConfirmationPrepared ==
  ASSUME TypeOK, TypeOK', Budgeted, NEW c \in Confirmations, NEW f \in FixedData,
         Prepare(c, f)
  PROVE  Budgeted'
<1>1. /\ status[c] = "absent" /\ status'[c] = "PENDING"
      /\ \A d \in Confirmations \ {c} : status'[d] = status[d]
      /\ UNCHANGED <<audit, execute, channel>>
  BY DEF Prepare, TypeOK
<1> SUFFICES ASSUME NEW b \in Confirmations
             PROVE  Undecided(b)' /\ Budget(b)' <= Cardinality(Channels)
  BY DEF Budgeted
<1>2. Deciders(b)' = Deciders(b) /\ Recorders(b)' = Recorders(b)
  BY <1>1 DEF Deciders, Recorders
<1> QED
  BY <1>1, <1>2, BudgetShrinks

\* Marking a confirmation spends its approval, recording it the handler's turn.
LEMMA ExecuteCloses ==
  ASSUME TypeOK, TypeOK', Budgeted, NEW r \in Executes,
         VoidConfirmation(r) \/ MarkExecuted(r) \/ RecordAudit(r)
  PROVE  Budgeted'
<1>a. execute[r].at # "idle"
  BY DEF VoidConfirmation, MarkExecuted, RecordAudit
<1>b. PICK c \in Confirmations : c = execute[r].confirmation
  BY <1>a, RunningFields
<1>d. UNCHANGED channel /\ \A b \in Confirmations : Deciders(b)' = Deciders(b)
  BY DEF VoidConfirmation, MarkExecuted, RecordAudit, Deciders
<1>e. \A q \in Executes \ {r} : execute'[q] = execute[q]
  <2>1. \/ \E p \in Point : Goto(r, p)
        \/ Answer(r, "completed")
    BY DEF VoidConfirmation, MarkExecuted, RecordAudit, Point
  <2> QED
    BY <1>a, <1>b, <2>1, GotoEffect, AnswerEffect DEF Outcomes
<1>f. \A b \in Confirmations \ {c} : Recorders(b)' = Recorders(b)
  <2>1. execute'[r].confirmation = c
    <3>1. \/ \E p \in Point : Goto(r, p)
          \/ Answer(r, "completed")
      BY DEF VoidConfirmation, MarkExecuted, RecordAudit, Point
    <3> QED
      BY <1>a, <1>b, <3>1, GotoEffect, AnswerEffect DEF Outcomes
  <2> QED
    BY <1>b, <1>e, <2>1 DEF Recorders
<1>g. ASSUME NEW b \in Confirmations \ {c}, status'[b] = status[b], audit'[b] = audit[b]
      PROVE  Undecided(b)' /\ Budget(b)' <= Cardinality(Channels)
  BY <1>d, <1>f, <1>g, BudgetShrinks
<1>1. CASE VoidConfirmation(r)
  <2>1. /\ status'[c] = "INVALIDATED" /\ \A d \in Confirmations \ {c} : status'[d] = status[d]
        /\ UNCHANGED audit
    BY <1>1, <1>b DEF VoidConfirmation, TypeOK
  <2>2. execute'[r].at = "void_auth"
    BY <1>1, <1>a, <1>b, GotoEffect DEF VoidConfirmation, Point
  <2>3. Recorders(c)' \subseteq Recorders(c)
    BY <1>e, <2>2 DEF Recorders
  <2>4. Undecided(c)' /\ Budget(c)' <= Cardinality(Channels)
    BY <1>a, <1>b, <1>d, <2>1, <2>3, BudgetShrinks
  <2> QED
    BY <1>g, <2>1, <2>4 DEF Budgeted
<1>2. CASE MarkExecuted(r) /\ status[c] = "APPROVED"
  <2>1. /\ status'[c] = "EXECUTED" /\ \A d \in Confirmations \ {c} : status'[d] = status[d]
        /\ UNCHANGED audit
    BY <1>2, <1>b DEF MarkExecuted, TypeOK
  <2>2. execute'[r].at = "record_audit" /\ execute'[r].confirmation = c
    BY <1>2, <1>a, <1>b, GotoEffect DEF MarkExecuted, Point
  <2>3. Recorders(c)' = Recorders(c) \cup {r} /\ r \notin Recorders(c)
    BY <1>2, <1>e, <2>2 DEF Recorders, MarkExecuted
  <2>4. Cardinality(Recorders(c)') = Cardinality(Recorders(c)) + 1
    BY <1>a, <1>b, <2>3, BudgetParts, FS_AddElement DEF Counts
  <2>5. Unspent(c) = 1 /\ Unspent(c)' = 0
    BY <1>2, <2>1 DEF Unspent
  <2>6. Budget(c)' = audit[c] + Cardinality(Recorders(c)') + Cardinality(Deciders(c)) + 0
    BY <1>a, <1>b, <1>d, <2>1, <2>5 DEF Budget
  <2>7. Budget(c) <= Cardinality(Channels)
    BY <1>b DEF Budgeted
  <2>8. Budget(c)' <= Cardinality(Channels)
    BY <1>a, <1>b, <2>4, <2>5, <2>6, <2>7, BudgetParts DEF Budget, Counts
  <2> QED
    BY <1>g, <2>1, <2>8 DEF Budgeted, Undecided
<1>3. CASE MarkExecuted(r) /\ status[c] # "APPROVED"
  <2>1. UNCHANGED <<status, audit>> /\ Answer(r, "completed")
    BY <1>3, <1>b DEF MarkExecuted, confirmationVars
  <2>2. execute'[r].at = "store"
    BY <2>1, <1>a, <1>b, AnswerEffect DEF Outcomes
  <2> QED
    BY <1>d, <1>e, <2>1, <2>2, QuietStep DEF Quiet
<1>4. CASE RecordAudit(r)
  <2>1. audit' = [audit EXCEPT ![c] = @ + 1] /\ UNCHANGED status
    BY <1>4, <1>b DEF RecordAudit, confirmationVars
  <2>2. audit'[c] = audit[c] + 1 /\ \A d \in Confirmations \ {c} : audit'[d] = audit[d]
    BY <1>a, <1>b, <2>1 DEF TypeOK
  <2>3. execute'[r].at = "store"
    BY <1>4, <1>a, <1>b, AnswerEffect DEF RecordAudit, Outcomes
  <2>4. r \in Recorders(c) /\ Recorders(c)' = Recorders(c) \ {r}
    BY <1>4, <1>b, <1>e, <2>3 DEF Recorders, RecordAudit
  <2>5. Cardinality(Recorders(c)') = Cardinality(Recorders(c)) - 1
    BY <1>a, <1>b, <2>4, BudgetParts, FS_RemoveElement DEF Counts
  <2>6. status[c] \notin {"absent", "PENDING"} /\ Budget(c) <= Cardinality(Channels)
    BY <1>a, <1>b, <2>4 DEF Budgeted, Undecided
  <2>7. Budget(c)' = audit[c] + 1 + Cardinality(Recorders(c)') + Cardinality(Deciders(c))
                     + Unspent(c)
    BY <1>a, <1>b, <1>d, <2>1, <2>2 DEF Budget, Unspent
  <2>8. Budget(c)' <= Cardinality(Channels)
    BY <1>a, <1>b, <2>5, <2>6, <2>7, BudgetParts DEF Budget, Counts
  <2>9. Undecided(c)'
    BY <2>1, <2>6 DEF Undecided
  <2> QED
    BY <1>g, <2>1, <2>2, <2>8, <2>9 DEF Budgeted
<1> QED
  BY <1>1, <1>2, <1>3, <1>4

LEMMA ExecuteQuiet ==
  ASSUME TypeOK, NEW r \in Executes, ExecuteStep(r) \/ ExecuteFails(r),
         ~VoidConfirmation(r), ~MarkExecuted(r), ~RecordAudit(r)
  PROVE  Quiet
<1>1. /\ execute[r].at # "idle"
      /\ UNCHANGED <<status, audit, channel>>
      /\ \/ execute' = [execute EXCEPT ![r] = IdleExecute]
         \/ \E p \in Point \ {"record_audit"} : Goto(r, p)
         \/ \E o \in Outcomes : Answer(r, o)
  <2>1. CASE ClaimKey(r) \/ LoadConfirmation(r) \/ LoadAuth(r)
    BY <2>1 DEF ClaimKey, LoadConfirmation, LoadAuth, Point, Outcomes, confirmationVars
  <2>2. CASE ReadBalance(r) \/ ReadLimit(r) \/ VoidAuth(r)
    BY <2>2 DEF ReadBalance, ReadLimit, VoidAuth, Point, Outcomes, confirmationVars
  <2>3. CASE MoveLedger(r) \/ LedgerAnswers(r) \/ StoreAnswer(r) \/ ExecuteFails(r)
    BY <2>3 DEF MoveLedger, LedgerAnswers, StoreAnswer, ExecuteFails, Point, confirmationVars
  <2> QED
    BY <2>1, <2>2, <2>3 DEF ExecuteStep
<1>2. execute'[r].at # "record_audit" /\ \A q \in Executes \ {r} : execute'[q] = execute[q]
  BY <1>1, StopEffect, GotoEffect, AnswerEffect DEF IdleExecute
<1> QED
  BY <1>1, <1>2 DEF Quiet

LEMMA BudgetedStep ==
  ASSUME TypeOK, TypeOK', Budgeted, Next
  PROVE  Budgeted'
<1>1. CASE UserNext
  BY <1>1, UserDecides
<1>2. CASE AgentNext
  <2>1. ASSUME NEW a \in AuthContexts, NEW c \in Confirmations, CreateAuth(a) \/ BeginAuth(a, c)
        PROVE  Quiet
    BY <2>1 DEF Quiet, CreateAuth, BeginAuth, confirmationVars
  <2>2. ASSUME NEW r \in Executes, NEW k \in Keys, NEW c \in Confirmations,
               NEW a \in AuthContexts, BeginExecute(r, k, c, a)
        PROVE  Quiet
    <3>1. UNCHANGED <<status, audit, channel>>
      BY <2>2 DEF BeginExecute, confirmationVars
    <3> QED
      BY <2>2, <3>1, BeginEffect DEF Quiet
  <2>3. ASSUME NEW a \in AuthContexts, CreateAuth(a)
        PROVE  Quiet
    BY <2>3 DEF Quiet, CreateAuth, confirmationVars
  <2> QED
    BY <1>2, <2>1, <2>2, <2>3, QuietStep, ConfirmationPrepared DEF AgentNext
<1>3. ASSUME NEW r \in Executes, ExecuteStep(r) \/ ExecuteFails(r)
      PROVE  Budgeted'
  BY <1>3, ExecuteCloses, ExecuteQuiet, QuietStep
<1>4. CASE LedgerNext
  <2>1. Quiet
    BY <1>4 DEF LedgerNext, LedgerReads, Serve, LedgerPosts, LedgerFails, Quiet, confirmationVars
  <2> QED
    BY <2>1, QuietStep
<1>5. CASE \/ \E c \in Confirmations : ConfirmationExpires(c)
           \/ \E a \in AuthContexts : AuthExpires(a)
  <2>1. Quiet
    BY <1>5 DEF ConfirmationExpires, AuthExpires, Quiet, confirmationVars
  <2> QED
    BY <2>1, QuietStep
<1> QED
  BY <1>1, <1>2, <1>3, <1>4, <1>5 DEF Next

\* For any number of Execute handlers and keys, and of decisions that race: a
\* confirmation has no more FINANCIAL_EXECUTION_COMPLETED events than there are
\* handlers that may decide on it at the same time. mark_executed_if_approved
\* lets one handler pass for each APPROVED that a decision wrote, and every such
\* decision read the row while it was PENDING.
THEOREM CompletionsWithinDecisions == Spec => []AuditedOncePerDecider
<1>1. Init => Budgeted
  BY BudgetedInit
<1>2. Inv /\ Inv' /\ Budgeted /\ [Next]_vars => Budgeted'
  <2> SUFFICES ASSUME Inv, Inv', Budgeted, [Next]_vars PROVE Budgeted'
    OBVIOUS
  <2>1. TypeOK /\ TypeOK'
    BY DEF Inv, Typed
  <2>2. CASE UNCHANGED vars
    BY <2>1, <2>2, QuietStep DEF vars, Quiet
  <2> QED
    BY <2>1, <2>2, BudgetedStep
<1>3. Inv /\ Budgeted => AuditedOncePerDecider
  <2> SUFFICES ASSUME Inv, Budgeted, NEW c \in Confirmations
               PROVE  audit[c] <= Cardinality(Channels)
    BY DEF AuditedOncePerDecider
  <2>1. TypeOK /\ Budget(c) <= Cardinality(Channels)
    BY DEF Inv, Typed, Budgeted
  <2> QED
    BY <2>1, BudgetParts DEF Budget, Counts
<1> QED
  BY <1>1, <1>2, <1>3, Invariance, PTL DEF Spec

-----------------------------------------------------------------------------
(* The daily limit *)

Executed(st) == {c \in Confirmations : st[c] = "EXECUTED"}

Daily(st, fx) == SumOver([c \in Executed(st) |-> fx[c].amount], Executed(st))

\* The handlers that have passed the daily limit and may still execute their
\* confirmation, and what they may add to the daily sum.
Passed(ex) == {r \in Executes : ex[r].at \in {"move", "await_ledger", "mark"}}

AmountPassed(ex, fx) == SumOver([r \in Passed(ex) |-> fx[ex[r].confirmation].amount], Passed(ex))

MaxOvershoot == (Cardinality(Executes) - 1) * MaxSingle

\* The limit with what is under way: this is what the judgement of the limit
\* keeps within bounds, DailyOvershootBounded follows. A confirmation is within
\* the single limit from its Prepare, and decided on only after that.
Limited ==
  /\ \A c \in Confirmations : status[c] # "absent" => fixed[c].amount <= MaxSingle
  /\ \A h \in Channels :
       channel[h].at = "decide" => status[channel[h].confirmation] # "absent"
  /\ IsFiniteSet(Executed(status))
  /\ Daily(status, fixed) + AmountPassed(execute, fixed) <= MaxDaily + MaxOvershoot

LEMMA DailyComputed ==
  ASSUME IsFiniteSet(Executed(status))
  PROVE  DailyTransferredAmount = Daily(status, fixed)
<1>1. MapThenSumSet(LAMBDA c : fixed[c].amount, Executed(status)) = Daily(status, fixed)
  BY AmountsComputed DEF Daily
<1> QED
  BY Zenon, <1>1 DEF DailyTransferredAmount, Executed

LEMMA MaxOvershootNat == MaxOvershoot \in Nat
<1>1. Cardinality(Executes) \in Nat /\ Cardinality(Executes) # 0
  BY ConstantsAssumption, FS_CardinalityType, FS_EmptySet
<1>2. ASSUME NEW n \in Nat, n # 0
      PROVE  (n - 1) * MaxSingle \in Nat
  <2>1. n - 1 \in Nat
    BY <1>2
  <2>2. \A k \in Nat : k * MaxSingle \in Nat
    BY ConstantsAssumption
  <2> QED
    BY <2>1, <2>2
<1> QED
  BY <1>1, <1>2 DEF MaxOvershoot

LEMMA AmountTyped ==
  ASSUME NEW fx \in [Confirmations -> FixedData], NEW c \in Confirmations
  PROVE  fx[c].amount \in Nat
  BY ConstantsAssumption DEF FixedData

LEMMA DailyNat ==
  ASSUME NEW fx \in [Confirmations -> FixedData], NEW st, IsFiniteSet(Executed(st))
  PROVE  Daily(st, fx) \in Nat
<1> DEFINE f == [c \in Executed(st) |-> fx[c].amount]
<1>1. \A c \in Executed(st) : f[c] \in Nat
  BY AmountTyped DEF Executed
<1> HIDE DEF f
<1>2. SumOver(f, Executed(st)) \in Nat
  BY <1>1, SumNat
<1> QED
  BY <1>2 DEF Daily, f

\* The daily sum when fewer confirmations are executed, or one more.
LEMMA DailyFewer ==
  ASSUME NEW fx \in [Confirmations -> FixedData], NEW gx \in [Confirmations -> FixedData],
         NEW st, NEW after, IsFiniteSet(Executed(st)),
         Executed(after) \subseteq Executed(st), \A c \in Executed(after) : gx[c] = fx[c]
  PROVE  /\ IsFiniteSet(Executed(after))
         /\ Daily(after, gx) <= Daily(st, fx)
<1> DEFINE f == [c \in Executed(st) |-> fx[c].amount]
           g == [c \in Executed(after) |-> gx[c].amount]
<1>1. IsFiniteSet(Executed(after)) /\ Executed(after) \in SUBSET Executed(st)
  BY FS_Subset
<1>2. \A c \in Executed(st) : f[c] \in Nat
  BY AmountTyped DEF Executed
<1>3. \A c \in Executed(after) : g[c] = f[c]
  BY <1>1
<1> HIDE DEF f, g
<1>4. SumOver(g, Executed(after)) = SumOver(f, Executed(after))
  BY <1>1, <1>3, SumSame
<1>5. SumOver(f, Executed(after)) <= SumOver(f, Executed(st))
  BY <1>1, <1>2, SumWithin
<1> QED
  BY <1>1, <1>4, <1>5 DEF Daily, f, g

LEMMA DailyMore ==
  ASSUME NEW fx \in [Confirmations -> FixedData], NEW st, NEW after,
         IsFiniteSet(Executed(st)), NEW c \in Confirmations, c \notin Executed(st),
         Executed(after) = Executed(st) \cup {c}
  PROVE  /\ IsFiniteSet(Executed(after))
         /\ Daily(after, fx) = Daily(st, fx) + fx[c].amount
<1> DEFINE f == [d \in Executed(st) |-> fx[d].amount]
           g == [d \in Executed(after) |-> fx[d].amount]
<1>1. \A d \in Executed(st) \cup {c} : g[d] \in Int
  BY AmountTyped DEF Executed
<1>2. g[c] = fx[c].amount /\ \A d \in Executed(st) : g[d] = f[d]
  OBVIOUS
<1>3. IsFiniteSet(Executed(after))
  BY FS_AddElement
<1> HIDE DEF f, g
<1>4. SumOver(g, Executed(st) \cup {c}) = SumOver(g, Executed(st)) + g[c]
  BY <1>1, SumAdd
<1>5. SumOver(g, Executed(st)) = SumOver(f, Executed(st))
  BY <1>2, SumSame
<1> QED
  BY <1>2, <1>3, <1>4, <1>5 DEF Daily, f, g

\* What the handlers other than r have passed.
PassedBesides(ex, fx, r) ==
  SumOver([q \in Passed(ex) \ {r} |-> fx[ex[q].confirmation].amount], Passed(ex) \ {r})

Within(ex, fx) ==
  \A q \in Passed(ex) : fx[ex[q].confirmation].amount \in 0..MaxSingle

LEMMA PassedWithout ==
  ASSUME NEW ex, NEW fx, Within(ex, fx), NEW r \in Executes
  PROVE  /\ PassedBesides(ex, fx, r) \in Nat
         /\ PassedBesides(ex, fx, r) <= MaxOvershoot
         /\ r \in Passed(ex) =>
              AmountPassed(ex, fx) = PassedBesides(ex, fx, r) + fx[ex[r].confirmation].amount
         /\ r \notin Passed(ex) => AmountPassed(ex, fx) = PassedBesides(ex, fx, r)
<1> DEFINE P == Passed(ex)
           f == [q \in P |-> fx[ex[q].confirmation].amount]
           g == [q \in P \ {r} |-> fx[ex[q].confirmation].amount]
<1>1. IsFiniteSet(Executes) /\ P \in SUBSET Executes /\ MaxSingle \in Nat /\ IsFiniteSet(P \ {r})
  <2>1. P \in SUBSET Executes
    BY DEF Passed
  <2>2. IsFiniteSet(P \ {r})
    BY <2>1, FS_Subset, ConstantsAssumption
  <2> QED
    BY <2>1, <2>2, ConstantsAssumption
<1>2. \A q \in P : f[q] \in 0..MaxSingle
  BY DEF Within
<1>3. \A q \in P \ {r} : f[q] = g[q]
  OBVIOUS
<1>4. r \in P => f[r] = fx[ex[r].confirmation].amount
  OBVIOUS
<1> HIDE DEF P, f, g
<1>5. /\ SumOver(f, P \ {r}) \in Nat
      /\ SumOver(f, P \ {r}) <= (Cardinality(Executes) - 1) * MaxSingle
      /\ r \in P => SumOver(f, P) = SumOver(f, P \ {r}) + f[r]
      /\ r \notin P => SumOver(f, P) = SumOver(f, P \ {r})
  BY <1>1, <1>2, SumOthers
<1>6. SumOver(f, P \ {r}) = SumOver(g, P \ {r})
  BY <1>1, <1>3, SumSame
<1>7. AmountPassed(ex, fx) = SumOver(f, P) /\ PassedBesides(ex, fx, r) = SumOver(g, P \ {r})
  BY DEF AmountPassed, PassedBesides, f, g, P
<1> QED
  BY <1>4, <1>5, <1>6, <1>7 DEF MaxOvershoot, P

LEMMA OthersPassed ==
  ASSUME NEW ex, NEW fx, NEW after, NEW r \in Executes,
         \A q \in Executes \ {r} : after[q] = ex[q]
  PROVE  PassedBesides(after, fx, r) = PassedBesides(ex, fx, r)
<1>1. Passed(after) \ {r} = Passed(ex) \ {r}
  BY DEF Passed
<1>2. [q \in Passed(after) \ {r} |-> fx[after[q].confirmation].amount]
        = [q \in Passed(ex) \ {r} |-> fx[ex[q].confirmation].amount]
  BY <1>1 DEF Passed
<1> QED
  BY Zenon, <1>1, <1>2 DEF PassedBesides

\* A handler that stays where the limit is passed, or leaves, adds nothing.
LEMMA PassedLess ==
  ASSUME NEW ex, NEW fx, NEW after, NEW r \in Executes, Within(ex, fx),
         \A q \in Executes \ {r} : after[q] = ex[q],
         r \in Passed(after) =>
           r \in Passed(ex) /\ after[r].confirmation = ex[r].confirmation
  PROVE  AmountPassed(after, fx) \in Nat /\ AmountPassed(after, fx) <= AmountPassed(ex, fx)
<1>1. \A q \in Passed(after) : q \in Passed(ex) /\ after[q].confirmation = ex[q].confirmation
  BY DEF Passed
<1>2. Within(after, fx)
  BY <1>1 DEF Within
<1> DEFINE b == PassedBesides(ex, fx, r)
           x == fx[ex[r].confirmation].amount
<1>3. PassedBesides(after, fx, r) = b
  BY OthersPassed
<1>4. /\ b \in Nat
      /\ r \in Passed(ex) => AmountPassed(ex, fx) = b + x
      /\ r \notin Passed(ex) => AmountPassed(ex, fx) = b
  BY PassedWithout
<1>5. /\ r \in Passed(after) => AmountPassed(after, fx) = b + x
      /\ r \notin Passed(after) => AmountPassed(after, fx) = b
  BY <1>2, <1>3, PassedWithout
<1>6. r \in Passed(ex) => x \in Nat
  BY DEF Within
<1> HIDE DEF b, x
<1> QED
  BY <1>4, <1>5, <1>6

LEMMA LimitedTypes ==
  ASSUME Inv, Limited
  PROVE  /\ TypeOK /\ Funded
         /\ fixed \in [Confirmations -> FixedData]
         /\ Within(execute, fixed)
         /\ IsFiniteSet(Executed(status))
         /\ Daily(status, fixed) \in Nat
<1>1. TypeOK /\ Funded /\ fixed \in [Confirmations -> FixedData]
  BY DEF Inv, Typed, TypeOK
<1>2. Within(execute, fixed)
  <2> SUFFICES ASSUME NEW q \in Passed(execute)
               PROVE  fixed[execute[q].confirmation].amount \in 0..MaxSingle
    BY DEF Within
  <2>1. q \in Executes /\ execute[q].at \in PastApproval /\ execute[q].at # "idle"
    BY DEF Passed, PastApproval
  <2>2. execute[q].confirmation \in Confirmations
    BY <1>1, <2>1, RunningFields
  <2>3. status[execute[q].confirmation] # "absent"
    BY <1>1, <2>1 DEF Funded
  <2>4. fixed[execute[q].confirmation].amount \in Nat
    BY <1>1, <2>2, AmountTyped
  <2> QED
    BY <2>2, <2>3, <2>4, ConstantsAssumption DEF Limited
<1>3. IsFiniteSet(Executed(status))
  BY DEF Limited
<1> QED
  BY <1>1, <1>2, <1>3, DailyNat

\* The single limit is judged when a confirmation is prepared, and nothing else
\* creates one.
LEMMA SingleKept ==
  ASSUME Inv, Limited, Next
  PROVE  /\ \A c \in Confirmations : status'[c] # "absent" => fixed'[c].amount <= MaxSingle
         /\ \A h \in Channels :
              channel'[h].at = "decide" => status'[channel'[h].confirmation] # "absent"
<1>a. TypeOK /\ Funded
  BY LimitedTypes
<1>b. \A c \in Confirmations : status[c] # "absent" => /\ status'[c] # "absent"
                                                       /\ fixed'[c] = fixed[c]
  BY <1>a, FixedStays
<1> DEFINE Created == \A c \in Confirmations :
                        status'[c] # "absent" => \/ status[c] # "absent"
                                                 \/ fixed'[c].amount <= MaxSingle
           Decided == \A h \in Channels :
                        channel'[h].at = "decide" =>
                          \/ channel'[h] = channel[h]
                          \/ /\ channel'[h].confirmation \in Confirmations
                             /\ status[channel'[h].confirmation] # "absent"
<1>c. \A h \in Channels : channel[h].at = "decide" => channel[h].confirmation \in Confirmations
  BY <1>a DEF TypeOK, IdleChannel, AuthenticatingChannel, DecidingChannel
<1>1. CASE UserNext
  <2>1. ASSUME NEW h \in Channels, Decide(h) PROVE Created /\ Decided
    <3>1. status[channel[h].confirmation] # "absent"
      BY <2>1 DEF Decide, Limited
    <3>2. channel' = [channel EXCEPT ![h] = IdleChannel]
      BY <2>1 DEF Decide
    <3>3. Created
      BY <1>a, <1>c, <2>1, <3>1 DEF Decide, TypeOK
    <3> QED
      BY <1>a, <3>2, <3>3 DEF TypeOK, IdleChannel
  <2>2. ASSUME NEW h \in Channels, NEW c \in Confirmations, NEW d, ReadConfirmation(h, c, d)
        PROVE  Created /\ Decided
    BY <1>a, <2>2 DEF ReadConfirmation, TypeOK, confirmationVars
  <2>3. ASSUME NEW h \in Channels, NEW a \in AuthContexts, NEW d, ReadAuth(h, a, d)
        PROVE  Created /\ Decided
    BY <1>a, <2>3 DEF ReadAuth, TypeOK, confirmationVars
  <2>4. ASSUME NEW h \in Channels, Authenticate(h) \/ ChannelFails(h)
        PROVE  Created /\ Decided
    BY <1>a, <2>4 DEF Authenticate, ChannelFails, TypeOK, confirmationVars, IdleChannel
  <2>5. Created /\ Decided
    BY <1>1, <2>1, <2>2, <2>3, <2>4 DEF UserNext
  <2> QED
    BY <1>b, <1>c, <2>5 DEF Limited
<1>2. CASE UNCHANGED channel /\ Created
  BY <1>b, <1>c, <1>2 DEF Limited
<1>3. CASE AgentNext
  <2>1. ASSUME NEW c \in Confirmations, NEW f \in FixedData, Prepare(c, f)
        PROVE  UNCHANGED channel /\ Created
    BY <1>a, <2>1 DEF Prepare, TypeOK
  <2> QED
    BY <1>2, <1>3, <2>1 DEF AgentNext, BeginAuth, CreateAuth, BeginExecute, confirmationVars
<1>4. ASSUME NEW r \in Executes, ExecuteStep(r) \/ ExecuteFails(r)
      PROVE  UNCHANGED channel /\ Created
  <2>1. CASE MarkExecuted(r)
    BY <1>a, <2>1, RunningFields DEF MarkExecuted, TypeOK
  <2>2. CASE VoidConfirmation(r)
    <3>1. status[execute[r].confirmation] # "absent"
      BY <1>a, <2>2 DEF VoidConfirmation, Funded, PastApproval
    <3> QED
      BY <1>a, <2>2, <3>1 DEF VoidConfirmation, TypeOK
  <2>3. CASE ~MarkExecuted(r) /\ ~VoidConfirmation(r)
    BY <1>4, <2>3
    DEF ExecuteStep, ExecuteFails, ClaimKey, LoadConfirmation, LoadAuth, ReadBalance,
        ReadLimit, VoidAuth, MoveLedger, LedgerAnswers, RecordAudit, StoreAnswer,
        confirmationVars
  <2> QED
    BY <2>1, <2>2, <2>3
<1>5. CASE LedgerNext
  BY <1>2, <1>5 DEF LedgerNext, LedgerReads, Serve, LedgerPosts, LedgerFails, confirmationVars
<1>6. CASE \/ \E c \in Confirmations : ConfirmationExpires(c)
           \/ \E a \in AuthContexts : AuthExpires(a)
  BY <1>2, <1>6 DEF ConfirmationExpires, AuthExpires, confirmationVars
<1> QED
  BY <1>1, <1>2, <1>3, <1>4, <1>5, <1>6 DEF Next

\* A step that executes nothing and lets no handler pass.
LEMMA LimitUndisturbed ==
  ASSUME Inv, Limited, Next, NEW r \in Executes,
         Executed(status') \subseteq Executed(status),
         \A q \in Executes \ {r} : execute'[q] = execute[q],
         r \in Passed(execute') =>
           r \in Passed(execute) /\ execute'[r].confirmation = execute[r].confirmation
  PROVE  Limited'
<1>1. /\ TypeOK /\ fixed \in [Confirmations -> FixedData] /\ Within(execute, fixed)
      /\ IsFiniteSet(Executed(status)) /\ Daily(status, fixed) \in Nat /\ Funded
  BY LimitedTypes
<1>2. \A c \in Confirmations : status[c] # "absent" => fixed'[c] = fixed[c]
  BY <1>1, FixedStays
<1>3. fixed' \in [Confirmations -> FixedData]
  BY InvStep DEF Inv, Typed, TypeOK
<1>4. \A c \in Executed(status') : fixed'[c] = fixed[c]
  <2>1. \A c \in Executed(status) : c \in Confirmations /\ status[c] # "absent"
    BY DEF Executed
  <2> QED
    BY <1>2, <2>1
<1>5. IsFiniteSet(Executed(status')) /\ Daily(status', fixed') <= Daily(status, fixed)
  BY <1>1, <1>3, <1>4, DailyFewer
<1>6. AmountPassed(execute', fixed) \in Nat
      /\ AmountPassed(execute', fixed) <= AmountPassed(execute, fixed)
  BY <1>1, PassedLess
<1>7. AmountPassed(execute', fixed') = AmountPassed(execute', fixed)
  <2>1. \A q \in Passed(execute') : q \in Passed(execute)
                                    /\ execute'[q].confirmation = execute[q].confirmation
    BY DEF Passed
  <2>2. \A q \in Passed(execute) : execute[q].confirmation \in Confirmations
                                   /\ status[execute[q].confirmation] # "absent"
    BY <1>1, RunningFields DEF Passed, Funded, PastApproval
  <2>3. [q \in Passed(execute') |-> fixed'[execute'[q].confirmation].amount]
          = [q \in Passed(execute') |-> fixed[execute'[q].confirmation].amount]
    BY <1>2, <2>1, <2>2
  <2> QED
    BY Zenon, <2>3 DEF AmountPassed
<1>8. Daily(status', fixed') \in Nat
  BY <1>3, <1>5, DailyNat
<1>9. AmountPassed(execute, fixed) \in Nat
  BY <1>1, PassedLess
<1>10. Daily(status', fixed') + AmountPassed(execute', fixed') <= MaxDaily + MaxOvershoot
  BY <1>1, <1>5, <1>6, <1>7, <1>8, <1>9, MaxOvershootNat, ConstantsAssumption DEF Limited
<1> QED
  BY <1>5, <1>10, SingleKept DEF Limited, MaxOvershoot

\* The daily limit is judged with everything executed so far: what may pass
\* beyond it are the others that have been judged before and are not counted yet.
LEMMA LimitPassed ==
  ASSUME Inv, Limited, Next, NEW r \in Executes, ReadLimit(r)
  PROVE  Limited'
<1>a. /\ TypeOK /\ fixed \in [Confirmations -> FixedData] /\ Within(execute, fixed)
      /\ IsFiniteSet(Executed(status)) /\ Daily(status, fixed) \in Nat
  BY LimitedTypes
<1>b. execute[r].at = "read_limit" /\ execute[r].confirmation \in Confirmations
  BY <1>a, RunningFields DEF ReadLimit
<1>1. CASE ~WithinDailyLimit(fixed[execute[r].confirmation])
  <2>1. Goto(r, "void_confirmation") /\ UNCHANGED status
    BY <1>1 DEF ReadLimit, confirmationVars
  <2>2. execute'[r].at = "void_confirmation" /\ \A q \in Executes \ {r} : execute'[q] = execute[q]
    BY <2>1, <1>a, <1>b, GotoEffect DEF Point
  <2>3. r \notin Passed(execute')
    BY <2>2 DEF Passed
  <2>4. Executed(status') \subseteq Executed(status)
    BY <2>1
  <2> QED
    BY <2>2, <2>3, <2>4, LimitUndisturbed
<1>2. CASE WithinDailyLimit(fixed[execute[r].confirmation])
  <2> DEFINE x == fixed[execute[r].confirmation].amount
             b == PassedBesides(execute, fixed, r)
  <2>1. Goto(r, "move") /\ UNCHANGED <<status, fixed>>
    BY <1>2 DEF ReadLimit, confirmationVars
  <2>2. /\ execute'[r].at = "move" /\ execute'[r].confirmation = execute[r].confirmation
        /\ \A q \in Executes \ {r} : execute'[q] = execute[q]
    BY <2>1, <1>a, <1>b, GotoEffect DEF Point
  <2>3. Daily(status, fixed) + x <= MaxDaily
    BY <1>2, <1>a, DailyComputed DEF WithinDailyLimit
  <2>4. b \in Nat /\ b <= MaxOvershoot
    BY <1>a, PassedWithout
  <2>5. PassedBesides(execute', fixed, r) = b
    BY <2>2, OthersPassed
  <2>6. \A c \in Confirmations : status'[c] # "absent" => fixed'[c].amount <= MaxSingle
    BY SingleKept
  <2>7. Within(execute', fixed)
    <3>1. \A q \in Passed(execute') : \/ q \in Passed(execute) /\ execute'[q] = execute[q]
                                     \/ execute'[q].confirmation = execute[r].confirmation
      BY <2>2 DEF Passed
    <3>2. status[execute[r].confirmation] # "absent"
      BY <1>b, LimitedTypes DEF Funded, PastApproval
    <3>3. x \in Nat /\ x <= MaxSingle
      BY <1>a, <1>b, <3>2, AmountTyped DEF Limited
    <3>4. x \in 0..MaxSingle
      BY <3>3, ConstantsAssumption
    <3> QED
      BY <1>a, <3>1, <3>4 DEF Within
  <2>8. r \in Passed(execute')
    BY <2>2 DEF Passed
  <2>9. AmountPassed(execute', fixed) = b + x
    BY <2>2, <2>5, <2>7, <2>8, PassedWithout
  <2>10. x \in Nat
    BY <1>a, <1>b, AmountTyped
  <2> HIDE DEF x, b
  <2>11. Daily(status, fixed) + AmountPassed(execute', fixed) <= MaxDaily + MaxOvershoot
    BY <1>a, <2>3, <2>4, <2>9, <2>10, MaxOvershootNat, ConstantsAssumption
  <2>12. Daily(status', fixed') + AmountPassed(execute', fixed') <= MaxDaily + MaxOvershoot
    BY Zenon, <2>1, <2>11
  <2>13. IsFiniteSet(Executed(status'))
    BY <1>a, <2>1
  <2> QED
    BY <2>12, <2>13, SingleKept DEF Limited, MaxOvershoot
<1> QED
  BY <1>1, <1>2

\* mark_executed counts what its handler has passed.
LEMMA LimitCounted ==
  ASSUME Inv, Limited, Next, NEW r \in Executes, MarkExecuted(r),
         status[execute[r].confirmation] = "APPROVED"
  PROVE  Limited'
<1> DEFINE c == execute[r].confirmation
           b == PassedBesides(execute, fixed, r)
<1>a. /\ TypeOK /\ fixed \in [Confirmations -> FixedData] /\ Within(execute, fixed)
      /\ IsFiniteSet(Executed(status)) /\ Daily(status, fixed) \in Nat
  BY LimitedTypes
<1>b. execute[r].at = "mark" /\ c \in Confirmations
  BY <1>a, RunningFields DEF MarkExecuted
<1>1. /\ status' = [status EXCEPT ![c] = "EXECUTED"] /\ Goto(r, "record_audit")
      /\ UNCHANGED fixed
  BY DEF MarkExecuted
<1>2. /\ execute'[r].at = "record_audit"
      /\ \A q \in Executes \ {r} : execute'[q] = execute[q]
  BY <1>1, <1>a, <1>b, GotoEffect DEF Point
<1>3. c \notin Executed(status) /\ Executed(status') = Executed(status) \cup {c}
  <2>1. \A d \in Confirmations : status'[d] = IF d = c THEN "EXECUTED" ELSE status[d]
    BY <1>1, <1>a, <1>b DEF TypeOK
  <2> QED
    BY <2>1, <1>b DEF Executed
<1> HIDE DEF c
<1>4. /\ IsFiniteSet(Executed(status'))
      /\ Daily(status', fixed) = Daily(status, fixed) + fixed[c].amount
  BY <1>a, <1>b, <1>3, DailyMore
<1>5. r \in Passed(execute) /\ r \notin Passed(execute')
  BY <1>b, <1>2 DEF Passed
<1>6. AmountPassed(execute, fixed) = b + fixed[c].amount
  BY <1>a, <1>5, PassedWithout DEF c
<1>7. Within(execute', fixed)
  <2>1. \A q \in Passed(execute') : q \in Passed(execute) /\ execute'[q] = execute[q]
    BY <1>2 DEF Passed
  <2> QED
    BY <1>a, <2>1 DEF Within
<1>8. AmountPassed(execute', fixed) = b
  BY <1>2, <1>5, <1>7, PassedWithout, OthersPassed
<1>9. fixed[c].amount \in Nat /\ b \in Nat
  BY <1>a, <1>b, AmountTyped, PassedWithout
<1> HIDE DEF b
<1>10. Daily(status', fixed) + AmountPassed(execute', fixed)
         = Daily(status, fixed) + AmountPassed(execute, fixed)
  BY <1>a, <1>4, <1>6, <1>8, <1>9
<1>11. Daily(status', fixed') + AmountPassed(execute', fixed') <= MaxDaily + MaxOvershoot
  BY Zenon, <1>1, <1>10 DEF Limited
<1> QED
  BY <1>4, <1>11, SingleKept DEF Limited, MaxOvershoot


LEMMA LimitedInit == Init => Limited
<1> SUFFICES ASSUME Init PROVE Limited
  OBVIOUS
<1>1. /\ \A c \in Confirmations : status[c] = "absent"
      /\ \A h \in Channels : channel[h].at = "idle"
      /\ \A r \in Executes : execute[r].at = "idle"
  BY DEF Init, IdleChannel, IdleExecute
<1>2. Executed(status) = {} /\ Passed(execute) = {}
  BY <1>1 DEF Executed, Passed
<1>3. Daily(status, fixed) = 0 /\ AmountPassed(execute, fixed) = 0
  BY <1>2, SumEmpty DEF Daily, AmountPassed
<1>4. IsFiniteSet(Executed(status))
  BY <1>2, FS_EmptySet
<1> QED
  BY <1>1, <1>3, <1>4, MaxOvershootNat, ConstantsAssumption DEF Limited

LEMMA LimitedStep ==
  ASSUME Inv, Limited, Next
  PROVE  Limited'
<1>a. TypeOK /\ Funded
  BY LimitedTypes
<1>1. ASSUME NEW r \in Executes, ExecuteStep(r) \/ ExecuteFails(r),
             ~ReadLimit(r), ~(MarkExecuted(r) /\ status[execute[r].confirmation] = "APPROVED")
      PROVE  Limited'
  <2>a. execute[r].at # "idle"
    BY <1>1 DEF ExecuteStep, ExecuteFails, ClaimKey, LoadConfirmation, LoadAuth, ReadBalance,
                VoidConfirmation, VoidAuth, MoveLedger, LedgerAnswers, MarkExecuted,
                RecordAudit, StoreAnswer
  <2>1. /\ Executed(status') \subseteq Executed(status)
        /\ \/ execute' = [execute EXCEPT ![r] = IdleExecute]
           \/ \E p \in Point \ {"move", "await_ledger", "mark"} : Goto(r, p)
           \/ /\ execute[r].at \in {"move", "await_ledger"}
              /\ \E p \in Point : Goto(r, p)
           \/ \E o \in Outcomes : Answer(r, o)
    <3>1. CASE ClaimKey(r) \/ LoadConfirmation(r) \/ LoadAuth(r)
      BY <3>1 DEF ClaimKey, LoadConfirmation, LoadAuth, Point, Outcomes, confirmationVars
    <3>2. CASE ReadBalance(r) \/ VoidAuth(r)
      BY <3>2 DEF ReadBalance, VoidAuth, Point, Outcomes, confirmationVars
    <3>3. CASE MoveLedger(r) \/ LedgerAnswers(r)
      BY <3>3 DEF MoveLedger, LedgerAnswers, Point, confirmationVars
    <3>4. CASE StoreAnswer(r) \/ ExecuteFails(r)
      BY <3>4 DEF StoreAnswer, ExecuteFails, confirmationVars
    <3>5. CASE VoidConfirmation(r)
      BY <1>a, <3>5 DEF VoidConfirmation, Point, Executed, TypeOK
    <3>6. CASE MarkExecuted(r)
      BY <1>1, <3>6 DEF MarkExecuted, Outcomes
    <3>7. CASE RecordAudit(r)
      BY <3>7 DEF RecordAudit, Outcomes, confirmationVars
    <3> QED
      BY <1>1, <3>1, <3>2, <3>3, <3>4, <3>5, <3>6, <3>7 DEF ExecuteStep
  <2>2. /\ \A q \in Executes \ {r} : execute'[q] = execute[q]
        /\ \/ execute'[r].at \notin {"move", "await_ledger", "mark"}
           \/ /\ execute[r].at \in {"move", "await_ledger"}
              /\ execute'[r].confirmation = execute[r].confirmation
    BY <1>a, <2>a, <2>1, StopEffect, GotoEffect, AnswerEffect DEF IdleExecute
  <2>3. r \in Passed(execute') =>
          r \in Passed(execute) /\ execute'[r].confirmation = execute[r].confirmation
    BY <2>2 DEF Passed
  <2> QED
    BY <2>1, <2>2, <2>3, LimitUndisturbed
<1>2. ASSUME NEW r \in Executes, NEW k \in Keys, NEW c \in Confirmations,
             NEW a \in AuthContexts, BeginExecute(r, k, c, a)
      PROVE  Limited'
  <2>1. /\ execute'[r].at = "claim" /\ \A q \in Executes \ {r} : execute'[q] = execute[q]
        /\ UNCHANGED status
    BY <1>a, <1>2, BeginEffect
  <2>2. r \notin Passed(execute')
    BY <2>1 DEF Passed
  <2>3. Executed(status') \subseteq Executed(status)
    BY <2>1
  <2> QED
    BY <2>1, <2>2, <2>3, LimitUndisturbed
<1>3. CASE Elsewhere
  <2>1. PICK r \in Executes : TRUE
    BY ConstantsAssumption
  <2>2. UNCHANGED execute /\ Executed(status') \subseteq Executed(status)
    BY <1>3 DEF Elsewhere, Executed
  <2>3. \A q \in Executes \ {r} : execute'[q] = execute[q]
    BY <2>2
  <2>4. r \in Passed(execute') =>
          r \in Passed(execute) /\ execute'[r].confirmation = execute[r].confirmation
    BY <2>2
  <2> QED
    BY <2>2, <2>3, <2>4, LimitUndisturbed
<1> QED
  BY <1>a, <1>1, <1>2, <1>3, StepKinds, LimitPassed, LimitCounted

\* Execute judges the daily limit before it moves money and is counted after.
\* However many handlers judge together, what is executed passes the daily limit
\* by at most one single transfer for each handler but one.
THEOREM TransferOvershootBounded == Spec => []DailyOvershootBounded
<1>1. Init => Limited
  BY LimitedInit
<1>2. Inv /\ Limited /\ [Next]_vars => Limited'
  <2> SUFFICES ASSUME Inv, Limited, [Next]_vars PROVE Limited'
    OBVIOUS
  <2>1. CASE UNCHANGED vars
    BY <2>1 DEF vars, Limited, Executed, Daily, AmountPassed, Passed, MaxOvershoot
  <2> QED
    BY <2>1, LimitedStep
<1>3. Inv /\ Limited => DailyOvershootBounded
  <2> SUFFICES ASSUME Inv, Limited PROVE DailyOvershootBounded
    OBVIOUS
  <2>1. DailyTransferredAmount = Daily(status, fixed) /\ Daily(status, fixed) \in Nat
    BY LimitedTypes, DailyComputed
  <2>2. PICK r \in Executes : TRUE
    BY ConstantsAssumption
  <2>3. Within(execute, fixed)
    BY LimitedTypes
  <2>4. AmountPassed(execute, fixed) \in Nat
    BY <2>2, <2>3, PassedLess
  <2>5. Daily(status, fixed) <= MaxDaily + MaxOvershoot
    BY <2>1, <2>4, MaxOvershootNat, ConstantsAssumption DEF Limited
  <2> QED
    BY <2>1, <2>5 DEF DailyOvershootBounded, MaxOvershoot
<1> QED
  BY <1>1, <1>2, <1>3, Invariance, PTL DEF Spec

=============================================================================
