------------------------- MODULE TransferExecution -------------------------
(***************************************************************************)
(* The execution of an internal transfer in the Backend Gateway: what the  *)
(* handlers of Prepare, Auth Context creation, Execute, and the user's     *)
(* approval and authentication requests do to the Confirmation, the Auth   *)
(* Context, the idempotency record and the audit log of PostgreSQL, and to *)
(* the ledger of the mock financial service.                               *)
(*                                                                         *)
(* Handlers are coroutines of one or more Backend processes. Each step of  *)
(* a handler below is one statement or commit, or one call to the ledger;  *)
(* between two steps any other handler may run, a time-to-live may elapse  *)
(* and the handler may die (an exception, a lost connection, a crash).     *)
(***************************************************************************)
EXTENDS Integers, Sequences, FiniteSets, FiniteSetsExt

CONSTANTS
  Confirmations,  \* identifiers of confirmation rows
  AuthContexts,   \* identifiers of auth context rows
  Keys,           \* Idempotency-Key headers of Execute requests
  Executes,       \* Execute handlers that may run at the same time
  Channels,       \* user-facing approval/authentication handlers, likewise
  LedgerThreads,  \* the threads in which the ledger serves its requests
  Accounts,       \* the accounts of one user
  Amounts,        \* the amounts a user may ask to transfer
  InitialBalance, \* balance of every account when the system starts
  MaxSingle,      \* MAX_SINGLE_TRANSFER_KRW
  MaxDaily,       \* MAX_DAILY_TRANSFER_KRW
  None            \* no reference

ASSUME ConstantsAssumption ==
  /\ Accounts # {} /\ Amounts # {} /\ Amounts \subseteq Nat \ {0}
  /\ InitialBalance \in [Accounts -> Nat]
  /\ MaxSingle \in Nat /\ MaxDaily \in Nat
  /\ IsFiniteSet(Channels) /\ IsFiniteSet(Executes) /\ Executes # {}
  /\ None \notin Confirmations \cup AuthContexts \cup Keys
  /\ Confirmations \cap Keys = {}

VARIABLES
  status,       \* Confirmation.status, "absent" before Prepare creates the row
  fixed,        \* Confirmation.fixed_data: from_account_id, to_account_id, amount
  approvedAt,   \* the confirmations whose approved_at is set
  overdue,      \* the confirmations whose expires_at has passed
  auth,         \* AuthContext.status and the confirmation it belongs to
  verifiedAt,   \* the auth contexts whose verified_at is set
  authOverdue,  \* the auth contexts whose expires_at has passed
  idempotency,  \* the idempotency record of each key of the Execute operation
  execute,      \* the Execute handlers: where each one is, what it works on
  channel,      \* the user-facing handlers
  sent,         \* ledger requests on the wire, or still queued in the ledger
  serving,      \* the ledger threads: the request each serves, the balances it read
  posted,       \* the ledger's bookings in the order of their commits, each with the
                \* idempotency key of its transaction and what it moved money for
  balance,      \* balances the ledger keeps
  audit         \* FINANCIAL_EXECUTION_COMPLETED events per confirmation

confirmationVars == <<status, fixed, approvedAt, overdue>>
authVars == <<auth, verifiedAt, authOverdue>>
ledgerVars == <<sent, serving, posted, balance>>
vars == <<status, fixed, approvedAt, overdue, auth, verifiedAt, authOverdue,
          idempotency, execute, channel, sent, serving, posted, balance, audit>>

-----------------------------------------------------------------------------
(* Values *)

FixedData == [from : Accounts, to : Accounts, amount : Amounts]

ConfirmationStatus ==
  {"absent", "PENDING", "APPROVED", "INVALIDATED", "EXECUTED"}

\* "creating" is a create_auth_context handler that has found no active
\* attempt and has not inserted its row yet.
AuthStatus ==
  {"absent", "creating", "PENDING", "VERIFIED", "FAILED", "CANCELLED", "EXPIRED"}

Outcomes == {"none", "completed", "correction_required", "reauthentication_required"}

NoAuth == [status |-> "absent", confirmation |-> None]

AuthRow == [status : AuthStatus \ {"absent"}, confirmation : Confirmations]

NoRecord == [status |-> "absent", confirmation |-> None, outcome |-> "none"]

IdempotencyRecord ==
  [status : {"IN_PROGRESS", "COMPLETED"}, confirmation : Confirmations, outcome : Outcomes]

IdleExecute ==
  [at |-> "idle", key |-> None, confirmation |-> None, auth |-> None, outcome |-> "none"]

Point ==
  {"claim", "load_confirmation", "load_auth", "read_balance", "read_limit", "move",
   "await_ledger", "mark", "record_audit", "void_confirmation", "void_auth", "store"}

RunningExecute ==
  [at : Point, key : Keys, confirmation : Confirmations, auth : AuthContexts,
   outcome : Outcomes]

IdleChannel ==
  [at |-> "idle", confirmation |-> None, auth |-> None, decision |-> "none"]

DecidingChannel ==
  [at : {"decide"}, confirmation : Confirmations, auth : {None},
   decision : {"approve", "cancel"}]

AuthenticatingChannel ==
  [at : {"authenticate"}, confirmation : {None}, auth : AuthContexts,
   decision : {"VERIFIED", "FAILED", "CANCELLED"}]

LedgerRequest == [key : Confirmations \cup Keys, confirmation : Confirmations]

Bookings == Seq(LedgerRequest)

IdleThread == [at |-> "idle"]

ServingThread ==
  [at : {"serving"}, request : LedgerRequest, sender : Nat, receiver : Nat]

-----------------------------------------------------------------------------
Init ==
  /\ status = [c \in Confirmations |-> "absent"]
  /\ fixed = [c \in Confirmations |-> CHOOSE f \in FixedData : TRUE]
  /\ approvedAt = {} /\ overdue = {}
  /\ auth = [a \in AuthContexts |-> NoAuth]
  /\ verifiedAt = {} /\ authOverdue = {}
  /\ idempotency = [k \in Keys |-> NoRecord]
  /\ execute = [r \in Executes |-> IdleExecute]
  /\ channel = [h \in Channels |-> IdleChannel]
  /\ sent = {} /\ posted = <<>>
  /\ serving = [w \in LedgerThreads |-> IdleThread]
  /\ balance = InitialBalance
  /\ audit = [c \in Confirmations |-> 0]

-----------------------------------------------------------------------------
(* Policy: _evaluate_internal_transfer and the daily sum it reads *)

DailyTransferredAmount ==
  MapThenSumSet(LAMBDA c : fixed[c].amount, {c \in Confirmations : status[c] = "EXECUTED"})

HasFunds(f) == balance[f.from] >= f.amount

WithinDailyLimit_IgnoringToday(f) == f.amount <= MaxDaily

WithinDailyLimit(f) == DailyTransferredAmount + f.amount <= MaxDaily

\* prepare_internal_transfer: a request that breaks a condition gets
\* correction_required and changes nothing; otherwise a PENDING confirmation
\* fixes the accounts and the amount.
Prepare(c, f) ==
  /\ status[c] = "absent"
  /\ f.from # f.to
  /\ f.amount <= MaxSingle
  /\ HasFunds(f)
  /\ WithinDailyLimit(f)
  /\ status' = [status EXCEPT ![c] = "PENDING"]
  /\ fixed' = [fixed EXCEPT ![c] = f]
  /\ UNCHANGED <<approvedAt, overdue, authVars, idempotency, execute, channel,
                 ledgerVars, audit>>

-----------------------------------------------------------------------------
(* Approval by the user: chat_service.resume_after_approval reads the row, *)
(* then writes the decision without looking at it again.                   *)

ReadConfirmation(h, c, decision) ==
  /\ channel[h].at = "idle"
  /\ status[c] = "PENDING" /\ c \notin overdue
  /\ channel' = [channel EXCEPT ![h] =
       [at |-> "decide", confirmation |-> c, auth |-> None, decision |-> decision]]
  /\ UNCHANGED <<confirmationVars, authVars, idempotency, execute, ledgerVars, audit>>

Decide(h) ==
  /\ channel[h].at = "decide"
  /\ LET c == channel[h].confirmation IN
       IF channel[h].decision = "approve"
       THEN /\ status' = [status EXCEPT ![c] = "APPROVED"]
            /\ approvedAt' = approvedAt \cup {c}
       ELSE /\ status' = [status EXCEPT ![c] = "INVALIDATED"]
            /\ UNCHANGED approvedAt
  /\ channel' = [channel EXCEPT ![h] = IdleChannel]
  /\ UNCHANGED <<fixed, overdue, authVars, idempotency, execute, ledgerVars, audit>>

\* A confirmation's time-to-live elapses; only the clock tells, no row changes.
ConfirmationExpires(c) ==
  /\ status[c] # "absent" /\ c \notin overdue
  /\ overdue' = overdue \cup {c}
  /\ UNCHANGED <<status, fixed, approvedAt, authVars, idempotency, execute, channel,
                 ledgerVars, audit>>

-----------------------------------------------------------------------------
(* Authentication attempts *)

\* The part of _load_approved that both Execute and create_auth_context pass.
Approved(c) == status[c] = "APPROVED" /\ c \notin overdue

ActiveAuth(c) ==
  {a \in AuthContexts : /\ auth[a].confirmation = c
                        /\ auth[a].status = "PENDING"
                        /\ a \notin authOverdue}

\* create_auth_context reuses an active attempt; otherwise it inserts one, in
\* a statement of its own.
BeginAuth(a, c) ==
  /\ auth[a].status = "absent"
  /\ Approved(c)
  /\ ActiveAuth(c) = {}
  /\ auth' = [auth EXCEPT ![a] = [status |-> "creating", confirmation |-> c]]
  /\ UNCHANGED <<confirmationVars, verifiedAt, authOverdue, idempotency, execute,
                 channel, ledgerVars, audit>>

CreateAuth(a) ==
  /\ auth[a].status = "creating"
  /\ auth' = [auth EXCEPT ![a].status = "PENDING"]
  /\ UNCHANGED <<confirmationVars, verifiedAt, authOverdue, idempotency, execute,
                 channel, ledgerVars, audit>>

AuthExpires(a) ==
  /\ auth[a].status \notin {"absent", "creating"} /\ a \notin authOverdue
  /\ authOverdue' = authOverdue \cup {a}
  /\ UNCHANGED <<confirmationVars, auth, verifiedAt, idempotency, execute, channel,
                 ledgerVars, audit>>

\* authenticate_and_resume: the row is read, the password verified, and the
\* result written without looking at the row again.
ReadAuth(h, a, result) ==
  /\ channel[h].at = "idle"
  /\ auth[a].status = "PENDING" /\ a \notin authOverdue
  /\ channel' = [channel EXCEPT ![h] =
       [at |-> "authenticate", confirmation |-> None, auth |-> a, decision |-> result]]
  /\ UNCHANGED <<confirmationVars, authVars, idempotency, execute, ledgerVars, audit>>

Authenticate(h) ==
  /\ channel[h].at = "authenticate"
  /\ LET a == channel[h].auth IN
       /\ auth' = [auth EXCEPT ![a].status = channel[h].decision]
       /\ verifiedAt' = IF channel[h].decision = "VERIFIED"
                        THEN verifiedAt \cup {a} ELSE verifiedAt
  /\ channel' = [channel EXCEPT ![h] = IdleChannel]
  /\ UNCHANGED <<confirmationVars, authOverdue, idempotency, execute, ledgerVars, audit>>

\* A user-facing handler dies between its read and its write.
ChannelFails(h) ==
  /\ channel[h].at # "idle"
  /\ channel' = [channel EXCEPT ![h] = IdleChannel]
  /\ UNCHANGED <<confirmationVars, authVars, idempotency, execute, ledgerVars, audit>>

-----------------------------------------------------------------------------
(* Execute: the idempotency boundary run_idempotent *)

Goto(r, point) == execute' = [execute EXCEPT ![r].at = point]

Answer(r, outcome) ==
  execute' = [execute EXCEPT ![r].at = "store", ![r].outcome = outcome]

\* begin finds no record for the key; a COMPLETED record is replayed and an
\* IN_PROGRESS one refused, both without a change of state.
BeginExecute(r, k, c, a) ==
  /\ execute[r].at = "idle"
  /\ idempotency[k].status = "absent"
  /\ execute' = [execute EXCEPT ![r] = [at |-> "claim", key |-> k, confirmation |-> c,
                                        auth |-> a, outcome |-> "none"]]
  /\ UNCHANGED <<confirmationVars, authVars, idempotency, channel, ledgerVars, audit>>

ClaimKey_WithoutUniqueness(r) ==
  /\ execute[r].at = "claim"
  /\ idempotency' = [idempotency EXCEPT ![execute[r].key] =
       [status |-> "IN_PROGRESS", confirmation |-> execute[r].confirmation,
        outcome |-> "none"]]
  /\ Goto(r, "load_confirmation")
  /\ UNCHANGED <<confirmationVars, authVars, channel, ledgerVars, audit>>

\* create_in_progress commits the record; its unique constraint turns a second
\* claim of the key into IDEMPOTENCY_REQUEST_IN_PROGRESS.
ClaimKey(r) ==
  /\ execute[r].at = "claim"
  /\ LET k == execute[r].key IN
       IF idempotency[k].status = "absent"
       THEN /\ idempotency' = [idempotency EXCEPT ![k] =
                 [status |-> "IN_PROGRESS", confirmation |-> execute[r].confirmation,
                  outcome |-> "none"]]
            /\ Goto(r, "load_confirmation")
       ELSE /\ execute' = [execute EXCEPT ![r] = IdleExecute]
            /\ UNCHANGED idempotency
  /\ UNCHANGED <<confirmationVars, authVars, channel, ledgerVars, audit>>

\* complete stores the answer, which every later call with the key gets.
StoreAnswer(r) ==
  /\ execute[r].at = "store"
  /\ idempotency' = [idempotency EXCEPT ![execute[r].key].status = "COMPLETED",
                                        ![execute[r].key].outcome = execute[r].outcome]
  /\ execute' = [execute EXCEPT ![r] = IdleExecute]
  /\ UNCHANGED <<confirmationVars, authVars, channel, ledgerVars, audit>>

\* The handler raises (a business error, the ledger's error after its retries,
\* the database's) or its process dies: get_db rolls back what is not
\* committed, and the record of the key stays as it is.
ExecuteFails(r) ==
  /\ execute[r].at # "idle"
  /\ execute' = [execute EXCEPT ![r] = IdleExecute]
  /\ UNCHANGED <<confirmationVars, authVars, idempotency, channel, ledgerVars, audit>>

-----------------------------------------------------------------------------
(* Execute: execute_internal_transfer *)

\* load_for_execute; any other status raises (ExecuteFails).
LoadConfirmation(r) ==
  /\ execute[r].at = "load_confirmation"
  /\ Approved(execute[r].confirmation)
  /\ Goto(r, "load_auth")
  /\ UNCHANGED <<confirmationVars, authVars, idempotency, channel, ledgerVars, audit>>

BelongsTo_Anyone(a, c) == auth[a].status \notin {"absent", "creating"}

BelongsTo(a, c) == auth[a].status \notin {"absent", "creating"} /\ auth[a].confirmation = c

\* load_verified: an expired attempt asks for a new one, a verified one passes,
\* anything else raises (ExecuteFails).
LoadAuth(r) ==
  LET a == execute[r].auth IN
  /\ execute[r].at = "load_auth"
  /\ BelongsTo(a, execute[r].confirmation)
  /\ IF auth[a].status = "EXPIRED" \/ a \in authOverdue
     THEN Answer(r, "reauthentication_required")
     ELSE /\ auth[a].status = "VERIFIED"
          /\ Goto(r, "read_balance")
  /\ UNCHANGED <<confirmationVars, authVars, idempotency, channel, ledgerVars, audit>>

\* The conditions are judged again, the balance from the ledger first and the
\* daily sum from the executed confirmations next.
ReadBalance(r) ==
  /\ execute[r].at = "read_balance"
  /\ IF HasFunds(fixed[execute[r].confirmation])
     THEN Goto(r, "read_limit") ELSE Goto(r, "void_confirmation")
  /\ UNCHANGED <<confirmationVars, authVars, idempotency, channel, ledgerVars, audit>>

ReadLimit(r) ==
  /\ execute[r].at = "read_limit"
  /\ IF WithinDailyLimit(fixed[execute[r].confirmation])
     THEN Goto(r, "move") ELSE Goto(r, "void_confirmation")
  /\ UNCHANGED <<confirmationVars, authVars, idempotency, channel, ledgerVars, audit>>

\* A broken condition invalidates the confirmation, then the attempt.
VoidConfirmation(r) ==
  /\ execute[r].at = "void_confirmation"
  /\ status' = [status EXCEPT ![execute[r].confirmation] = "INVALIDATED"]
  /\ Goto(r, "void_auth")
  /\ UNCHANGED <<fixed, approvedAt, overdue, authVars, idempotency, channel, ledgerVars,
                 audit>>

VoidAuth(r) ==
  /\ execute[r].at = "void_auth"
  /\ auth' = [auth EXCEPT ![execute[r].auth].status = "EXPIRED"]
  /\ Answer(r, "correction_required")
  /\ UNCHANGED <<confirmationVars, verifiedAt, authOverdue, idempotency, channel,
                 ledgerVars, audit>>

LedgerKey_FromHeader(r) == execute[r].key

\* The key of the ledger request is made from the confirmation, never from the
\* header of the caller.
LedgerKey(r) == execute[r].confirmation

MoveLedger(r) ==
  /\ execute[r].at = "move"
  /\ sent' = sent \cup {[key |-> LedgerKey(r), confirmation |-> execute[r].confirmation]}
  /\ Goto(r, "await_ledger")
  /\ UNCHANGED <<confirmationVars, authVars, idempotency, channel, serving, posted,
                 balance, audit>>

LedgerAnswers_OnAnyReply(r) ==
  /\ execute[r].at = "await_ledger"
  /\ Goto(r, "mark")
  /\ UNCHANGED <<confirmationVars, authVars, idempotency, channel, ledgerVars, audit>>

\* One of the attempts got the transaction, new or replayed, from the ledger.
LedgerAnswers(r) ==
  /\ execute[r].at = "await_ledger"
  /\ \E i \in DOMAIN posted : posted[i].key = LedgerKey(r)
  /\ Goto(r, "mark")
  /\ UNCHANGED <<confirmationVars, authVars, idempotency, channel, ledgerVars, audit>>

MarkExecuted_Unconditionally(r) ==
  /\ execute[r].at = "mark"
  /\ status' = [status EXCEPT ![execute[r].confirmation] = "EXECUTED"]
  /\ Goto(r, "record_audit")
  /\ UNCHANGED <<fixed, approvedAt, overdue, authVars, idempotency, channel, ledgerVars,
                 audit>>

\* The conditional UPDATE: APPROVED becomes EXECUTED once; the loser reports
\* completed and leaves no audit event.
MarkExecuted(r) ==
  LET c == execute[r].confirmation IN
  /\ execute[r].at = "mark"
  /\ IF status[c] = "APPROVED"
     THEN /\ status' = [status EXCEPT ![c] = "EXECUTED"]
          /\ Goto(r, "record_audit")
     ELSE /\ UNCHANGED status
          /\ Answer(r, "completed")
  /\ UNCHANGED <<fixed, approvedAt, overdue, authVars, idempotency, channel, ledgerVars,
                 audit>>

RecordAudit(r) ==
  /\ execute[r].at = "record_audit"
  /\ audit' = [audit EXCEPT ![execute[r].confirmation] = @ + 1]
  /\ Answer(r, "completed")
  /\ UNCHANGED <<confirmationVars, authVars, idempotency, channel, ledgerVars>>

-----------------------------------------------------------------------------
(* The ledger, serving a request that reached it however late. Its handlers *)
(* run in threads and read each row in a transaction of its own.           *)

Unposted(m) == \A i \in DOMAIN posted : posted[i].key # m.key

Serve(w, m) ==
  LET f == fixed[m.confirmation] IN
  /\ serving[w] = IdleThread
  /\ serving' = [serving EXCEPT ![w] = [at |-> "serving", request |-> m,
                    sender |-> balance[f.from], receiver |-> balance[f.to]]]
  /\ UNCHANGED <<confirmationVars, authVars, idempotency, execute, channel, sent, posted,
                 balance, audit>>

LedgerReads_WithoutFunds(w, m) == Unposted(m) /\ Serve(w, m)

\* A key that is posted is replayed, a sender without funds is refused, neither
\* changing anything; otherwise the handler goes on with the balances it read.
LedgerReads(w, m) == Unposted(m) /\ HasFunds(fixed[m.confirmation]) /\ Serve(w, m)

InsertAllowed_WithoutUniqueKey(m) == TRUE

\* The unique index on the key of a transaction.
InsertAllowed(m) == \A i \in DOMAIN posted : posted[i].key # m.key

\* One transaction inserts the transfer, a row of its own with its two entries,
\* and writes both balances as computed from what was read, whatever they are
\* by now.
LedgerPosts(w) ==
  LET m == serving[w].request
      f == fixed[m.confirmation] IN
  /\ serving[w] # IdleThread
  /\ InsertAllowed(m)
  /\ posted' = Append(posted, m)
  /\ balance' = [balance EXCEPT ![f.from] = serving[w].sender - f.amount,
                                ![f.to] = serving[w].receiver + f.amount]
  /\ serving' = [serving EXCEPT ![w] = IdleThread]
  /\ UNCHANGED <<confirmationVars, authVars, idempotency, execute, channel, sent, audit>>

\* The unique key, a locked database or a crash makes the transaction fail.
LedgerFails(w) ==
  /\ serving[w] # IdleThread
  /\ serving' = [serving EXCEPT ![w] = IdleThread]
  /\ UNCHANGED <<confirmationVars, authVars, idempotency, execute, channel, sent, posted,
                 balance, audit>>

LedgerNext ==
  \E w \in LedgerThreads :
    \/ \E m \in sent : LedgerReads(w, m)
    \/ LedgerPosts(w)
    \/ LedgerFails(w)

-----------------------------------------------------------------------------
UserNext ==
  \E h \in Channels :
    \/ \E c \in Confirmations, d \in {"approve", "cancel"} : ReadConfirmation(h, c, d)
    \/ Decide(h)
    \/ \E a \in AuthContexts, d \in {"VERIFIED", "FAILED", "CANCELLED"} : ReadAuth(h, a, d)
    \/ Authenticate(h)
    \/ ChannelFails(h)

AgentNext ==
  \/ \E c \in Confirmations, f \in FixedData : Prepare(c, f)
  \/ \E a \in AuthContexts, c \in Confirmations : BeginAuth(a, c)
  \/ \E a \in AuthContexts : CreateAuth(a)
  \/ \E r \in Executes, k \in Keys, c \in Confirmations, a \in AuthContexts :
       BeginExecute(r, k, c, a)

ExecuteStep(r) ==
  \/ ClaimKey(r) \/ LoadConfirmation(r) \/ LoadAuth(r) \/ ReadBalance(r) \/ ReadLimit(r)
  \/ VoidConfirmation(r) \/ VoidAuth(r) \/ MoveLedger(r) \/ LedgerAnswers(r)
  \/ MarkExecuted(r) \/ RecordAudit(r) \/ StoreAnswer(r)

Next ==
  \/ UserNext
  \/ AgentNext
  \/ \E r \in Executes : ExecuteStep(r) \/ ExecuteFails(r)
  \/ LedgerNext
  \/ \E c \in Confirmations : ConfirmationExpires(c)
  \/ \E a \in AuthContexts : AuthExpires(a)

Spec == Init /\ [][Next]_vars

-----------------------------------------------------------------------------
(* Properties that hold *)

\* Types. In particular the balance column of the ledger, which each booking
\* overwrites with a difference computed from what it read, is never negative;
\* bookings that overlapped lose updates of the column, of which this says
\* nothing (see the module LedgerService).
TypeOK ==
  /\ status \in [Confirmations -> ConfirmationStatus]
  /\ fixed \in [Confirmations -> FixedData]
  /\ approvedAt \subseteq Confirmations /\ overdue \subseteq Confirmations
  /\ auth \in [AuthContexts -> {NoAuth} \cup AuthRow]
  /\ verifiedAt \subseteq AuthContexts /\ authOverdue \subseteq AuthContexts
  /\ idempotency \in [Keys -> {NoRecord} \cup IdempotencyRecord]
  /\ execute \in [Executes -> {IdleExecute} \cup RunningExecute]
  /\ channel \in [Channels -> {IdleChannel} \cup DecidingChannel \cup AuthenticatingChannel]
  /\ serving \in [LedgerThreads -> {IdleThread} \cup ServingThread]
  /\ sent \subseteq LedgerRequest /\ posted \in Bookings
  /\ balance \in [Accounts -> Nat]
  /\ audit \in [Confirmations -> Nat]

Moved(c) == \E i \in DOMAIN posted : posted[i].confirmation = c

\* However many Execute handlers run for a confirmation, under however many
\* keys, with handlers dying at any step and ledger requests arriving late, the
\* ledger moves money for the confirmation at most once: no two of its bookings
\* are for one confirmation. A retry of the ledger request runs beside the
\* attempt that timed out, and both find the key unused before either books.
MovedAtMostOnce ==
  \A i, j \in DOMAIN posted :
    posted[i].confirmation = posted[j].confirmation => i = j

\* The ledger moves money only for a confirmation the user approved and for
\* which the user passed an additional authentication of that confirmation.
MovedOnlyWhenAuthorised ==
  \A i \in DOMAIN posted :
    /\ posted[i].confirmation \in approvedAt
    /\ \E a \in verifiedAt : auth[a].confirmation = posted[i].confirmation

\* Whoever is told that a transfer completed (the confirmation's status, the
\* audit log, the stored answer a retry gets) is told the truth: the ledger has
\* moved the money.
CompletionMeansMoved ==
  /\ \A c \in Confirmations : status[c] = "EXECUTED" \/ audit[c] > 0 => Moved(c)
  /\ \A k \in Keys :
       idempotency[k].outcome = "completed" => Moved(idempotency[k].confirmation)

\* A decision is written without looking at the row again, so that an approval
\* which read PENDING may reopen a confirmation that is executed by now, and
\* its completion is recorded again. But each approval is good for one event:
\* however many Execute handlers and keys race for the confirmation, it has no
\* more events than there are handlers that may decide on it together; with one
\* decision at a time, one event.
AuditedOncePerDecider ==
  \A c \in Confirmations : audit[c] <= Cardinality(Channels)

\* Execute judges the daily limit before it moves money and is counted after;
\* handlers that judged together may pass the limit together, but only by one
\* single transfer for each further handler.
DailyOvershootBounded ==
  DailyTransferredAmount <= MaxDaily + (Cardinality(Executes) - 1) * MaxSingle

\* The answer stored for a key never changes: every retry gets the first one,
\* whichever handlers raced for the key.
AnswerIsFinal ==
  [][\A k \in Keys : idempotency[k].status = "COMPLETED"
                        => idempotency'[k] = idempotency[k]]_vars

=============================================================================
