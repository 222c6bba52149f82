# Verification of the conversational banking service

TLA+ models, model-checking instances and machine-checked proofs for the
program in this repository: a chat service in which an Agent (LangGraph) talks
to a customer, a Backend Gateway (FastAPI, PostgreSQL, Redis) owns users,
confirmations and authentication, and a mock financial service (FastAPI,
SQLite) owns the accounts and the ledger. Paths below are relative to the
repository root.

## 1. The system

| Part | State it keeps | Operations | Talks to |
|---|---|---|---|
| **Transfer execution** `backend/.../services/agent_tools/transfer_service.py`, `confirmation_service.py`, `auth_context_service.py`, `idempotency_service.py` | confirmation, auth context, idempotency record, audit log (PostgreSQL) | Prepare, create auth context, Execute | called by the Agent's tools; reads balances from and moves money in the ledger |
| **Decision channel** `backend/.../services/chat_service.py` | the same rows, pending inputs | start a turn, approve or cancel, answer an input, authenticate | called by the browser; resumes the Agent |
| **Ledger** `mock-financial-service/.../crud.py` | transactions, entries, balances, cards, charges, closings (SQLite) | transfer, charge, settle, close, reconcile | called by the Backend |
| **Ledger client** `backend/.../services/financial/financial_client.py` | none | transfer with retries under one key, balance | the ledger over HTTP |
| **Agent runtime** `agent/.../runtime/execution.py` | execution records in memory, checkpoints | accept and run a start, accept and run a resume | called by the Backend; publishes webhooks |
| **Workflows** `agent/.../workflows/*.py` | the state of one conversation | slots, confirmation, authentication, execution, correction | Backend tools |
| **Human-in-the-loop bridge** `chat_service.py`, `pending_input_service.py`, `api/webhook_api.py` | pending inputs, thread ids | webhook, register, consume, resume | Agent, browser |
| **Event stream** `agent_stream_producer.py`, `sse_service.py`, `sse_ticket_service.py`, `frontend/.../useAgentStream.ts` | Redis stream, tickets | append, relay, reconnect | browser |
| **Agent call resilience** `agent_client.py`, `core/resilience.py`, `dlq.py` | Redis dead-letter stream | call with retry, record, scan | Agent |
| **Account settings** `setting_service.py`, `account_repository.py` | default flag, alias | Prepare and Execute of each | Agent tools |
| Everything else | | query workflows, routing, guardrails, sessions, users, read APIs, fixtures, frontend presentation, deployment | |

How a transfer runs: the Agent's workflow gathers the slots and calls
**Prepare**, which judges the request and stores a PENDING confirmation; the
Agent publishes a webhook and pauses; the user **approves** (the Backend writes
the row and resumes the Agent); the Agent creates an **auth context** and pauses
again; the user **authenticates**; the Agent calls **Execute** with an
idempotency key; Execute claims the key, reloads the confirmation and the
authentication, judges the conditions again, has the **ledger** move the money
under a key made from the confirmation, marks the confirmation EXECUTED, writes
the audit event and stores its answer.

What is hard in it, and what correct means:

* *Money and rows live in two databases.* Nothing makes the ledger call and the
  update of the confirmation atomic. Whatever dies in between, money must move
  at most once per confirmation, and whoever is told "completed" must be told
  the truth.
* *Everything is retried.* Tools retry with one key, the ledger client retries a
  timed-out call while the first attempt may still be running, users have two
  tabs. A retry must get the first answer.
* *Checks and effects are separate statements.* Daily limits, balances, active
  authentication attempts, aliases and card limits are read in one statement
  and relied on in a later one.
* *The ledger computes balances in Python.* Balances read outside the write
  transaction are written back inside it.
* *The Agent and the Backend each keep half of a conversation's state*, in
  memory and in PostgreSQL, joined by calls and webhooks that may be late, lost
  or repeated. A graph must be started once, every pause shown and answered
  once, and a turn must not stop without anybody being told.
* *A conversation goes back.* A change, a correction and a cancelled change each
  return to another step with another part of the collected data erased. What
  is executed in the end must be what was approved last.
* *Streams are replayed* from positions the browser remembers. No event may be
  missing, repeated or out of order, and a turn that ended must be seen to end.

`PROJECT.json` lists each of these places as a hazard, at its line, with the
properties that cover it.

## 2. The modules

| Module | What it is |
|---|---|
| `TransferExecution` | Prepare, decisions, authentication and Execute, with the ledger as seen from the Backend |
| `MCTransferExecution` | its instances |
| `TransferExecutionProofs` | its inductive invariants and seven theorems |
| `TransferJournal` | abstract: what the ledger promises a client that retries |
| `LedgerService` | `crud.transfer`, one step per SQL statement, served by several threads |
| `MCLedgerService` | its instances |
| `DailyClosing` | `LedgerService` together with the end-of-day batch |
| `MCDailyClosing` | its instances |
| `LedgerProofs` | both: the refinement of `TransferJournal`, the one-thread agreement, days closed once, sums and watermarks |
| `CardAccount` | abstract: what deferred settlement promises the owner of an account and its cards |
| `CardLedger` | `crud.charge_card` and `crud.settle_card`, one step per SQL statement, served by several threads |
| `MCCardLedger` | its instances |
| `CardLedgerProofs` | types, one charge per key, no charge forgotten, the overshoot, the refinement of `CardAccount` |
| `SettingChange` | default account and alias: Prepare, decision and Execute by several handlers |
| `MCSettingChange` | its instances |
| `SettingChangeProofs` | types and the six properties of its run |
| `ExecutionContract` | abstract: what the Agent promises a Backend that repeats its calls |
| `AgentRuntime` | the execution records of the Agent, start, resume, the background job, restarts |
| `Conversation` | `AgentRuntime` with the Backend that calls it and takes its webhooks, over a network that fails |
| `ConversationProofs` | the invariants of both, the refinement of `ExecutionContract`, pauses shown and answered once |
| `WorkflowGraphs` | the eight graphs of the Agent: their edges by route, their resets, their slots |
| `Workflow` | what the steps of the graphs do, with the user and the Backend Tools they depend on |
| `MCWorkflow` | its instances |
| `WorkflowProofs` | the run stays in its graph, and the five invariants of its run |
| `EventStream` | publishers, Redis stream, relay, tickets and the reconnecting hook of the browser |
| `EventStreamProofs` | its types, `ShownInOrder` and `DoneMeansThisTurnEnded` |
| `Sums` | lemmas about sums over finite sets and greatest numbers, for the proofs about limits, debits and closings |

How they fit together: `Workflow` is what happens inside a run of a graph, between
two pauses and across them; `Conversation` is how runs are started, paused and
resumed from the other side of the network; `EventStream` is how what they publish
reaches the user. `TransferExecution` and `SettingChange` are what the tool calls
of a workflow do in the Backend when several of them run together, and
`LedgerService`, `CardLedger` and `DailyClosing` what the calls of the Backend do in
the ledger. `DailyClosing` extends `LedgerService` and `Conversation` extends
`AgentRuntime`, with the actions of the extended module inside those of the other.

### TransferExecution

One variable per table column that matters: `status`, `fixed`, `approvedAt` and
`overdue` are the confirmation row; `auth`, `verifiedAt`, `authOverdue` the auth
context; `idempotency` the record of each key; `audit` counts the completion
events. A handler is a coroutine of some Backend process: `execute[r]` and
`channel[h]` hold the point it has reached and its local variables, and each
action is the code between two `await`s that other handlers can observe, that is
one committed statement, one SELECT whose result is used later, or one call to
the ledger. `ExecuteFails` and `ChannelFails` let a handler die at any point; an exception
raised by a check (an unapproved confirmation, a foreign authentication attempt)
has exactly that effect, so those checks are guards and the exception is
`ExecuteFails`. Time-to-lives elapse in `ConfirmationExpires` and `AuthExpires`.

The ledger client's three attempts, each of which may be lost, late or repeated,
are the set `sent`: a request once sent can be served at any later time, once or
several times, and `LedgerAnswers` lets the handler continue only when a
transaction exists under its key, which is what a 201 reply, first or replayed, means.
`serving[w]` is a ledger thread: `LedgerReads`, `LedgerPosts` and `LedgerFails` are
`crud.transfer` in two steps, between which other threads book (`LedgerService` has
all of its steps). `posted` is the sequence of bookings, a row for each commit, and
only the unique index on the key (`InsertAllowed`) keeps a key from having two.

Left out: the ownership checks and scopes of the request's context (every
handler here works for one user), the request hash of the idempotency record,
days (all transfers are of one day, the worst case for the limit), `account.active` (no code ever
clears it), the wording of corrections.

### LedgerService and TransferJournal

`handler[h]` is a thread in `crud.transfer`. `FindKey`, `ReadSender`,
`ReadReceiver` are its three SELECTs, which open no SQLite transaction; `Write` is
the write transaction, from the first INSERT, which takes the lock, to the
commit. After it `SumSenderCredits`, `SumSenderDebits`, `SumReceiverCredits` and
`SumReceiverDebits` are the four SELECTs of the two calls of `_get_balance`, and
`CompareSender`, `CompareReceiver` the assertions on the stored columns. `Fail` is a
locked database or the end of the process. `credits` and `debits` are the sums of the
entries of each account, which `_get_balance` reads one after the other; `balance` is
the stored column.

`TransferJournal` is the promise: one booking per key, never altered, and an
answer that reports a booking or a conflict is true. `LedgerService` implements
it with `journal <- transactions` (`KeepsJournal`).

Left out: the audit rows of failed requests, running balances, other operations
on the same accounts (settlement), which `CardLedger` has.

### DailyClosing

`ledger` is the table of entries in the order of their commits, derived from what a
step of `LedgerService` books (`TransferStep`, `NewEntries`), after the opening
deposits in any order; `closings[d]` is the table of the snapshots of a day, with a
row per account. The sums are over sets of rows (`RowsOf`, `SumOf`). `closer[b]` is a batch in
`run_daily_closing`: `FindClosing`, `SumCredit`, `SumDebit` and `LastRow` are the four
SELECTs for each account, `CommitClosing` the single commit at the end. The sessions
of the service do not flush by themselves, so that a batch holds no lock until
then, and whatever transfers commit between two of its SELECTs is in the one and
not in the other. `ClosingFails` is a batch that dies or meets a locked database.

### CardLedger and CardAccount

`charges` is the table of card charges in the order of their commits, so that the
index of a row is its rowid; `settlements` are the transactions tagged
CARD_SETTLEMENT. A thread that charges passes `FindKey`, `ReadChargeWatermark`,
`JudgeLimit` and `RecordCharge`; one that settles passes `ReadSettleWatermark`,
`ReadNewest`, `ReadUsage`, `ReadBalance` and `Debit`. The last action of each is the
write transaction with its unique index, the others are single SELECTs.

`CardAccount` is the promise with atomic operations: `usage` per card, limited, and
a settlement that takes all of it from the balance. `CardLedger` implements it with
`usage` as the charges above the watermark (`ActsAsAccount`), but only as long as
requests are served one at a time; interleaved requests depart from it (section 3).
What remains
true under interleaving is `ChargedOnce`, `NoChargeForgotten` (settlements may take
a charge twice but never miss one) and `OvershootBounded`.

Left out: the analytics views, audit rows, cards and accounts that do not exist,
transfers of the same account (their balance reads and writes are those of
`LedgerService`).

### SettingChange

`active`, `isDefault` and `alias` are the columns of the account rows, `execute[r]` an
Execute handler of either setting. `WriteAlias` is one committed UPDATE;
`FindDefault`, `ClearDefault` and `SetDefault` are the two UPDATEs of
`set_default_account` under READ COMMITTED: the rows the first one matches are
those of its snapshot, it waits for other writers of these rows and looks at them
again, and the rows it has written stay locked until the commit. The unique index
that `models/account.py` declares is created by one migration and dropped by its
successor, so the model has none. A handler may die after every step
(`ExecuteFails`), an account may be deactivated and a confirmation expire between
any two.

### AgentRuntime, ExecutionContract and Conversation

`record[k]` is the execution record of a thread, `queued` the accepted requests whose
background task has not run yet, and `job[k]` what the task of a thread is doing;
`Begin` takes a request up if the record still allows it (`CanBegin`: `run_accepted`
and `run_accepted_resume` check what they find). `AcceptStart`, `Validate` and `AcceptResume` are the request handlers of the
Agent, cut where they await (`accept_resume` reads the checkpoint between its two
locks), and the `Graph...` actions what `_finish_invocation` does with the result of a
run. `Restart` empties the memory. `ExecutionContract` is the promise behind it: a
thread runs, pauses, is answered by a request that is used once, and ends. The
request was checked for this thread, while it was at the pause the request names;
but the second lock of `accept_resume` compares no identifier, so that the request
may be used at a later pause (section 3), and the contract does not promise more.
`AgentRuntime` implements it for requests that come from anywhere.

`Conversation` adds the Backend. `call` is the state of each start and resume: the
attempts made, the copies that may still arrive, the reply. `row[p]` is the pending
input or the confirmation of a pause, `hooks` the webhooks the Backend is handling,
`posting[k]` the one a job awaits. Each handler of `chat_service` and `webhook_api` is
cut at its commits and calls; `CancelActiveInputs` and `CreatePendingInput` are the
two commits of `register_pending_input`. A timeout leaves open whether the request
or its reply is lost and whether the receiver is still working on it. A submission is
an answer of its own, whatever its value; of the value the model keeps whether it
goes on, cancels, or cancels an input the workflow may return to the approval from
(`Choices`), because `resume_after_input` closes the stream for the second and, once
there is a confirmation, not for the third (`CancelCloses`).

### WorkflowGraphs and Workflow

`WorkflowGraphs` has, for each of the eight workflows, a function from step and
route to the next step, as the `build_..._graph` functions declare it. In `Workflow`
a step of a graph is atomic, since LangGraph commits a checkpoint after each. What
the steps have in common is one action with the slot as parameter (`Resolve`,
`Select`, `CancelInput`, `Reset`), so that the actions for the transfers, the settings
and the queries differ by their graph and by conditions on `kind`. `Prepare` and
`Execute` judge the request as the Backend does; `Approve`, `CancelApproval`,
`RequestChange`, `CancelInput` and `Authenticate` are what `chat_service` writes,
publishes and passes on to the waiting step. `keys` and `replayed` record the
idempotency keys the run has sent.

Left out: how a slot is found in a text (a hint is a set of accounts it may
match), candidates beyond the first page, the wording.

### EventStream

`stream` is the Redis stream of one session, `relay` the generator of the open
connection with its `last_id`, `wire` what it has sent and the browser has not
handled, `client` the hook: `at` is its status (and the callback it waits for),
`cursor` is `lastEventIdRef`, `retries` is `retryRef`. A message is sent by a call
(`SendMessage`) that the Agent takes up or not (`Accept`), whatever becomes of the call:
it is answered and the hook started for this turn (`Start`), or it fails, the bubble
fails with it, the hook is not started and the user may go on (`SendFails`,
`useChatRuntime.ts:182-190`). A turn the Agent has although its call failed is an orphan
(`Orphans`). A session begins with its first successful call, because only that tells
the browser the session (`useChatRuntime.ts:179`). `Fault` is a ticket request that
fails, a ticket that has run out, or a connection that breaks with everything in
flight. An event named `error` is also what `onerror` of the EventSource listens to
(`Receive`).

Left out: trimming and time-to-live of the stream (far above what a session
writes), rate limits, comments, several browsers (each has a relay and a cursor
of its own, and relays only read).

## 3. What the runs show

| Run | Instance | Result |
|---|---|---|
| `execute_same_confirmation` | one confirmation, three keys, one attempt, two Execute handlers, two decision handlers, two ledger threads | `MovedAtMostOnce`, `CompletionMeansMoved`, `AuditedOncePerDecider`, `AnswerIsFinal` hold |
| `execute_competing` | two confirmations for one balance, all pairings of key, attempt and confirmation, attempts that expire, two ledger threads | `TypeOK` (the stored balance column stays a natural number), `MovedOnlyWhenAuthorised` hold |
| `execute_daily_limit` | three approved transfers, two handlers, amounts 1 and 2, limit 2 | `DailyOvershootBounded` holds |
| `ledger_sequential` | one transfer thread, two keys, transfers there and back; two batches closing one day | `NoDriftWhenSequential`, `ClosingOfThisBatch`, `WatermarkCoversTheSums`, `ClosedOnceForAll` hold |
| `ledger_concurrent` | two threads, two keys, transfers in both directions, refused and conflicting ones | `TypeOK` (the stored column, not the sum of the entries), `KeepsJournal` hold |
| `cards_sequential` | one thread, two cards, four keys, amounts 1 and 2 | `ActsAsAccount` holds: with failures anywhere, charges and settlements are atomic ones |
| `cards_concurrent` | two threads, two cards, three keys, amounts 1 and 2 | `TypeOK`, `ChargedOnce`, `NoChargeForgotten`, `OvershootBounded` hold |
| `settings_two_handlers` | three accounts, one alias, three confirmations, two handlers | `DefaultsFromRacersOnly`, `NamesSharedByRacersOnly`, `ChangedAsApproved`, `ReappliedOnlyAfterCrash`, `AuditedOnceWhenChanged`, `DefaultKept` hold |
| `conversation_faults` | one turn, two pauses, two submissions (also to one pause), two attempts per call and webhook, any two faults, one restart | `RuntimeTypeOK`, `ShownOnce`, `AnsweredOnce`, `KeepsContract`, `RuntimeSettles`, `TurnGoesOn` hold |
| `workflow_turn` | one turn of each workflow, one account or three, two Prepares and two authentications of free choice, one account closed elsewhere | `FreshKeys`, `ApprovalIsLive`, `ExecutesWhatWasApproved`, `PrepareHasEverySlot`, `CancelledBeforeApprovalCloses`, `RunPausesOrEnds` hold |
| `event_stream` | three turns, one event before the end of each, one retry, two faults (lost connections, refused tickets, failed calls), one end published twice | `ShownInOrder`, `DoneMeansThisTurnEnded`, `EndIsSeen`, `DoneComesToRest` hold |
| `settings_two_defaults` | two confirmations of a default account, two handlers | `AtMostOneDefault` **fails**: both handlers clear the old default, and each sets its own |

### Bounds

Two concurrent handlers are enough for every race between two requests, and the
handlers of an instance are reused, so that a third request follows a finished or
dead one; in `CardLedger` three charges are the fewest with which two settlements
and a limit reached in between occur together; three confirmations are the fewest
with which the daily limit is passed by two handlers after a first transfer has
been counted. Two keys allow both the retry with the same key and a fresh one.
Amounts and balances are chosen so that the balance suffices for one transfer
only. `execute_competing` has one decision handler, and confirmations whose time-to-live does
not elapse (`LastingSpec`; those of the attempts do), to keep two of them tractable;
decisions race and everything expires in `execute_same_confirmation`.
`execute_daily_limit` starts from approved and authenticated confirmations
(`ApprovedInit`), a state Prepare and the user can reach, since Prepare judges every
request before any is executed.

`DailyClosing`: one transfer thread, because what two of them do to balances is the
subject of `ledger_concurrent`, and the entries a batch reads do not depend on
balances; two transfers there and back are enough to put one between any two
reads of a batch and to let a balance return to what it was. `SettingChange`: three
Execute calls (`MaxCalls`) allow a race and a later call, `MaxUpsets` is one expiry or
deactivation. `Conversation`: one start request (two concurrent turns of one
session are excluded, see below), two faults (`MaxFaults`) anywhere, which exhaust
the attempts of a call or a webhook (`Copies`, `MaxHooks`) or put a restart beside a
loss; a thread pauses up to twice. `Workflow`: after `MaxPrepare` Prepares, and
`MaxAuth` authentications of one confirmation, the user is given no more choices that
lead to another; accounts are closed at most once (`MaxClosures`); amounts are 0, the
limit `MaxSingle` of one and one above it. `PrepareCap` stops a run that would prepare
for ever and is never reached (section 4). `EventStream`: three turns are needed for a cursor left
behind by one turn to meet the ends of two later ones; two faults are what it takes
to exhaust the one retry (`MaxRetries`), to break two turns once each, or to fail a call
and break the turn after it.

Deadlock is not checked in the runs of `TransferExecution`, `SettingChange`,
`Conversation`, `Workflow` and `EventStream`: identifiers, keys and turns are used up
and everybody may be done. It is checked in those of the ledger.

### Fairness

Liveness is stated where the code's schedulers justify it. `Workflow`: `WF(Run)`,
because LangGraph runs on until the next interrupt and every tool call of the
Agent's client answers or times out. `Conversation`: `WF(Progress)`, because event
loops run what is ready, a background task that was accepted is run, handlers in
progress end, and what is not lost arrives. `EventStream`: weak fairness of each step
of the relay and of the hook (timers fire), and of `Start \/ SendFails`, because a call
ends in one way or the other; that the hook is started is not assumed. Nothing is assumed of the user, who may
never answer or send again, of the Agent in `EventStream`, or of faults, which need
not happen and may happen at the worst moment.

### What the properties exclude

Some properties hold only with an exception, which is part of their statement and
is a behaviour of the code that the model has, too.

* `TurnGoesOn` lists the ways a turn ends with nothing on the stream (`GivenUp`): the
  Agent restarted, since `_records` is in memory (`execution.py:170`); the last webhook failed
  in every attempt (`webhook_events.py`); or an answer was used up in the Backend whose
  resume the Agent refused or never got. It refuses with 409 when the answer comes
  before the pause is marked waiting (`execution.py:436`), although
  `webhook_api.py:74-75` reckons with an immediate answer, and the Backend itself refuses when
  the thread id of the turn is not stored yet (`chat_service.py:129`). Or such an answer,
  refused in the eyes of the Backend, has overtaken another one and resumed the run
  at a later pause (`Overtaken`, below). Or a cancelled re-entry was not closed by the
  Backend, since a confirmation exists, and the run ended instead of returning to the
  approval (`chat_service.py:257`). Two decisions on
  one confirmation, from two tabs, may differ, and the Agent goes on with the one
  that arrives first. A stream may also be closed while the run goes on, and a
  pause be shown after its turn has ended, when a timeout hides that the
  other side was still working.
* With two concurrent turns of one session, which no code refuses, the two commits
  of `register_pending_input` can leave two active inputs. The instance has one turn.
* `DoneMeansThisTurnEnded` and `EndIsSeen` except three kinds of session: one whose hook
  has given up; one in which a terminal event was published twice (a `done` whose
  reply was lost is sent again, `completion_reporting.py:10`; a cancelled run may be
  closed by Backend and Agent both); and one with an orphan, a turn the Agent has taken
  though its call failed in the browser (`useChatRuntime.ts:182-190`), for which no
  connection is opened and whose end the next turn's relay delivers first. From then on
  every turn stops at the terminal event of the turn before it (`sse_service.py:73`), and
  the hook shows it done before it is. A failed call of a turn that the Agent never takes
  does no harm, and is not excepted.
* `DoneComesToRest` is about turns that end with `done`. After an event named `error`
  the browser calls `onerror` as well (`useAgentStream.ts:172`), which reconnects behind
  the event just received; the new relay waits there, and the turn is shown as
  running although `sse_service.py:30` says that error ends the stream like done. The
  same happens after `blocked` when the connection breaks before the sentinel.
* `CancelledBeforeApprovalCloses` ends at the first confirmation. After it the Backend
  publishes no `done` for a cancelled account selection (`chat_service.py:257`),
  because a transfer may return to its confirmation; a setting change has no such
  path (`set_default_account.py:168-174`), nor has a transfer whose correction erased the
  value, so that the run ends and the stream stays open. The comment at
  `chat_service.py:71-72` says that only steps with such a path are listed.
* `DefaultsFromRacersOnly`, `NamesSharedByRacersOnly` and `ReappliedOnlyAfterCrash` bound
  what a race or a crash can do: two accounts may get one alias, and after a crash
  before the mark an old confirmation can be executed again over a newer choice.
* `ClosingOfThisBatch` bounds the sums of a snapshot, not their difference: credits
  read before a transfer and debits read after it give a closing balance the
  account never had.

### Departures without a run

The same models show what follows, for which no run is kept, because it is a
consequence of the above or because one sentence says as much as a trace.

* An Execute handler that raises leaves its idempotency key IN_PROGRESS for good
  (`idempotency_service.py:84`); the comment there promises a retry.
* `set_confirmation_status` writes a decision unconditionally
  (`confirmation_repository.py:108`): with two tabs, an EXECUTED or INVALIDATED
  confirmation becomes APPROVED again. `MovedAtMostOnce` holds nevertheless.
* A second Execute that judges after the first has moved the money answers
  correction_required (`transfer_service.py:285`).
* An Execute handler that dies after the ledger call leaves the money outside the
  daily sum, and one that dies after the mark leaves no audit event.
* Concurrent transfers overwrite each other's stored balances (`crud.py:322`), although
  `ledger-schema.md:136` says drift is always 0; two settlements of one account lose a
  debit in the same way.
* A charge committed between two reads of `settle_card` (`crud.py:657`) is settled twice,
  and two charges judged together pass the card limit.
* A charge whose key was used for another card or amount is answered with the first
  charge, although the README of the ledger service (line 181) announces a conflict.
* An external transfer that is prepared again after a change is refused, since the first
  Prepare consumed the recipient candidate (`transfer_service.py:453`); the turn ends in
  an error instead of the new confirmation `external_transfer.py:184-187` describes.
* An answer can be used at a later pause than its own. Two requests for one pause pass the
  first check of `accept_resume`; one is accepted, the run goes on to its next pause and
  waits again; then the other passes the second lock, which asks only whether the record
  waits (`execution.py:312-334`), although the docstring of `accept_resume` says the
  current pending answer is validated and one request accepted. What it takes is a
  checkpoint read slower than a stretch of the graph with a webhook round trip. The
  checkpoints are in memory (`MemorySaver`, `application_runtime.py:92`), so this is not
  expected of the program as configured, and no finding is made of it; the contract, the
  proofs and `TurnGoesOn` allow for it.
* A start that is repeated across a restart of the Agent runs its message twice.

## 4. What is proved

All theorems hold for every value of the constants that satisfies the named
assumption of its module (`ConstantsAssumption`, `LedgerAssumption`, `CardAssumption`,
...); no other assumption is made. What these say beyond the types: `None` is no
identifier; start and resume requests have identifiers of their own
(`Starts \cap Resumes = {}`, since `chat_service.py:61-63` makes a new one for every call); handlers,
channels and threads are finitely many and, where a bound counts them, at least
one; card amounts are from a finite set; a user has finitely many accounts.

**Transfers.** `TransferExecutionProofs` proves one inductive invariant `Inv`, whose
parts are:

* `Typed`, the types of the variables, and that every handler, record and
  request refers to a confirmation that exists (`Referenced`);
* `Funded`: a ledger handler has read at least the amount it is going to move,
  which is why the balance column never becomes negative even if it has changed since
  (the sum of the bookings may: two threads that read one balance both book);
* `History`: an approved status implies `approved_at`, a verified attempt
  `verified_at`, and both are never erased, though statuses may be overwritten;
* `Checked`: a handler past the check of the confirmation works for an approved
  one, past that of the attempt for a verified one of the same confirmation;
* `Requests`: requests on the wire and posted transactions carry the
  confirmation as their key and were authorised;
* `BookedOnce`: no two bookings have one key, which every booking asks the unique index;
* `Ownership`: an IN_PROGRESS key has at most one handler past its claim, and a COMPLETED one none;
* `Reported`: statuses, audit events, answers and handlers past the ledger call
  have their transaction.

The theorems `TypeCorrect`, `AtMostOnce`, `OnlyWhenAuthorised`,
`CompletionIsTrue` and `StoredAnswerIsFinal` follow. `AtMostOnce` combines
`Requests` (one ledger key per confirmation) with `BookedOnce`; either alone would
not do, as the two mutants of its property show; `StoredAnswerIsFinal` on `Ownership`. Two more need an invariant of their own:

* `CompletionsWithinDecisions`: a decision may reopen an executed confirmation, since it
  is written without looking again, so that a confirmation can have several
  completion events when decisions race. `Budgeted` adds up, per confirmation, the
  events written, the handlers that have won the update and still have to write, the
  approval not yet used and the decision handlers that have read PENDING: never more
  than there are decision handlers. Winning the update trades an approval for an event,
  writing a decision trades a reader for an approval, and nobody reads PENDING any more
  once the row is decided. With one decision at a time the bound is one event.
* `TransferOvershootBounded`: the executed amount says nothing of the handlers that
  have passed the limit check. `Limited` bounds the sum of both by the limit and one
  greatest transfer for each handler but one: the check is passed by a handler that
  finds room for itself, whatever the others are about to add.

**Ledger.** `LedgerProofs` proves types and a non-negative balance column (`TypeCorrect`)
from what a thread has established at each step (`Prepared`, `Written`); that
every step is a step of `TransferJournal` or a stutter (`JournalKept`); and, with
an invariant that says a lone thread's readings are still current (`Current`),
that one thread at a time keeps balances and entries equal (`SequentialAgrees`).

**Daily closing.** `LedgerProofs` then shows that batches leave the ledger
alone (`ClosingRunsTheLedger`), so that the results above hold beside them
(`SequentialAgreesWhileClosing`). `DayClosedOnceForAll` needs that, of every account, a batch
has found a snapshot, made one or still has it to look up (`Covers`): two batches
see the accounts at different times, and it is the primary key that makes the one
fail which found part of a day open that another has closed. `SnapshotsOfTheirBatch` and
`WatermarksCover` rest on rows being only added: a sum read at some moment of the
batch lies between the sums of its start and of now (`Between`), and the last
rowid, read after both sums, lies above everything summed (`Marked`).

**Cards.** `CardLedgerProofs` rests on one observation: a thread works with what it
has read, and can only be behind, since watermarks never go down and a recorded
charge stays. Hence a debit pays at least what its watermark passes
(`SettlementForgetsNoCharge`), and covers what it writes (`CardTypeCorrect`). `RetriesChargeOnce` needs
only the unique index. `LimitOvershootBounded` is the argument of the transfer limit: the
unsettled charges together with those judged and not recorded stay within the
limit and one greatest charge for each thread but one. A thread that is alone is
not behind at all (`AloneInv`), and then every step is one of `CardAccount` or a stutter
(`ServedAloneActsAsAccount`, for one thread, as in the run).

**Settings.** `SettingChangeProofs` proves all properties of its run. `SettingsChangedAsApproved` needs
that confirmations keep what they fixed and that approval, once given, is on
record; `SettingAuditedOnce` that the handler which has marked a confirmation is the only one
to report it (`Audits`). Three arguments count. A handler that has looked and not written yet has one
write to make, and what it has not seen was written by others meanwhile. So for every
set of such handlers, what they leave alone and their own number stay together within the number of
handlers: `DefaultsCounted` and `NamesCounted` say so of the defaults and of the accounts of a
name, and give `DefaultsBoundedByHandlers` and `NamesBoundedByHandlers` for the empty set.
`ChangesCounted` gives `ReappliedByRacesAndCrashes`: every application that did not end in a crash
has its handler, which will not apply the confirmation again.
`DefaultNeverLost` is about the commits of `set_default_account`.

**Conversation.** `ConversationProofs` has the invariant of the runtime: the run of a
thread is where its record says, and a record accepted or running without a run has a
scheduled request that can begin one (`RuntimeTypeOK`); a record knows only requests
made for its thread, and an accepted resume that has not begun is all its thread does
(`Own`, `Active`); what is scheduled has a thread, what is validated was asked (`Scheduled`).
Without `Own` a replayed request might count for another thread; without `Active`
the active request could be begun beside a run. `ContractKept` maps each action to one of
the contract's or to a stutter. Then every step of the conversation is one of the runtime or leaves the
Agent alone (`RunsTheRuntime`), hence `ConversationKeepsContract`. `PausesShownOnce` and `PausesAnsweredOnce` need
an invariant over both sides (`CInv`): pauses are numbered, what has a row or is shown is
a pause that its thread has come to (`Reached`), a pause has one webhook, before
whose steps there is neither row nor event (`OneHook`), and a submission that has
led to a request has closed the row it answers, a pending input for itself alone
(`Answered`, `ConsumedOnce`).

**Event stream.** `EventStreamProofs` shows `EventsShownInOrder`: what the hook has received, what is in
flight and what the relay is going to read are consecutive pieces of the stream,
and a reconnection starts where the hook has stopped. `DoneIsOfThisTurn` needs, in addition,
that a turn ends once (`EndsOnce`) and that the user goes on only when the hook has
seen the end of the turn before (`TurnByTurn`): every turn sent is accepted, failed or
being sent, and the accepted ones other than the current one and the one being sent
have been seen to their end. So the next end beyond the cursor is that of the current
turn, as long as no end was published twice, the hook has not given up and there is
no orphan; calls that failed are harmless when the Agent never took their turns.

**Workflows.** `WorkflowProofs` proves the five invariants of `Workflow`, for any accounts,
recipients, limits and bounds. It first opens the eight graphs, once: one lemma per kind
of step says where its routes lead in each workflow. From these follows one lemma per
action, its *move*, that says which steps it goes between and what it does to the slots;
the rest of the proof sees the graphs almost only through the moves. `StaysInItsGraph` says that the routes
the steps return are all in the graph. The inductive invariant `IInv` has these parts:

* `Collected`, for `PreparesComplete`: a workflow collects its slots in an order (`Rank`),
  and at every step those before it are filled in. That alone is not kept by a
  cancelled change, which goes back to the step before Prepare when a value was
  kept. So the invariant adds that slots behind the step are filled in from some
  slot on: the value a reset keeps is never in front of one it erased.
* `Lives`, for `ApprovalAlwaysLive` and `ExecutesTheApproved`: from the approval screen to Execute, the run
  holds the newest confirmation, whose status goes with the step and which fixes the
  present slots; at Execute the authentication is one of this confirmation, verified and
  perhaps expired since. `ReturnStep` matters here: a change that is given up prepares again,
  because the confirmation it started from is spent.
* `OldKeys`, for `KeysAlwaysFresh`: keys used name Prepares up to the counter, and confirmations up
  to the newest with attempts up to theirs; a step that is about to use one has counted beyond
  them. The reset steps may clear the attempt counter only because the
  confirmation is cleared with it (`NoneBefore`), and is never taken up again.
* `TransferCount`, `SettingCount` and `Accounts`, also for `KeysAlwaysFresh`: the bound
  `PrepareCap` on the counter is never reached. In a transfer, every further Prepare
  has an answer of the user before it. A correction of a setting may prepare again
  without the user, but only because an account was lost: the Prepares beyond
  `MaxPrepare` are no more than the accounts closed, and fewer while the run is on a
  lost one.

`CancellingCloses` is separate and short (`CancelledCloses`): it needs only that the Backend decides to
close the stream of a cancelled input when there is no confirmation.

**Sums.** `MapThenSumSet` is recursive, and its value is fixed only through a CHOOSE of
the next element. `Sums` proves what the modules above use: the sum exists and does
not depend on the order, it grows by the value of an added element, it is bounded
by the number of elements. The library's induction over finite sets takes an
operator as a parameter; the lemmas reach the same end with a set of subsets in its
place and a least counterexample (`SubsetInduction`).

### Only model-checked

* Liveness, which is out of the prover's reach: `RunPausesOrEnds`, `RuntimeSettles`, `TurnGoesOn`,
  `EndIsSeen`, `DoneComesToRest`.
* The counterexample `AtMostOneDefault`.

Every safety invariant and every action property that a run checks is stated by a theorem.

## 5. Plan

1. `Workflow` composed with `Conversation`: that what the user answers at a pause is what the step waits
   for, over a network that repeats answers. Each is proved for itself; their composition is only argued here.
2. `SettingChange` and `TransferExecution` as the tools of `Workflow`: that a sequence of Prepare, decision and Execute
   of one run is one of theirs.
3. Expiry of pending inputs and two turns of one session at a time in `Conversation`.

## 6. Not modelled

Routing, intent gate, guardrails and the extraction of slots (functions of one text,
partly of a language model); execution contexts, chat sessions, users and
provisioning (rows created once and looked up; every model assumes that ownership is
checked); read-only APIs with their paging; the mock Agent and fixtures; presentation in
the browser; deployment, dashboards, notebooks, spreadsheets and red-team material,
which make up most of the lines of the repository and have no state of the program.
The dead-letter stream is written and logged, and nothing reads it back. Within the
modelled parts, what is left out stands with each module in section 2 and with each
component in `PROJECT.json`.
