---------------------------- MODULE WorkflowProofs ----------------------------
(***************************************************************************)
(* Proofs about Workflow, for every set of workflows and accounts and      *)
(* every bound: the run stays in its graph, Prepare is sent complete       *)
(* values, what is on the approval screen is what the Backend holds and    *)
(* what Execute names, every call has an idempotency key of its own, and a *)
(* cancelled run closes its stream.                                        *)
(*                                                                         *)
(* The graphs come first: one lemma per kind of step says where its routes *)
(* lead in each workflow.  On them rests one lemma per action, its move,   *)
(* that says between which steps it goes and what it does to the slots.    *)
(* Each part of the invariant is then shown to survive the moves.          *)
(***************************************************************************)
EXTENDS Workflow, FiniteSetTheorems, TLAPS

\* The workflows by name, and those with a Prepare.
Named == Transfers \cup Settings \cup Queries

Guided == Transfers \cup Settings

-----------------------------------------------------------------------------
(* The graphs: where the routes of the steps lead *)

\* The step after the one that gives slot s of a workflow its value.
After ==
  [internal |-> [from |-> "resolve_to", to |-> "check_amount", amount |-> "check_amount"],
   external |-> [recipient |-> "resolve_from", from |-> "check_amount", amount |-> "check_amount"],
   default  |-> [account |-> "start_prepare"],
   alias    |-> [account |-> "check_alias", alias |-> "start_prepare"],
   balance  |-> [account |-> "query"],
   history  |-> [account |-> "check_period", period |-> "query"],
   summary  |-> [account |-> "check_period", period |-> "check_type", type |-> "query"]]

\* The first step after the extraction, and the one after a reset.
First ==
  [internal |-> "resolve_from", external |-> "request_recipient", default |-> "resolve_account",
   alias |-> "resolve_account", list |-> "query", balance |-> "resolve_account",
   history |-> "resolve_account", summary |-> "resolve_account"]

Again == [from |-> "resolve_from", to |-> "resolve_to", amount |-> "request_amount",
          recipient |-> "request_recipient", account |-> "resolve_account",
          alias |-> "request_alias"]

TailSteps == {"start_prepare", "prepare", "approval", "route_correction", "request_correction",
              "start_auth", "create_auth", "request_auth", "request_retry", "execute",
              "emit_result", "emit_blocked", "emit_error"}

LEMMA TailDomain == DOMAIN TransferTail = TailSteps
BY DEF TransferTail, TailSteps, Emit, ++

LEMMA SharedTail ==
  ASSUME NEW k \in Transfers, NEW st \in TailSteps
  PROVE  Graph[k][st] = TransferTail[st]
<1>1. CASE k = "internal"
  BY <1>1, TailDomain DEF Graph, InternalTransfer, Emit, ++, TailSteps
<1>2. CASE k = "external"
  BY <1>2, TailDomain DEF Graph, ExternalTransfer, Emit, ++, TailSteps
<1> QED
  BY <1>1, <1>2 DEF Transfers

LEMMA ExtractEdges ==
  ASSUME NEW k \in Named
  PROVE  /\ Graph[k]["extract"]["extracted"] = First[k]
         /\ k = "external" => Graph[k]["extract"]["hinted"] = "resolve_hint"
<1>1. CASE k = "internal"
  BY <1>1 DEF Graph, InternalTransfer, Emit, ++, First
<1>2. CASE k = "external"
  BY <1>2 DEF Graph, ExternalTransfer, Emit, ++, First
<1>3. CASE k \in Settings
  BY <1>3 DEF Graph, DefaultAccount, AccountAlias, Emit, ++, First, Settings
<1>4. CASE k \in {"list", "balance"}
  BY <1>4 DEF Graph, AccountList, BalanceInquiry, Emit, ++, First
<1>5. CASE k \in {"history", "summary"}
  BY <1>5 DEF Graph, TransactionHistory, PeriodAmountSummary, BalanceInquiry, Emit, ++, First
<1> QED
  BY <1>1, <1>2, <1>3, <1>4, <1>5 DEF Named, Transfers, Settings, Queries

LEMMA ResolveEdges ==
  ASSUME NEW k \in Named, NEW s \in Slots[k] \cap AccountSlots
  PROVE  LET edges == Graph[k][ResolveStep[s]] IN
         /\ edges["resolved"] = After[k][s]
         /\ edges["selection_required"] = RequestStep[s]
         /\ edges["no_accounts"] = "emit_empty"
         /\ edges["error"] = "emit_error"
<1> USE DEF Graph, Emit, ++, After, ResolveStep, RequestStep, Steps, Slots, AccountSlots
<1>1. CASE k = "internal"
  BY <1>1 DEF InternalTransfer
<1>2. CASE k = "external"
  BY <1>2 DEF ExternalTransfer
<1>3. CASE k \in Settings
  BY <1>3 DEF DefaultAccount, AccountAlias, Settings
<1>4. CASE k \in {"list", "balance"}
  BY <1>4 DEF BalanceInquiry
<1>5. CASE k = "history"
  BY <1>5 DEF TransactionHistory, BalanceInquiry
<1>6. CASE k = "summary"
  BY <1>6 DEF PeriodAmountSummary, TransactionHistory, BalanceInquiry
<1> QED
  BY <1>1, <1>2, <1>3, <1>4, <1>5, <1>6 DEF Named, Transfers, Settings, Queries

LEMMA HintEdges ==
  LET edges == Graph["external"]["resolve_hint"] IN
  /\ edges["resolved"] = "resolve_from"
  /\ edges["selection_required"] = "request_recipient"
  /\ edges["error"] = "emit_error"
BY DEF Graph, ExternalTransfer, Emit, ++

LEMMA AmountEdges ==
  ASSUME NEW k \in Transfers
  PROVE  LET edges == Graph[k]["check_amount"] IN
         /\ edges["valid"] = "start_prepare"
         /\ edges["invalid"] = "request_amount"
         /\ edges["limit_exceeded"] = "emit_blocked"
<1>1. CASE k = "internal"
  BY <1>1 DEF Graph, InternalTransfer, Emit, ++
<1>2. CASE k = "external"
  BY <1>2 DEF Graph, ExternalTransfer, Emit, ++
<1> QED
  BY <1>1, <1>2 DEF Transfers

LEMMA CheckEdges ==
  ASSUME NEW k \in Named, NEW s \in Slots[k] \cap {"alias", "period", "type"}
  PROVE  LET edges == Graph[k][CheckStep[s]] IN
         /\ edges["present"] = After[k][s]
         /\ edges["missing"] = RequestStep[s]
<1> USE DEF Graph, Emit, ++, After, CheckStep, RequestStep, Steps, Slots
<1>1. CASE k = "alias"
  BY <1>1 DEF AccountAlias
<1>2. CASE k = "history"
  BY <1>2 DEF TransactionHistory, BalanceInquiry
<1>3. CASE k = "summary"
  BY <1>3 DEF PeriodAmountSummary, TransactionHistory, BalanceInquiry
<1> QED
  BY <1>1, <1>2, <1>3 DEF Named, Transfers, Settings, Queries

LEMMA RequestEdges ==
  ASSUME NEW k \in Named, NEW s \in Slots[k]
  PROVE  LET edges == Graph[k][RequestStep[s]] IN
         /\ edges["selected"] = After[k][s]
         /\ edges["cancelled"] = End
         /\ k \in Transfers => edges["cancelled_return"] = "start_prepare"
<1> USE DEF Graph, Emit, ++, After, RequestStep, Steps, Slots, ReturnStep, Transfers
<1>1. CASE k = "internal"
  BY <1>1 DEF InternalTransfer
<1>2. CASE k = "external"
  BY <1>2 DEF ExternalTransfer
<1>3. CASE k \in Settings
  BY <1>3 DEF DefaultAccount, AccountAlias, Settings
<1>4. CASE k \in {"list", "balance"}
  BY <1>4 DEF BalanceInquiry
<1>5. CASE k = "history"
  BY <1>5 DEF TransactionHistory, BalanceInquiry
<1>6. CASE k = "summary"
  BY <1>6 DEF TransactionHistory, PeriodAmountSummary, BalanceInquiry
<1> QED
  BY <1>1, <1>2, <1>3, <1>4, <1>5, <1>6 DEF Named, Settings, Queries

LEMMA ResetEdges ==
  ASSUME NEW k \in Named, NEW t \in Slots[k] \cap DOMAIN Resets
  PROVE  k \in Guided => Graph[k][Resets[t]]["always"] = Again[t]
<1> USE DEF Graph, Emit, ++, Again, Resets, Slots, Guided, Settings, Transfers
<1>1. CASE k = "internal"
  BY <1>1 DEF InternalTransfer
<1>2. CASE k = "external"
  BY <1>2 DEF ExternalTransfer
<1>3. CASE k \in Settings
  BY <1>3 DEF DefaultAccount, AccountAlias
<1> QED
  BY <1>1, <1>2, <1>3 DEF Named, Queries

LEMMA TransferEdges ==
  /\ TransferTail["start_prepare"]["always"] = "prepare"
  /\ TransferTail["prepare"]["ready"] = "approval"
  /\ TransferTail["prepare"]["correction"] = "route_correction"
  /\ TransferTail["prepare"]["error"] = "emit_error"
  /\ TransferTail["approval"]["approved"] = "start_auth"
  /\ TransferTail["approval"]["cancelled"] = End
  /\ TransferTail["route_correction"]["valid"] = "request_correction"
  /\ TransferTail["route_correction"]["invalid"] = "emit_error"
  /\ TransferTail["request_correction"]["cancelled"] = End
BY DEF TransferTail, End, Emit, ++

LEMMA AuthEdges ==
  /\ TransferTail["start_auth"]["always"] = "create_auth"
  /\ TransferTail["create_auth"]["authentication_required"] = "request_auth"
  /\ TransferTail["create_auth"]["error"] = "emit_error"
  /\ TransferTail["request_auth"]["verified"] = "execute"
  /\ TransferTail["request_auth"]["retriable"] = "request_retry"
  /\ TransferTail["request_auth"]["cancelled"] = End
  /\ TransferTail["request_retry"]["retry"] = "start_auth"
  /\ TransferTail["request_retry"]["cancelled"] = End
  /\ TransferTail["execute"]["completed"] = "emit_result"
  /\ TransferTail["execute"]["correction"] = "route_correction"
  /\ TransferTail["execute"]["reauthentication"] = "start_auth"
  /\ TransferTail["execute"]["error"] = "emit_error"
BY DEF TransferTail, End, Emit, ++

LEMMA SettingEdges ==
  ASSUME NEW k \in Settings
  PROVE  /\ Graph[k]["start_prepare"]["always"] = "prepare"
         /\ Graph[k]["prepare"]["ready"] = "approval"
         /\ Graph[k]["prepare"]["unchanged"] = "emit_unchanged"
         /\ Graph[k]["prepare"]["error"] = "emit_error"
         /\ Graph[k]["approval"]["approved"] = "execute"
         /\ Graph[k]["approval"]["cancelled"] = End
         /\ Graph[k]["execute"]["completed"] = "emit_result"
         /\ Graph[k]["execute"]["error"] = "emit_error"
<1>1. CASE k = "default"
  BY <1>1 DEF Graph, DefaultAccount, Emit, ++, End
<1>2. CASE k = "alias"
  BY <1>2 DEF Graph, AccountAlias, Emit, ++, End
<1> QED
  BY <1>1, <1>2 DEF Settings

LEMMA QueryEdges ==
  ASSUME NEW k \in Queries
  PROVE  /\ Graph[k]["query"]["succeeded"] = "emit_result"
         /\ Graph[k]["query"]["error"] = "emit_error"
<1>1. CASE k \in {"list", "balance"}
  BY <1>1 DEF Graph, AccountList, BalanceInquiry, Emit, ++
<1>2. CASE k = "history"
  BY <1>2 DEF Graph, TransactionHistory, BalanceInquiry, Emit, ++
<1>3. CASE k = "summary"
  BY <1>3 DEF Graph, PeriodAmountSummary, TransactionHistory, BalanceInquiry, Emit, ++
<1> QED
  BY <1>1, <1>2, <1>3 DEF Queries

QuerySteps == {"extract", "resolve_account", "request_account", "query",
               "emit_empty", "emit_result", "emit_error"}

LEMMA Domains ==
  /\ DOMAIN Graph["internal"] = TailSteps \cup
       {"extract", "resolve_from", "request_from", "resolve_to", "request_to", "check_amount",
        "request_amount", "reset_from", "reset_to", "reset_amount", "emit_empty"}
  /\ DOMAIN Graph["external"] = TailSteps \cup
       {"extract", "resolve_hint", "request_recipient", "resolve_from", "request_from",
        "check_amount", "request_amount", "reset_from", "reset_recipient", "reset_amount",
        "emit_empty"}
  /\ DOMAIN Graph["default"] =
       {"extract", "resolve_account", "request_account", "start_prepare", "prepare", "approval",
        "reset_account", "execute", "emit_empty", "emit_unchanged", "emit_blocked",
        "emit_result", "emit_error"}
  /\ DOMAIN Graph["alias"] = DOMAIN Graph["default"] \cup
       {"check_alias", "request_alias", "reset_alias"}
  /\ DOMAIN Graph["list"] = {"extract", "query", "emit_result", "emit_error"}
  /\ DOMAIN Graph["balance"] = QuerySteps
  /\ DOMAIN Graph["history"] = QuerySteps \cup {"check_period", "request_period"}
  /\ DOMAIN Graph["summary"] = DOMAIN Graph["history"] \cup {"check_type", "request_type"}
<1> USE DEF Graph, Emit, ++
<1>1. DOMAIN Graph["internal"] = TailSteps \cup
        {"extract", "resolve_from", "request_from", "resolve_to", "request_to", "check_amount",
         "request_amount", "reset_from", "reset_to", "reset_amount", "emit_empty"}
  BY TailDomain DEF InternalTransfer
<1>2. DOMAIN Graph["external"] = TailSteps \cup
        {"extract", "resolve_hint", "request_recipient", "resolve_from", "request_from",
         "check_amount", "request_amount", "reset_from", "reset_recipient", "reset_amount",
         "emit_empty"}
  BY TailDomain DEF ExternalTransfer
<1>3. DOMAIN Graph["default"] =
        {"extract", "resolve_account", "request_account", "start_prepare", "prepare", "approval",
         "reset_account", "execute", "emit_empty", "emit_unchanged", "emit_blocked",
         "emit_result", "emit_error"}
  BY DEF DefaultAccount
<1>4. DOMAIN Graph["alias"] =
        {"extract", "resolve_account", "request_account", "start_prepare", "prepare", "approval",
         "reset_account", "execute", "emit_empty", "emit_unchanged", "emit_blocked",
         "emit_result", "emit_error", "check_alias", "request_alias", "reset_alias"}
  BY DEF AccountAlias
<1>5. /\ DOMAIN Graph["list"] = {"extract", "query", "emit_result", "emit_error"}
      /\ DOMAIN Graph["balance"] = QuerySteps
  BY DEF AccountList, BalanceInquiry, QuerySteps
<1>6. DOMAIN Graph["history"] = QuerySteps \cup {"check_period", "request_period"}
  BY DEF TransactionHistory, BalanceInquiry, QuerySteps
<1>7. DOMAIN Graph["summary"]
        = QuerySteps \cup {"check_period", "request_period", "check_type", "request_type"}
  BY DEF PeriodAmountSummary, TransactionHistory, BalanceInquiry, QuerySteps
<1> QED
  BY <1>1, <1>2, <1>3, <1>4, <1>5, <1>6, <1>7

Emits == {"emit_empty", "emit_unchanged", "emit_blocked", "emit_result", "emit_error"}

LEMMA EmitEdges ==
  ASSUME NEW k \in Named, NEW st \in Emits \cap DOMAIN Graph[k]
  PROVE  Graph[k][st]["completed"] = End
<1>1. CASE k \in Transfers
  <2>1. st \in {"emit_empty", "emit_result", "emit_blocked", "emit_error"}
    BY <1>1, Domains DEF Transfers, TailSteps, Emits
  <2>2. CASE st = "emit_empty"
    <3>1. InternalTransfer[st]["completed"] = End
      BY <2>2 DEF InternalTransfer, Emit, ++
    <3>2. ExternalTransfer[st]["completed"] = End
      BY <2>2 DEF ExternalTransfer, Emit, ++
    <3> QED
      BY <1>1, <3>1, <3>2 DEF Graph, Transfers
  <2>3. CASE st \in {"emit_result", "emit_blocked", "emit_error"}
    <3>1. TransferTail[st]["completed"] = End
      BY <2>3 DEF TransferTail, Emit, ++
    <3>2. Graph[k][st] = TransferTail[st]
      BY <1>1, <2>3, SharedTail DEF TailSteps
    <3> QED
      BY <3>1, <3>2
  <2> QED
    BY <2>1, <2>2, <2>3
<1> USE Domains DEF Graph, Emit, ++, Emits
<1>3. CASE k = "default"
  BY <1>3 DEF DefaultAccount
<1>4. CASE k = "alias"
  BY <1>4 DEF AccountAlias
<1>5. CASE k \in {"list", "balance"}
  BY <1>5 DEF AccountList, BalanceInquiry, QuerySteps
<1>6. CASE k = "history"
  BY <1>6 DEF TransactionHistory, BalanceInquiry, QuerySteps
<1>7. CASE k = "summary"
  BY <1>7 DEF PeriodAmountSummary, TransactionHistory, BalanceInquiry, QuerySteps
<1> QED
  BY <1>1, <1>3, <1>4, <1>5, <1>6, <1>7 DEF Named, Settings, Queries

-----------------------------------------------------------------------------
(* What is filled in at each step *)

\* The order in which a workflow with a Prepare collects its slots.
Rank ==
  [internal |-> [from |-> 1, to |-> 2, amount |-> 3],
   external |-> [recipient |-> 1, from |-> 2, amount |-> 3],
   default  |-> [account |-> 1],
   alias    |-> [account |-> 1, alias |-> 2]]

Collecting ==
  [internal |-> [extract |-> 0, resolve_from |-> 0, request_from |-> 0,
                 resolve_to |-> 1, request_to |-> 1,
                 check_amount |-> 2, request_amount |-> 2],
   external |-> [extract |-> 0, resolve_hint |-> 0, request_recipient |-> 0,
                 resolve_from |-> 1, request_from |-> 1,
                 check_amount |-> 2, request_amount |-> 2],
   default  |-> [extract |-> 0, resolve_account |-> 0, request_account |-> 0],
   alias    |-> [extract |-> 0, resolve_account |-> 0, request_account |-> 0,
                 check_alias |-> 1, request_alias |-> 1]]

\* How many of them, in this order, have a value when a step is reached.
Filled(k, st) == IF st \in DOMAIN Collecting[k] THEN Collecting[k][st] ELSE 3

\* The first n have one. Of the others, those that were collected before and
\* kept have one, and with one of them all that come after it.
UpTo(n, k, v) ==
  \A s \in Slots[k] :
    /\ Rank[k][s] <= n => v[s] # None
    /\ Rank[k][s] > n /\ v[s] # None =>
         \A t \in Slots[k] : Rank[k][s] < Rank[k][t] => v[t] # None

LEMMA Ranks ==
  ASSUME NEW k \in Guided, NEW s \in Slots[k]
  PROVE  /\ Rank[k][s] \in 1..3
         /\ \A t \in Slots[k] : Rank[k][t] = Rank[k][s] => t = s
         /\ s \in {"amount", "alias"} => \A t \in Slots[k] : Rank[k][t] <= Rank[k][s]
<1> USE DEF Rank, Slots
<1>1. CASE k = "internal"
  BY <1>1
<1>2. CASE k = "external"
  BY <1>2
<1>3. CASE k = "default"
  BY <1>3
<1>4. CASE k = "alias"
  BY <1>4
<1> QED
  BY <1>1, <1>2, <1>3, <1>4 DEF Guided, Transfers, Settings

LEMMA FilledAround ==
  ASSUME NEW k \in Guided, NEW s \in Slots[k]
  PROVE  /\ Filled(k, RequestStep[s]) = Rank[k][s] - 1
         /\ s \in AccountSlots => Filled(k, ResolveStep[s]) = Rank[k][s] - 1
         /\ s \in {"alias"} => Filled(k, CheckStep[s]) = Rank[k][s] - 1
         /\ s # "amount" => \A t \in Slots[k] : Rank[k][t] <= Filled(k, After[k][s]) <=> Rank[k][t] <= Rank[k][s]
         /\ s = "amount" => Filled(k, After[k][s]) = Rank[k][s] - 1
         /\ Filled(k, After[k][s]) \in 0..3
<1> USE DEF Rank, Slots, Filled, Collecting, RequestStep, ResolveStep, CheckStep, Steps, AccountSlots,
            After
<1>1. CASE k = "internal"
  BY <1>1
<1>2. CASE k = "external"
  BY <1>2
<1>3. CASE k = "default"
  BY <1>3
<1>4. CASE k = "alias"
  BY <1>4
<1> QED
  BY <1>1, <1>2, <1>3, <1>4 DEF Guided, Transfers, Settings

LEMMA FilledElsewhere ==
  ASSUME NEW k \in Guided
  PROVE  /\ Filled(k, "extract") = 0 /\ Filled(k, First[k]) = 0
         /\ k = "external" => Filled(k, "resolve_hint") = 0
         /\ k \in Transfers => Filled(k, "check_amount") = Rank[k]["amount"] - 1
         /\ \A st \in TailSteps : Filled(k, st) = 3
         /\ \A t \in Slots[k] \cap DOMAIN Resets :
              Filled(k, Resets[t]) = 3 /\ Filled(k, Again[t]) = Rank[k][t] - 1
<1> USE DEF Rank, Slots, Filled, Collecting, First, Again, Resets, TailSteps, Transfers
<1>1. CASE k = "internal"
  BY <1>1
<1>2. CASE k = "external"
  BY <1>2
<1>3. CASE k = "default"
  BY <1>3
<1>4. CASE k = "alias"
  BY <1>4
<1> QED
  BY <1>1, <1>2, <1>3, <1>4 DEF Guided, Settings

LEMMA FilledMore ==
  ASSUME NEW k \in Guided, NEW s \in Slots[k], NEW v, NEW w,
         UpTo(Rank[k][s] - 1, k, v), w[s] # None,
         \A t \in Slots[k] : t # s => w[t] = v[t]
  PROVE  UpTo(Filled(k, After[k][s]), k, w)
<1>1. UpTo(Rank[k][s], k, w) /\ (s = "amount" => UpTo(Rank[k][s] - 1, k, w))
  BY Ranks DEF UpTo
<1>2. CASE s = "amount"
  BY <1>1, <1>2, FilledAround
<1>3. CASE s # "amount"
  <2>1. \A t \in Slots[k] : Rank[k][t] <= Filled(k, After[k][s]) <=> Rank[k][t] <= Rank[k][s]
    BY <1>3, FilledAround
  <2>2. \A t \in Slots[k] : Rank[k][t] > Filled(k, After[k][s]) <=> Rank[k][t] > Rank[k][s]
    BY <2>1, FilledAround, Ranks
  <2> QED
    BY <1>1, <2>1, <2>2 DEF UpTo
<1> QED
  BY <1>2, <1>3

-----------------------------------------------------------------------------
(* Types: the run is at a step of its graph *)

Values == (UNION Portfolios) \cup Recipients \cup Candidates \cup Amounts
          \cup {"given", "all", None}

RowStatuses == {"absent", "PENDING", "APPROVED", "INVALIDATED", "EXECUTED"}

AuthStatuses == {"absent", "PENDING", "VERIFIED", "FAILED", "CANCELLED", "EXPIRED"}

TypeOK ==
  /\ kind \in Named
  /\ step \in DOMAIN Graph[kind] \cup {End}
  /\ slot \in [AllSlots -> Values]
  /\ hint \in [AccountSlots -> Hints \cup {None}]
  /\ offered \subseteq owned /\ targets \subseteq Slots[kind] \cap DOMAIN Resets
  /\ confirmation \in Nat /\ confirmations \in Nat
  /\ prepareAttempt \in Nat /\ authAttempt \in Nat
  /\ row \in [fixed : [AllSlots -> Values], status : RowStatuses]
  /\ auth \in [confirmation : Nat, status : AuthStatuses]
  /\ consumed \subseteq Candidates
  /\ owned \in Portfolios /\ active \subseteq owned

\* The steps between the extraction and Prepare.
Waypoints == {"resolve_hint", "resolve_from", "resolve_to", "resolve_account", "check_amount",
              "check_alias", "check_period", "check_type", "request_from", "request_to",
              "request_amount", "request_recipient", "request_account", "request_alias",
              "request_period", "request_type"}

ResetSteps == {"reset_from", "reset_to", "reset_amount", "reset_recipient", "reset_account",
               "reset_alias"}

LEMMA WaypointsInGraph ==
  ASSUME NEW k \in Named
  PROVE  /\ First[k] \in DOMAIN Graph[k] \cap (Waypoints \cup {"query"})
         /\ \A s \in Slots[k] :
              /\ After[k][s] \in DOMAIN Graph[k] \cap (Waypoints \cup {"start_prepare", "query"})
              /\ RequestStep[s] \in DOMAIN Graph[k] \cap Waypoints
         /\ "extract" \in DOMAIN Graph[k] /\ "emit_error" \in DOMAIN Graph[k]
         /\ Slots[k] \cap AccountSlots # {} => "emit_empty" \in DOMAIN Graph[k]
<1> USE Domains DEF Slots, First, After, RequestStep, Steps, Waypoints, QuerySteps, TailSteps,
                    AccountSlots
<1>1. CASE k = "internal"
  BY <1>1
<1>2. CASE k = "external"
  BY <1>2
<1>3. CASE k = "default"
  BY <1>3
<1>4. CASE k = "alias"
  BY <1>4
<1>5. CASE k \in {"list", "balance"}
  BY <1>5
<1>6. CASE k \in {"history", "summary"}
  BY <1>6
<1> QED
  BY <1>1, <1>2, <1>3, <1>4, <1>5, <1>6 DEF Named, Transfers, Settings, Queries

LEMMA GuidedGraph ==
  ASSUME NEW k \in Guided
  PROVE  /\ {"start_prepare", "prepare", "approval", "execute", "emit_blocked", "emit_result"}
              \subseteq DOMAIN Graph[k]
         /\ k \in Transfers => TailSteps \subseteq DOMAIN Graph[k]
         /\ k \in Settings => "emit_unchanged" \in DOMAIN Graph[k]
         /\ \A t \in Slots[k] \cap DOMAIN Resets :
              /\ Resets[t] \in DOMAIN Graph[k] \cap ResetSteps
              /\ Again[t] \in DOMAIN Graph[k] \cap Waypoints
<1> USE Domains DEF Slots, Resets, Again, Waypoints, TailSteps, ResetSteps, Transfers, Settings
<1>1. CASE k = "internal"
  BY <1>1
<1>2. CASE k = "external"
  BY <1>2
<1>3. CASE k = "default"
  BY <1>3
<1>4. CASE k = "alias"
  BY <1>4
<1> QED
  BY <1>1, <1>2, <1>3, <1>4 DEF Guided

\* What the step tells of the workflow.
LEMMA WorkflowOfStep ==
  ASSUME NEW k \in Named, NEW st \in DOMAIN Graph[k]
  PROVE  /\ st = "resolve_hint" => k = "external"
         /\ st = "check_amount" => k \in Transfers
         /\ st \in {"start_prepare", "prepare", "approval", "execute"} \cup ResetSteps => k \in Guided
         /\ st \in {"route_correction", "request_correction", "start_auth", "create_auth",
                   "request_auth", "request_retry"} => k \in Transfers
         /\ st = "query" => k \in Queries
         /\ \A s \in AccountSlots : st = ResolveStep[s] => s \in Slots[k]
<1> USE Domains DEF Slots, ResolveStep, Guided, Transfers, Settings, Queries, TailSteps, QuerySteps,
                    AccountSlots, ResetSteps
<1>1. CASE k = "internal"
  BY <1>1
<1>2. CASE k = "external"
  BY <1>2
<1>3. CASE k = "default"
  BY <1>3
<1>4. CASE k = "alias"
  BY <1>4
<1>5. CASE k \in {"list", "balance"}
  BY <1>5
<1>6. CASE k \in {"history", "summary"}
  BY <1>6
<1> QED
  BY <1>1, <1>2, <1>3, <1>4, <1>5, <1>6 DEF Named

-----------------------------------------------------------------------------
(* The moves of the actions through the graph *)

\* What a step between extraction and Prepare leaves alone.
Elsewhere == <<kind, owned, targets, confirmation, auth, prepareAttempt, authAttempt, backend,
               active, closed>>

\* It works on slot s, with the slots before it filled in.
WorksOn(s) == s \in Slots[kind] /\ (kind \in Guided => Filled(kind, step) = Rank[kind][s] - 1)

\* It gives the slot a value, or has it, and goes on; an account is an active
\* one or a choice of the user.
Gains(s) ==
  /\ WorksOn(s)
  /\ slot' = [slot EXCEPT ![s] = slot'[s]] /\ slot'[s] \in Values \ {None}
  /\ step' = After[kind][s]
  /\ s \in AccountSlots /\ kind \in Guided /\ step # RequestStep[s] => slot'[s] \in active
  /\ step = RequestStep[s] => prepareAttempt < MaxPrepare
  /\ s \in AccountSlots /\ kind \in Guided => slot'[s] \in owned

\* It asks the user for the slot.
Asks(s) == WorksOn(s) /\ UNCHANGED slot /\ step' = RequestStep[s]

\* The amount is there and within the limit.
Passes == /\ kind \in Transfers /\ step = "check_amount" /\ step' = "start_prepare"
          /\ UNCHANGED slot /\ slot["amount"] # None

Stops == step' \in {"emit_empty", "emit_error", "emit_blocked"} /\ UNCHANGED slot

CollectMove ==
  /\ step \in Waypoints
  /\ step' \in DOMAIN Graph[kind]
  /\ UNCHANGED Elsewhere
  /\ hint' = hint /\ offered' \subseteq owned
  /\ (\E s \in Slots[kind] : Gains(s) \/ Asks(s)) \/ Passes \/ Stops

LEMMA ResolveMove ==
  ASSUME TypeOK, NEW s \in DOMAIN ResolveStep, Resolve(s)
  PROVE  CollectMove
<1> DEFINE edges == Graph[kind][ResolveStep[s]]
<1>1. /\ s \in Slots[kind] \cap AccountSlots /\ step = ResolveStep[s] /\ step \in Waypoints
      /\ kind \in Named /\ UNCHANGED Elsewhere /\ hint' = hint /\ offered' = CandidateAccounts(s)
  BY DEF Resolve, TypeOK, ResolveStep, AccountSlots, Waypoints, Elsewhere
<1>2. /\ CandidateAccounts(s) \subseteq active /\ CandidateAccounts(s) \subseteq owned
      /\ CandidateAccounts(s) \subseteq Values /\ None \notin CandidateAccounts(s)
  BY WorkflowAssumption DEF CandidateAccounts, TypeOK, Values
<1>3. /\ edges["resolved"] = After[kind][s] /\ edges["selection_required"] = RequestStep[s]
      /\ edges["no_accounts"] = "emit_empty"
  BY <1>1, ResolveEdges
<1>4. WorksOn(s) /\ step # RequestStep[s]
  <2>1. kind \in Guided => Filled(kind, step) = Rank[kind][s] - 1
    BY <1>1, FilledAround
  <2>2. step # RequestStep[s]
    BY <1>1 DEF AccountSlots, ResolveStep, RequestStep, Steps
  <2> QED
    BY <1>1, <2>1, <2>2 DEF WorksOn
<1>5. CASE CandidateAccounts(s) = {} /\ Goto("no_accounts") /\ UNCHANGED slot
  <2>1. step' = "emit_empty" /\ step' \in DOMAIN Graph[kind]
    BY <1>1, <1>3, <1>5, WaypointsInGraph DEF Goto
  <2> QED
    BY <1>1, <1>2, <1>5, <2>1 DEF CollectMove, Stops
<1>6. CASE UNCHANGED slot /\ Goto("selection_required")
  <2>1. step' = RequestStep[s] /\ step' \in DOMAIN Graph[kind]
    BY <1>1, <1>3, <1>6, WaypointsInGraph DEF Goto
  <2> QED
    BY <1>1, <1>2, <1>4, <1>6, <2>1 DEF CollectMove, Asks
<1>7. ASSUME slot' = [slot EXCEPT ![s] = slot'[s]], Goto("resolved"),
             slot'[s] \in CandidateAccounts(s) \/ (kind \in Queries /\ slot'[s] = "all")
      PROVE  CollectMove
  <2>1. step' = After[kind][s] /\ step' \in DOMAIN Graph[kind]
    BY <1>1, <1>3, <1>7, WaypointsInGraph DEF Goto
  <2>2. /\ slot'[s] \in Values \ {None}
        /\ kind \in Guided => slot'[s] \in active /\ slot'[s] \in owned
    BY <1>2, <1>7, WorkflowAssumption DEF Values, Guided, Queries, Transfers, Settings
  <2>3. Gains(s)
    BY <1>4, <1>7, <2>1, <2>2 DEF Gains
  <2> QED
    BY <1>1, <1>2, <2>1, <2>3 DEF CollectMove
<1>8. slot \in [AllSlots -> Values] /\ s \in AllSlots
  BY <1>1 DEF TypeOK, AllSlots, Slots, AccountSlots
<1>9. CASE /\ Cardinality(CandidateAccounts(s)) = 1 \/ TakesDefault(s)
           /\ slot' = [slot EXCEPT ![s] = IF TakesDefault(s) THEN Default
                                          ELSE CHOOSE a \in CandidateAccounts(s) : TRUE]
           /\ Goto("resolved")
  <2>1. PICK v : v = IF TakesDefault(s) THEN Default ELSE CHOOSE a \in CandidateAccounts(s) : TRUE
    OBVIOUS
  <2>2. v \in CandidateAccounts(s)
    <3>1. CandidateAccounts(s) # {}
      BY <1>9, FS_EmptySet DEF TakesDefault
    <3> QED
      BY <2>1, <3>1 DEF TakesDefault
  <2>3. slot' = [slot EXCEPT ![s] = v]
    BY <1>9, <2>1
  <2>4. slot'[s] = v
    BY <1>8, <2>3
  <2>5. slot' = [slot EXCEPT ![s] = slot'[s]]
    BY <2>3, <2>4
  <2>6. slot'[s] \in CandidateAccounts(s)
    BY <2>2, <2>4
  <2>7. Goto("resolved")
    BY <1>9
  <2> QED
    BY <1>7, <2>5, <2>6, <2>7
<1>10. CASE kind \in Queries /\ slot' = [slot EXCEPT ![s] = "all"] /\ Goto("resolved")
  <2>1. slot'[s] = "all"
    BY <1>8, <1>10
  <2>2. slot' = [slot EXCEPT ![s] = slot'[s]]
    BY <1>10, <2>1
  <2> QED
    BY <1>7, <1>10, <2>1, <2>2
<1> QED
  BY <1>5, <1>6, <1>9, <1>10 DEF Resolve

LEMMA HintMove ==
  ASSUME TypeOK, ResolveHint
  PROVE  CollectMove
<1>1. /\ step = "resolve_hint" /\ kind = "external" /\ UNCHANGED Elsewhere /\ hint' = hint
      /\ offered' \subseteq owned /\ kind \in Guided /\ kind \in Named
      /\ "recipient" \in Slots[kind] /\ step \in Waypoints
  BY WorkflowOfStep DEF ResolveHint, TypeOK, Elsewhere, Slots, Guided, Transfers, Waypoints, End
<1>2. WorksOn("recipient") /\ step # RequestStep["recipient"]
  BY <1>1, FilledElsewhere DEF WorksOn, Rank, RequestStep, Steps
<1>3. CASE \E r \in Recipients : slot' = [slot EXCEPT !["recipient"] = r] /\ Goto("resolved")
  <2>1. PICK r \in Recipients : slot' = [slot EXCEPT !["recipient"] = r] /\ Goto("resolved")
    BY <1>3
  <2>2. slot'["recipient"] = r
    BY <1>1, <2>1 DEF TypeOK, AllSlots, Slots
  <2>3. r \in Values \ {None}
    BY WorkflowAssumption DEF Values
  <2>4. step' = After[kind]["recipient"] /\ step' \in DOMAIN Graph[kind]
    BY <1>1, <2>1, HintEdges, WaypointsInGraph DEF Goto, After
  <2>5. Gains("recipient")
    BY <1>2, <2>1, <2>2, <2>3, <2>4 DEF Gains, AccountSlots
  <2> QED
    BY <1>1, <2>4, <2>5 DEF CollectMove
<1>4. CASE Goto("selection_required") /\ UNCHANGED slot
  <2>1. step' = RequestStep["recipient"] /\ step' \in DOMAIN Graph[kind]
    BY <1>1, <1>4, HintEdges, WaypointsInGraph DEF Goto, RequestStep, Steps
  <2> QED
    BY <1>1, <1>2, <1>4, <2>1 DEF CollectMove, Asks
<1> QED
  BY <1>3, <1>4 DEF ResolveHint

LEMMA AmountMove ==
  ASSUME TypeOK, CheckAmount
  PROVE  CollectMove
<1>1. /\ step = "check_amount" /\ kind \in Transfers /\ kind \in Guided /\ kind \in Named
      /\ UNCHANGED Elsewhere /\ hint' = hint /\ offered' \subseteq owned /\ UNCHANGED slot
      /\ "amount" \in Slots[kind] /\ step \in Waypoints
  BY WorkflowOfStep DEF CheckAmount, TypeOK, Elsewhere, Slots, Guided, Transfers, Waypoints, data,
                        End
<1>2. WorksOn("amount")
  BY <1>1, FilledElsewhere DEF WorksOn
<1>3. CASE slot["amount"] \in {None, 0}
  <2>1. step' = RequestStep["amount"] /\ step' \in DOMAIN Graph[kind]
    BY <1>1, <1>3, AmountEdges, WaypointsInGraph DEF CheckAmount, Goto, RequestStep, Steps
  <2> QED
    BY <1>1, <1>2, <2>1 DEF CollectMove, Asks
<1>4. CASE slot["amount"] \notin {None, 0} /\ slot["amount"] > MaxSingle
  <2>1. step' = "emit_blocked" /\ step' \in DOMAIN Graph[kind]
    BY <1>1, <1>4, AmountEdges, GuidedGraph DEF CheckAmount, Goto
  <2> QED
    BY <1>1, <2>1 DEF CollectMove, Stops
<1>5. CASE slot["amount"] \notin {None, 0} /\ ~(slot["amount"] > MaxSingle)
  <2>1. step' = "start_prepare" /\ step' \in DOMAIN Graph[kind]
    BY <1>1, <1>5, AmountEdges, GuidedGraph DEF CheckAmount, Goto
  <2> QED
    BY <1>1, <1>5, <2>1 DEF CollectMove, Passes
<1> QED
  BY <1>3, <1>4, <1>5

LEMMA CheckMove ==
  ASSUME TypeOK, NEW s \in DOMAIN CheckStep, CheckGiven(s)
  PROVE  CollectMove
<1> DEFINE edges == Graph[kind][CheckStep[s]]
<1>1. /\ s \in Slots[kind] \cap {"alias", "period", "type"} /\ step = CheckStep[s]
      /\ kind \in Named /\ UNCHANGED Elsewhere /\ hint' = hint /\ offered' \subseteq owned
      /\ step \in Waypoints
  BY DEF CheckGiven, TypeOK, CheckStep, Waypoints, Elsewhere
<1>2. edges["present"] = After[kind][s] /\ edges["missing"] = RequestStep[s]
  BY <1>1, CheckEdges
<1>3. WorksOn(s) /\ step # RequestStep[s] /\ s \notin AccountSlots
  <2>1. kind \in Guided => s = "alias"
    BY <1>1 DEF Slots, Guided, Transfers, Settings
  <2>2. kind \in Guided => Filled(kind, step) = Rank[kind][s] - 1
    BY <1>1, <2>1, FilledAround
  <2>3. step # RequestStep[s] /\ s \notin AccountSlots
    BY <1>1 DEF AccountSlots, CheckStep, RequestStep, Steps
  <2> QED
    BY <1>1, <2>2, <2>3 DEF WorksOn
<1>4. ASSUME slot' = [slot EXCEPT ![s] = slot'[s]], slot'[s] \in Values \ {None}, Goto("present")
      PROVE  CollectMove
  <2>1. step' = After[kind][s] /\ step' \in DOMAIN Graph[kind]
    BY <1>1, <1>2, <1>4, WaypointsInGraph DEF Goto
  <2>2. Gains(s)
    BY <1>3, <1>4, <2>1 DEF Gains
  <2> QED
    BY <1>1, <2>1, <2>2 DEF CollectMove
<1>5. CASE slot[s] # None /\ Goto("present") /\ UNCHANGED slot
  <2>1. slot' = [slot EXCEPT ![s] = slot'[s]] /\ slot'[s] \in Values \ {None}
    BY <1>1, <1>5 DEF TypeOK, AllSlots, Slots
  <2> QED
    BY <1>4, <1>5, <2>1
<1>6. CASE slot' = [slot EXCEPT ![s] = "given"] /\ Goto("present")
  <2>1. slot'[s] = "given"
    BY <1>1, <1>6 DEF TypeOK, AllSlots, Slots
  <2>2. slot' = [slot EXCEPT ![s] = slot'[s]] /\ slot'[s] \in Values \ {None}
    BY <1>6, <2>1, WorkflowAssumption DEF Values
  <2> QED
    BY <1>4, <1>6, <2>2
<1>7. CASE Goto("missing") /\ UNCHANGED slot
  <2>1. step' = RequestStep[s] /\ step' \in DOMAIN Graph[kind]
    BY <1>1, <1>2, <1>7, WaypointsInGraph DEF Goto
  <2> QED
    BY <1>1, <1>3, <1>7, <2>1 DEF CollectMove, Asks
<1> QED
  BY <1>5, <1>6, <1>7 DEF CheckGiven

LEMMA SelectMove ==
  ASSUME TypeOK, NEW s \in AllSlots, Select(s)
  PROVE  CollectMove
<1>1. /\ s \in Slots[kind] /\ step = RequestStep[s] /\ prepareAttempt < MaxPrepare
      /\ kind \in Named /\ UNCHANGED Elsewhere /\ hint' = hint /\ offered' \subseteq owned
  BY DEF Select, TypeOK, Elsewhere
<1>2. WorksOn(s) /\ step \in Waypoints
  <2>1. kind \in Guided => Filled(kind, step) = Rank[kind][s] - 1
    BY <1>1, FilledAround
  <2>2. step \in Waypoints
    BY <1>1, WaypointsInGraph
  <2> QED
    BY <1>1, <2>1, <2>2 DEF WorksOn
<1>3. PICK v \in Answers(s) : slot' = [slot EXCEPT ![s] = v]
  BY DEF Select
<1>4. slot'[s] = v
  BY <1>1, <1>3 DEF TypeOK, AllSlots
<1>5. v \in Values \ {None} /\ (s \in AccountSlots => v \in owned)
  <2>1. CASE s \in AccountSlots
    <3>1. Answers(s) = offered
      BY <2>1 DEF Answers, AccountSlots
    <3>2. v \in owned
      BY <1>3, <3>1 DEF TypeOK
    <3> QED
      BY <3>2, WorkflowAssumption DEF TypeOK, Values
  <2>2. CASE s = "recipient"
    <3>1. Answers(s) = Recipients \cup Candidates
      BY <2>2 DEF Answers, AccountSlots
    <3> QED
      BY <2>2, <1>3, <3>1, WorkflowAssumption DEF Values, AccountSlots
  <2>3. CASE s = "amount"
    <3>1. Answers(s) = Amounts \ {0}
      BY <2>3 DEF Answers, AccountSlots
    <3> QED
      BY <2>3, <1>3, <3>1, WorkflowAssumption DEF Values, AccountSlots, Amounts
  <2>4. CASE s \notin AccountSlots \cup {"recipient", "amount"}
    <3>1. Answers(s) = {"given"}
      BY <2>4 DEF Answers
    <3> QED
      BY <2>4, <1>3, <3>1, WorkflowAssumption DEF Values
  <2> QED
    BY <2>1, <2>2, <2>3, <2>4
<1>6. step' = After[kind][s] /\ step' \in DOMAIN Graph[kind]
  BY <1>1, RequestEdges, WaypointsInGraph DEF Select, Goto
<1>7. Gains(s)
  BY <1>1, <1>2, <1>3, <1>4, <1>5, <1>6 DEF Gains
<1> QED
  BY <1>1, <1>2, <1>6, <1>7 DEF CollectMove

\* The steps a run collects its slots at lead to these.
Onward == Waypoints \cup {"start_prepare", "query"} \cup Emits

LEMMA CollectsTo ==
  ASSUME TypeOK, CollectMove
  PROVE  step' \in Onward
<1>1. kind \in Named
  BY DEF TypeOK
<1>2. ASSUME NEW s \in Slots[kind], Gains(s) \/ Asks(s)
      PROVE  step' \in Onward
  BY <1>1, <1>2, WaypointsInGraph DEF Gains, Asks, Onward
<1>3. CASE Passes \/ Stops
  BY <1>3 DEF Passes, Stops, Onward, Emits
<1> QED
  BY <1>2, <1>3 DEF CollectMove

LEMMA ExtractMove ==
  ASSUME TypeOK, Extract
  PROVE  /\ step = "extract" /\ step' \in DOMAIN Graph[kind] /\ step' \in Onward
         /\ kind \in Guided => step' \in Waypoints /\ Filled(kind, step') = 0
         /\ slot' \in [AllSlots -> Values]
         /\ \A s \in AllSlots : slot'[s] # None => s \in {"amount", "alias", "period", "type"}
         /\ hint' \in [AccountSlots -> Hints \cup {None}]
<1>1. step = "extract" /\ kind \in Named
  BY DEF Extract, TypeOK
<1>2. PICK said \in SUBSET (Slots[kind] \cap {"amount", "alias", "period", "type"}), n \in Amounts :
        slot' = [s \in AllSlots |->
                   IF s \notin said THEN None ELSE IF s = "amount" THEN n ELSE "given"]
  BY DEF Extract
<1>3. /\ slot' \in [AllSlots -> Values]
      /\ \A s \in AllSlots : slot'[s] # None => s \in {"amount", "alias", "period", "type"}
  BY <1>2 DEF Values
<1>4. CASE Goto("extracted")
  <2>1. step' = First[kind]
    BY <1>1, <1>4, ExtractEdges DEF Goto
  <2>2. kind \in Guided => step' # "query"
    BY <2>1 DEF Guided, Transfers, Settings, First
  <2> QED
    BY <1>1, <1>3, <2>1, <2>2, WaypointsInGraph, FilledElsewhere DEF Extract, Onward
<1>5. CASE kind = "external" /\ Goto("hinted")
  <2>1. step' = "resolve_hint" /\ step' \in DOMAIN Graph[kind]
    BY <1>1, <1>5, ExtractEdges, Domains DEF Goto
  <2>2. step' \in Waypoints /\ step' \in Onward
    BY <2>1 DEF Onward, Waypoints
  <2> QED
    BY <1>1, <1>3, <1>5, <2>1, <2>2, FilledElsewhere DEF Extract
<1> QED
  BY <1>4, <1>5 DEF Extract

LEMMA CancelInputMove ==
  ASSUME TypeOK, NEW s \in AllSlots, CancelInput(s)
  PROVE  /\ s \in Slots[kind] /\ step = RequestStep[s] /\ step \in Waypoints
         /\ step' = IF Returns(s) THEN "start_prepare" ELSE End
         /\ step' \in DOMAIN Graph[kind] \cup {End}
<1>1. s \in Slots[kind] /\ step = RequestStep[s] /\ kind \in Named
  BY DEF CancelInput, TypeOK
<1>2. CASE Returns(s)
  <2>1. kind \in Transfers /\ kind \in Guided
    BY <1>2 DEF Returns, Guided
  <2>2. step' = "start_prepare"
    BY <1>1, <1>2, <2>1, RequestEdges DEF CancelInput, Goto
  <2> QED
    BY <1>1, <1>2, <2>1, <2>2, GuidedGraph, WaypointsInGraph
<1>3. CASE ~Returns(s)
  <2>1. step' = End
    BY <1>1, <1>3, RequestEdges DEF CancelInput, Goto
  <2> QED
    BY <1>1, <1>3, <2>1, WaypointsInGraph
<1> QED
  BY <1>2, <1>3

\* At the steps from Prepare on, the graph of a transfer is the shared tail.
LEMMA TailStep ==
  ASSUME TypeOK, step \in TailSteps, kind \in Transfers
  PROVE  /\ \A r : Goto(r) => step' = TransferTail[step][r]
         /\ TailSteps \subseteq DOMAIN Graph[kind]
BY SharedTail, GuidedGraph DEF Goto, Guided

LEMMA StartPrepareMove ==
  ASSUME TypeOK, StartPrepare
  PROVE  /\ kind \in Guided /\ step = "start_prepare"
         /\ step' = "prepare" /\ step' \in DOMAIN Graph[kind]
<1>1. step = "start_prepare" /\ kind \in Guided /\ Goto("always")
  BY WorkflowOfStep DEF StartPrepare, TypeOK, End
<1>2. CASE kind \in Transfers
  BY <1>1, <1>2, TailStep, TransferEdges DEF TailSteps
<1>3. CASE kind \in Settings
  BY <1>1, <1>3, SettingEdges, GuidedGraph DEF Goto
<1> QED
  BY <1>1, <1>2, <1>3 DEF Guided

LEMMA Violated ==
  ASSUME kind \in Guided, NEW v, NEW violation \in Violations(v)
  PROVE  /\ violation \subseteq Slots[kind] \cap DOMAIN Resets
         /\ kind \in Settings /\ "account" \in violation =>
              kind = "default" /\ v["account"] \notin active
<1> USE DEF Violations, Slots, Resets, Settings
<1>1. CASE kind = "internal"
  BY <1>1
<1>2. CASE kind = "external"
  BY <1>2
<1>3. CASE kind = "default"
  BY <1>3
<1>4. CASE kind = "alias"
  BY <1>4
<1> QED
  BY <1>1, <1>2, <1>3, <1>4 DEF Guided, Transfers

LEMMA ViolatedAtExecute ==
  ASSUME kind \in Guided, NEW violation \in ExecuteViolations
  PROVE  /\ violation \subseteq Slots[kind] \cap DOMAIN Resets
         /\ kind \in Settings /\ "account" \in violation => Row.fixed["account"] \notin active
<1>1. CASE violation \in Violations(Row.fixed)
  BY <1>1, Violated
<1>2. CASE kind = "alias" /\ Row.fixed["account"] \notin active /\ violation = {"account"}
  BY <1>2 DEF Slots, Resets
<1> QED
  BY <1>1, <1>2 DEF ExecuteViolations

LEMMA CorrectMove ==
  ASSUME TypeOK, kind \in Guided, step \in {"prepare", "execute"},
         NEW violation \in SUBSET (Slots[kind] \cap DOMAIN Resets), Correct(violation)
  PROVE  /\ kind \in Transfers => step' = "route_correction"
         /\ kind \in Settings => \E t \in violation : step' = Resets[t]
         /\ step' \in DOMAIN Graph[kind]
         /\ step' \in ResetSteps \cup {"route_correction"}
<1>1. CASE kind \in Transfers
  <2>1. kind \notin Settings /\ Goto("correction")
    BY <1>1 DEF Transfers, Settings, Correct
  <2>2. step' = "route_correction" /\ step' \in DOMAIN Graph[kind]
    BY <1>1, <2>1, TailStep, TransferEdges, AuthEdges DEF TailSteps
  <2> QED
    BY <2>1, <2>2
<1>2. CASE kind \in Settings
  <2>1. kind \notin Transfers
    BY <1>2 DEF Transfers, Settings
  <2>2. PICK t \in violation : GotoReset(t)
    BY <2>1 DEF Correct
  <2> QED
    BY <2>1, <2>2, GuidedGraph DEF GotoReset
<1> QED
  BY <1>1, <1>2 DEF Guided

\* A Prepare ends in one of these ways.
Prepared ==
  /\ confirmations' = confirmations + 1
  /\ row' = [fixed |-> slot, status |-> "PENDING"]
  /\ consumed' \subseteq Candidates /\ targets' = targets
  /\ \/ step' = "approval" /\ confirmation' = confirmations'
     \/ step' = "emit_error" /\ confirmation' = confirmation

LEMMA PrepareMove ==
  ASSUME TypeOK, Prepare
  PROVE  /\ kind \in Guided /\ step = "prepare" /\ Calls(PrepareKey)
         /\ step' \in DOMAIN Graph[kind]
         /\ \/ /\ step' \in Emits
               /\ UNCHANGED <<confirmations, row, consumed, confirmation, targets>>
            \/ /\ \E violation \in Violations(slot) : Correct(violation) /\ targets' = violation
               /\ UNCHANGED <<confirmations, row, consumed, confirmation>>
            \/ Prepared
<1>1. step = "prepare" /\ kind \in Guided /\ Calls(PrepareKey) /\ kind \in Named
  BY WorkflowOfStep DEF Prepare, TypeOK, End
<1>2. ASSUME Goto("error")
      PROVE  step' = "emit_error" /\ step' \in DOMAIN Graph[kind]
  <2>1. CASE kind \in Transfers
    BY <1>1, <1>2, <2>1, TailStep, TransferEdges DEF TailSteps
  <2>2. CASE kind \in Settings
    BY <1>1, <1>2, <2>2, SettingEdges, WaypointsInGraph DEF Goto
  <2> QED
    BY <1>1, <2>1, <2>2 DEF Guided
<1>3. CASE Goto("error") /\ UNCHANGED <<confirmations, row, consumed, confirmation, targets>>
  BY <1>1, <1>2, <1>3 DEF Emits
<1>4. ASSUME NEW violation \in Violations(slot), Correct(violation), targets' = violation,
             UNCHANGED <<confirmations, row, consumed, confirmation>>
      PROVE  step' \in DOMAIN Graph[kind]
  BY <1>1, <1>4, Violated, CorrectMove
<1>5. CASE /\ AlreadySet /\ Goto("unchanged")
           /\ UNCHANGED <<confirmations, row, consumed, confirmation, targets>>
  <2>1. kind \in Settings
    BY <1>5 DEF AlreadySet, Settings
  <2>2. step' = "emit_unchanged" /\ step' \in DOMAIN Graph[kind]
    BY <1>1, <1>5, <2>1, SettingEdges, GuidedGraph DEF Goto
  <2> QED
    BY <1>1, <1>5, <2>2 DEF Emits
<1>6. CASE /\ confirmations' = confirmations + 1
           /\ row' = [fixed |-> slot, status |-> "PENDING"]
           /\ consumed' = consumed \cup ({slot["recipient"]} \cap Candidates)
           /\ UNCHANGED targets
           /\ \/ Goto("ready") /\ confirmation' = confirmations'
              \/ Goto("error") /\ UNCHANGED confirmation
  <2>1. ASSUME Goto("ready")
        PROVE  step' = "approval" /\ step' \in DOMAIN Graph[kind]
    <3>1. CASE kind \in Transfers
      BY <1>1, <2>1, <3>1, TailStep, TransferEdges DEF TailSteps
    <3>2. CASE kind \in Settings
      BY <1>1, <2>1, <3>2, SettingEdges, GuidedGraph DEF Goto
    <3> QED
      BY <1>1, <3>1, <3>2 DEF Guided
  <2>2. consumed' \subseteq Candidates
    BY <1>6 DEF TypeOK
  <2> QED
    BY <1>1, <1>2, <1>6, <2>1, <2>2 DEF Prepared
<1> QED
  BY <1>1, <1>3, <1>4, <1>5, <1>6 DEF Prepare

LEMMA ApproveMove ==
  ASSUME TypeOK, Approve
  PROVE  /\ kind \in Guided /\ step = "approval" /\ step' \in DOMAIN Graph[kind]
         /\ step' = IF kind \in Transfers THEN "start_auth" ELSE "execute"
<1>1. step = "approval" /\ kind \in Guided /\ Goto("approved")
  BY WorkflowOfStep DEF Approve, TypeOK, End
<1>2. CASE kind \in Transfers
  BY <1>1, <1>2, TailStep, TransferEdges DEF TailSteps
<1>3. CASE kind \in Settings
  BY <1>1, <1>3, SettingEdges, GuidedGraph DEF Goto, Transfers, Settings
<1> QED
  BY <1>1, <1>2, <1>3 DEF Guided

\* Each of the targets of a run has a reset step.
LEMMA GotoResetMove ==
  ASSUME TypeOK, kind \in Guided, NEW t \in Slots[kind] \cap DOMAIN Resets, GotoReset(t)
  PROVE  step' = Resets[t] /\ step' \in DOMAIN Graph[kind] \cap ResetSteps
BY GuidedGraph DEF GotoReset

LEMMA RequestChangeMove ==
  ASSUME TypeOK, NEW t \in AllSlots, RequestChange(t)
  PROVE  /\ kind \in Guided /\ step = "approval" /\ t \in Slots[kind] \cap DOMAIN Resets
         /\ step' = Resets[t] /\ step' \in DOMAIN Graph[kind] \cap ResetSteps
<1>1. step = "approval" /\ kind \in Guided /\ GotoReset(t) /\ t \in Slots[kind]
  BY WorkflowOfStep DEF RequestChange, TypeOK, End
<1>2. t \in DOMAIN Resets
  BY <1>1 DEF Guided, Transfers, Settings, Slots, Resets
<1> QED
  BY <1>1, <1>2, GotoResetMove

LEMMA CancelApprovalMove ==
  ASSUME TypeOK, CancelApproval
  PROVE  kind \in Guided /\ step = "approval" /\ step' = End
<1>1. step = "approval" /\ kind \in Guided /\ Goto("cancelled")
  BY WorkflowOfStep DEF CancelApproval, TypeOK, End
<1>2. CASE kind \in Transfers
  BY <1>1, <1>2, TailStep, TransferEdges DEF TailSteps
<1>3. CASE kind \in Settings
  BY <1>1, <1>3, SettingEdges DEF Goto
<1> QED
  BY <1>1, <1>2, <1>3 DEF Guided

LEMMA CorrectionMove ==
  ASSUME TypeOK
  PROVE  /\ RouteCorrection => /\ kind \in Transfers /\ step = "route_correction"
                               /\ step' \in {"request_correction", "emit_error"}
                               /\ step' \in DOMAIN Graph[kind]
         /\ CancelCorrection => kind \in Transfers /\ step = "request_correction" /\ step' = End
<1>1. ASSUME RouteCorrection
      PROVE  /\ kind \in Transfers /\ step = "route_correction"
             /\ step' \in {"request_correction", "emit_error"} /\ step' \in DOMAIN Graph[kind]
  <2>1. step = "route_correction" /\ kind \in Transfers /\ (Goto("valid") \/ Goto("invalid"))
    BY <1>1, WorkflowOfStep DEF RouteCorrection, TypeOK, End
  <2> QED
    BY <2>1, TailStep, TransferEdges DEF TailSteps
<1>2. ASSUME CancelCorrection
      PROVE  kind \in Transfers /\ step = "request_correction" /\ step' = End
  <2>1. step = "request_correction" /\ kind \in Transfers /\ Goto("cancelled")
    BY <1>2, WorkflowOfStep DEF CancelCorrection, TypeOK, End
  <2> QED
    BY <2>1, TailStep, TransferEdges DEF TailSteps
<1> QED
  BY <1>1, <1>2

LEMMA SelectCorrectionMove ==
  ASSUME TypeOK, NEW t \in AllSlots, SelectCorrection(t)
  PROVE  /\ kind \in Transfers /\ step = "request_correction" /\ t \in Slots[kind] \cap DOMAIN Resets
         /\ step' = Resets[t] /\ step' \in DOMAIN Graph[kind] \cap ResetSteps
<1>1. step = "request_correction" /\ kind \in Transfers /\ GotoReset(t)
  BY WorkflowOfStep DEF SelectCorrection, TypeOK, End
<1>2. t \in Slots[kind] \cap DOMAIN Resets /\ kind \in Guided
  BY <1>1 DEF SelectCorrection, TypeOK, Guided
<1> QED
  BY <1>1, <1>2, GotoResetMove

LEMMA ResetMove ==
  ASSUME TypeOK, NEW t \in DOMAIN Resets, Reset(t)
  PROVE  /\ kind \in Guided /\ t \in Slots[kind] /\ step = Resets[t] /\ step \in ResetSteps
         /\ step' = Again[t] /\ step' \in DOMAIN Graph[kind] \cap Waypoints
<1>1. t \in Slots[kind] \cap DOMAIN Resets /\ step = Resets[t] /\ kind \in Named /\ Goto("always")
  BY DEF Reset, TypeOK
<1>2. step \in ResetSteps
  BY <1>1 DEF Resets, ResetSteps
<1>3. kind \in Guided
  BY <1>1, <1>2, WorkflowOfStep DEF TypeOK, ResetSteps, End
<1> QED
  BY <1>1, <1>2, <1>3, ResetEdges, GuidedGraph DEF Goto

LEMMA AuthMove ==
  ASSUME TypeOK
  PROVE  /\ StartAuth => kind \in Transfers /\ step = "start_auth" /\ step' = "create_auth"
         /\ CreateAuth => /\ kind \in Transfers /\ step = "create_auth"
                          /\ step' \in {"request_auth", "emit_error"}
         /\ Authenticate => /\ kind \in Transfers /\ step = "request_auth"
                            /\ step' \in {"execute", "request_retry", End}
                            /\ step' = "execute" =>
                                 auth' = [auth EXCEPT !.status = "VERIFIED"]
         /\ AnswerRetry => /\ kind \in Transfers /\ step = "request_retry"
                           /\ step' \in {"start_auth", End}
<1>1. ASSUME StartAuth
      PROVE  kind \in Transfers /\ step = "start_auth" /\ step' = "create_auth"
  <2>1. step = "start_auth" /\ kind \in Transfers /\ Goto("always")
    BY <1>1, WorkflowOfStep DEF StartAuth, TypeOK, End
  <2> QED
    BY <2>1, TailStep, AuthEdges DEF TailSteps
<1>2. ASSUME CreateAuth
      PROVE  /\ kind \in Transfers /\ step = "create_auth"
             /\ step' \in {"request_auth", "emit_error"}
  <2>1. /\ step = "create_auth" /\ kind \in Transfers
        /\ Goto("authentication_required") \/ Goto("error")
    BY <1>2, WorkflowOfStep DEF CreateAuth, TypeOK, End
  <2> QED
    BY <2>1, TailStep, AuthEdges DEF TailSteps
<1>3. ASSUME Authenticate
      PROVE  /\ kind \in Transfers /\ step = "request_auth"
             /\ step' \in {"execute", "request_retry", End}
             /\ step' = "execute" => auth' = [auth EXCEPT !.status = "VERIFIED"]
  <2>1. step = "request_auth" /\ kind \in Transfers
    BY <1>3, WorkflowOfStep DEF Authenticate, TypeOK, End
  <2>2. PICK s \in {"VERIFIED", "FAILED", "CANCELLED"} : SetAuth(s) /\ Goto(AuthRoute(s))
    BY <1>3 DEF Authenticate
  <2>3. step' = TransferTail["request_auth"][AuthRoute(s)]
    BY <2>1, <2>2, TailStep DEF TailSteps
  <2> QED
    BY <2>1, <2>2, <2>3, AuthEdges DEF AuthRoute, SetAuth, End
<1>4. ASSUME AnswerRetry
      PROVE  kind \in Transfers /\ step = "request_retry" /\ step' \in {"start_auth", End}
  <2>1. step = "request_retry" /\ kind \in Transfers /\ (Goto("retry") \/ Goto("cancelled"))
    BY <1>4, WorkflowOfStep DEF AnswerRetry, TypeOK, End
  <2> QED
    BY <2>1, TailStep, AuthEdges DEF TailSteps
<1> QED
  BY <1>1, <1>2, <1>3, <1>4

\* An Execute ends in one of these ways.
LEMMA ExecuteMove ==
  ASSUME TypeOK, Execute
  PROVE  /\ kind \in Guided /\ step = "execute" /\ Calls(ExecuteKey)
         /\ step' \in DOMAIN Graph[kind]
         /\ \/ step' \in Emits /\ UNCHANGED <<confirmation, auth, targets>> /\ UNCHANGED row
            \/ /\ step' = "start_auth" /\ kind \in Transfers /\ Licensed /\ auth' = NoAuth
               /\ UNCHANGED <<row, confirmation, targets>>
            \/ /\ Licensed /\ SetStatus("INVALIDATED") /\ confirmation' = 0 /\ auth' = NoAuth
               /\ \E violation \in ExecuteViolations : Correct(violation) /\ targets' = violation
            \/ /\ step' \in Emits /\ SetStatus("EXECUTED")
               /\ UNCHANGED <<confirmation, auth, targets>>
<1>1. step = "execute" /\ kind \in Guided /\ Calls(ExecuteKey) /\ kind \in Named
  BY WorkflowOfStep DEF Execute, TypeOK, End
<1>2. /\ Goto("error") => step' = "emit_error" /\ step' \in DOMAIN Graph[kind]
      /\ Goto("completed") => step' = "emit_result" /\ step' \in DOMAIN Graph[kind]
      /\ kind \in Transfers /\ Goto("reauthentication") =>
           step' = "start_auth" /\ step' \in DOMAIN Graph[kind]
  <2>1. CASE kind \in Transfers
    BY <1>1, <2>1, TailStep, AuthEdges DEF TailSteps
  <2>2. CASE kind \in Settings
    BY <1>1, <2>2, SettingEdges, GuidedGraph, WaypointsInGraph DEF Goto, Transfers, Settings
  <2> QED
    BY <1>1, <2>1, <2>2 DEF Guided
<1>3. ASSUME NEW violation \in ExecuteViolations, Correct(violation)
      PROVE  step' \in DOMAIN Graph[kind]
  BY <1>1, <1>3, ViolatedAtExecute, CorrectMove
<1>4. CASE Goto("error") /\ UNCHANGED <<row, confirmation, auth, targets>>
  BY <1>1, <1>2, <1>4 DEF Emits
<1>5. CASE /\ Licensed /\ kind \in Transfers
           /\ Goto("reauthentication") /\ auth' = NoAuth
           /\ UNCHANGED <<row, confirmation, targets>>
  BY <1>1, <1>2, <1>5
<1>6. CASE /\ Licensed
           /\ \E violation \in ExecuteViolations \ {{}} :
                /\ SetStatus("INVALIDATED")
                /\ Correct(violation) /\ targets' = violation
                /\ confirmation' = 0 /\ auth' = NoAuth
  BY <1>1, <1>3, <1>6
<1>7. CASE /\ SetStatus("EXECUTED")
           /\ Goto("completed") \/ Goto("error")
           /\ UNCHANGED <<confirmation, auth, targets>>
  BY <1>1, <1>2, <1>7 DEF Emits
<1> QED
  BY <1>1, <1>4, <1>5, <1>6, <1>7 DEF Execute

LEMMA EndMove ==
  ASSUME TypeOK
  PROVE  /\ Query => step = "query" /\ kind \in Queries /\ step' = "emit_result"
         /\ EmitEnd => step \in Emits /\ step' = End
         /\ ToolFails => step' = "emit_error" /\ step # "extract"
<1>1. ASSUME Query
      PROVE  step = "query" /\ kind \in Queries /\ step' = "emit_result"
  <2>1. step = "query" /\ kind \in Queries
    BY <1>1, WorkflowOfStep DEF Query, TypeOK, End
  <2> QED
    BY <1>1, <2>1, QueryEdges DEF Query, Goto
<1>2. ASSUME EmitEnd
      PROVE  step \in Emits /\ step' = End
  BY <1>2, EmitEdges DEF EmitEnd, Goto, TypeOK, Emits, End
<1>3. ASSUME ToolFails
      PROVE  step' = "emit_error" /\ step # "extract"
  <2>2. /\ kind \in Named /\ step \in DOMAIN Graph[kind] /\ Goto("error")
        /\ \/ step \in {ResolveStep[s] : s \in DOMAIN ResolveStep}
           \/ step \in {"resolve_hint", "prepare", "create_auth", "execute", "query"}
    BY <1>3 DEF ToolFails, TypeOK, ResolveStep, End
  <2>3. CASE step \in {ResolveStep[s] : s \in DOMAIN ResolveStep}
    <3>1. PICK s \in DOMAIN ResolveStep : step = ResolveStep[s]
      BY <2>3
    <3>2. s \in AccountSlots /\ s \in Slots[kind]
      BY <2>2, <3>1, WorkflowOfStep DEF ResolveStep, AccountSlots
    <3>3. step # "extract"
      BY <3>1 DEF ResolveStep
    <3> QED
      BY <2>2, <3>1, <3>2, <3>3, ResolveEdges DEF Goto
  <2>4. CASE step = "resolve_hint"
    BY <2>2, <2>4, WorkflowOfStep, HintEdges DEF Goto
  <2>5. CASE step = "query"
    BY <2>2, <2>5, WorkflowOfStep, QueryEdges DEF Goto
  <2>6. CASE step = "create_auth"
    BY <2>2, <2>6, WorkflowOfStep, TailStep, AuthEdges DEF TailSteps
  <2>7. CASE step \in {"prepare", "execute"} /\ kind \in Transfers
    BY <2>2, <2>7, TailStep, TransferEdges, AuthEdges DEF TailSteps
  <2>8. CASE step \in {"prepare", "execute"} /\ kind \in Settings
    BY <2>2, <2>8, SettingEdges DEF Goto
  <2>9. step \in {"prepare", "execute"} => kind \in Transfers \/ kind \in Settings
    BY <2>2, WorkflowOfStep DEF Guided
  <2> QED
    BY <2>2, <2>3, <2>4, <2>5, <2>6, <2>7, <2>8, <2>9
<1> QED
  BY <1>1, <1>2, <1>3

-----------------------------------------------------------------------------
(* The run stays in its graph *)

LEMMA TypeInit == Init => TypeOK
<1> SUFFICES ASSUME Init PROVE TypeOK
  OBVIOUS
<1>1. kind \in Named
  BY WorkflowAssumption DEF Init, Named
<1>2. step \in DOMAIN Graph[kind]
  BY <1>1, WaypointsInGraph DEF Init
<1> QED
  BY <1>1, <1>2 DEF Init, TypeOK, Values, NoRow, NoAuth, RowStatuses, AuthStatuses

\* What a step leaves as it is, apart from the position and the slots.
Records == <<kind, targets, confirmation, auth, prepareAttempt, authAttempt, confirmations, row,
             consumed, owned>>

LEMMA TypeAlong ==
  ASSUME TypeOK, UNCHANGED Records, step' \in DOMAIN Graph[kind] \cup {End},
         slot' \in [AllSlots -> Values], hint' \in [AccountSlots -> Hints \cup {None}],
         offered' \subseteq owned, active' \subseteq owned
  PROVE  TypeOK'
BY DEF TypeOK, Records

LEMMA TypeCollect ==
  ASSUME TypeOK, CollectMove
  PROVE  TypeOK'
<1>1. slot' \in [AllSlots -> Values]
  <2>1. ASSUME NEW s \in Slots[kind], Gains(s)
        PROVE  slot' \in [AllSlots -> Values]
    <3>1. slot' = [slot EXCEPT ![s] = slot'[s]] /\ slot'[s] \in Values
      BY <2>1 DEF Gains
    <3> QED
      BY <3>1 DEF TypeOK
  <2>2. (\E s \in Slots[kind] : Gains(s)) \/ slot' = slot
    BY DEF CollectMove, Asks, Passes, Stops
  <2> QED
    BY <2>1, <2>2 DEF TypeOK
<1>2. UNCHANGED Records /\ hint' = hint /\ offered' \subseteq owned /\ active' = active
  BY DEF CollectMove, Elsewhere, Records, backend
<1> QED
  BY <1>1, <1>2, TypeAlong DEF CollectMove, TypeOK

LEMMA TypePrepare ==
  ASSUME TypeOK, Prepare
  PROVE  TypeOK'
<1>1. /\ kind \in Guided /\ step' \in DOMAIN Graph[kind]
      /\ \/ UNCHANGED <<confirmations, row, consumed, confirmation, targets>>
         \/ /\ \E violation \in Violations(slot) : targets' = violation
            /\ UNCHANGED <<confirmations, row, consumed, confirmation>>
         \/ Prepared
  BY PrepareMove
<1>2. UNCHANGED <<kind, owned, slot, hint, force, offered, auth, prepareAttempt, authAttempt, active>>
  BY DEF Prepare
<1>3. targets' \subseteq Slots[kind] \cap DOMAIN Resets
  BY <1>1, Violated DEF Prepared, TypeOK
<1>4. /\ confirmations' \in Nat /\ confirmation' \in Nat /\ consumed' \subseteq Candidates
      /\ row' \in [fixed : [AllSlots -> Values], status : RowStatuses]
  BY <1>1 DEF Prepared, TypeOK, RowStatuses
<1> QED
  BY <1>1, <1>2, <1>3, <1>4 DEF TypeOK

LEMMA TypeExecute ==
  ASSUME TypeOK, Execute
  PROVE  TypeOK'
<1>1. /\ kind \in Guided /\ step' \in DOMAIN Graph[kind]
      /\ confirmation' \in {0, confirmation} /\ auth' \in {NoAuth, auth}
      /\ row' = row \/ (\E s \in RowStatuses : SetStatus(s))
      /\ targets' = targets \/ targets' \in ExecuteViolations
  BY ExecuteMove DEF RowStatuses
<1>2. UNCHANGED <<kind, owned, slot, hint, force, offered, prepareAttempt, authAttempt,
                  confirmations, consumed, active>>
  BY DEF Execute
<1>3. targets' \subseteq Slots[kind] \cap DOMAIN Resets
  BY <1>1, ViolatedAtExecute DEF TypeOK
<1>4. row' \in [fixed : [AllSlots -> Values], status : RowStatuses]
  BY <1>1 DEF TypeOK, SetStatus
<1>5. auth' \in [confirmation : Nat, status : AuthStatuses]
  BY <1>1 DEF TypeOK, NoAuth, AuthStatuses
<1> QED
  BY <1>1, <1>2, <1>3, <1>4, <1>5 DEF TypeOK

LEMMA TypeStatus ==
  ASSUME TypeOK, NEW s \in RowStatuses, SetStatus(s),
         step' \in DOMAIN Graph[kind] \cup {End},
         UNCHANGED <<kind, owned, data, confirmations, consumed, active>>
  PROVE  TypeOK'
<1>1. row' \in [fixed : [AllSlots -> Values], status : RowStatuses]
  BY DEF TypeOK, SetStatus
<1> QED
  BY <1>1 DEF TypeOK, data

LEMMA TypeReset ==
  ASSUME TypeOK, NEW t \in DOMAIN Resets, Reset(t)
  PROVE  TypeOK'
<1>1. /\ step' \in DOMAIN Graph[kind] /\ confirmation' = 0 /\ auth' = NoAuth /\ authAttempt' = 0
      /\ targets' = {} /\ offered' \subseteq owned
      /\ UNCHANGED <<kind, owned, prepareAttempt, confirmations, row, consumed, active>>
  BY ResetMove DEF Reset, TypeOK, backend
<1>2. slot' \in [AllSlots -> Values] /\ hint' \in [AccountSlots -> Hints \cup {None}]
  BY DEF Reset, TypeOK, Values
<1>3. auth' \in [confirmation : Nat, status : AuthStatuses]
  BY <1>1 DEF NoAuth, AuthStatuses
<1> QED
  BY <1>1, <1>2, <1>3 DEF TypeOK

LEMMA TypeAuth ==
  ASSUME TypeOK, step' \in DOMAIN Graph[kind] \cup {End},
         UNCHANGED <<kind, owned, slot, hint, offered, targets, confirmation, prepareAttempt,
                     confirmations, row, consumed, active>>,
         authAttempt' \in {authAttempt, authAttempt + 1},
         \/ auth' \in {auth, NoAuth, [confirmation |-> confirmation, status |-> "PENDING"]}
         \/ \E s \in AuthStatuses : SetAuth(s)
  PROVE  TypeOK'
<1>1. auth' \in [confirmation : Nat, status : AuthStatuses]
  <2>1. CASE auth' \in {auth, NoAuth, [confirmation |-> confirmation, status |-> "PENDING"]}
    BY <2>1 DEF TypeOK, NoAuth, AuthStatuses
  <2>2. CASE \E s \in AuthStatuses : SetAuth(s)
    BY <2>2 DEF TypeOK, SetAuth
  <2> QED
    BY <2>1, <2>2
<1>2. authAttempt' \in Nat
  BY DEF TypeOK
<1> QED
  BY <1>1, <1>2 DEF TypeOK

LEMMA TypeNext == TypeOK /\ [Next]_vars => TypeOK'
<1> SUFFICES ASSUME TypeOK, [Next]_vars PROVE TypeOK'
  OBVIOUS
<1> USE DEF data, backend
<1>1. CASE Extract
  BY <1>1, ExtractMove, TypeAlong DEF Extract, TypeOK, Records
<1>2. ASSUME NEW s \in DOMAIN ResolveStep, Resolve(s) PROVE TypeOK'
  BY <1>2, ResolveMove, TypeCollect
<1>3. CASE ResolveHint \/ CheckAmount
  BY <1>3, HintMove, AmountMove, TypeCollect
<1>4. ASSUME NEW s \in DOMAIN CheckStep, CheckGiven(s) PROVE TypeOK'
  BY <1>4, CheckMove, TypeCollect
<1>5. ASSUME NEW s \in AllSlots, Select(s) PROVE TypeOK'
  BY <1>5, SelectMove, TypeCollect
<1>6. ASSUME NEW s \in AllSlots, CancelInput(s) PROVE TypeOK'
  <2>1. step' \in DOMAIN Graph[kind] \cup {End} /\ UNCHANGED <<kind, owned, data, backend, active>>
    BY <1>6, CancelInputMove DEF CancelInput
  <2> QED
    BY <2>1, TypeAlong DEF TypeOK, Records
<1>7. CASE StartPrepare
  <2>1. step' \in DOMAIN Graph[kind]
    BY <1>7, StartPrepareMove
  <2>2. prepareAttempt' \in Nat
    BY <1>7, WorkflowAssumption DEF StartPrepare, PrepareCap, TypeOK
  <2> QED
    BY <1>7, <2>1, <2>2 DEF StartPrepare, TypeOK
<1>8. CASE Prepare
  BY <1>8, TypePrepare
<1>9. CASE Approve
  BY <1>9, ApproveMove, TypeStatus DEF Approve, RowStatuses
<1>10. ASSUME NEW t \in AllSlots, RequestChange(t) PROVE TypeOK'
  BY <1>10, RequestChangeMove, TypeStatus DEF RequestChange, RowStatuses
<1>11. CASE CancelApproval
  BY <1>11, CancelApprovalMove, TypeStatus DEF CancelApproval, RowStatuses
<1>12. CASE RouteCorrection \/ CancelCorrection
  <2>1. step' \in DOMAIN Graph[kind] \cup {End} /\ UNCHANGED <<kind, owned, data, backend, active>>
    BY <1>12, CorrectionMove DEF RouteCorrection, CancelCorrection
  <2> QED
    BY <2>1, TypeAlong DEF TypeOK, Records
<1>13. ASSUME NEW t \in AllSlots, SelectCorrection(t) PROVE TypeOK'
  <2>1. step' \in DOMAIN Graph[kind] /\ UNCHANGED <<kind, owned, data, backend, active>>
    BY <1>13, SelectCorrectionMove DEF SelectCorrection
  <2> QED
    BY <2>1, TypeAlong DEF TypeOK, Records
<1>14. ASSUME NEW t \in DOMAIN Resets, Reset(t) PROVE TypeOK'
  BY <1>14, TypeReset
<1>15. CASE StartAuth \/ CreateAuth \/ Authenticate \/ AnswerRetry
  <2>1. kind \in Transfers /\ step' \in TailSteps \cup {End}
    BY <1>15, AuthMove DEF TailSteps
  <2>2. step' \in DOMAIN Graph[kind] \cup {End}
    BY <2>1, GuidedGraph DEF Guided
  <2>3. CASE StartAuth
    BY <2>2, <2>3, TypeAuth DEF StartAuth, NextAuthAttempt
  <2>4. CASE CreateAuth
    BY <2>2, <2>4, TypeAuth DEF CreateAuth
  <2>5. CASE Authenticate
    <3>1. \E s \in AuthStatuses : SetAuth(s)
      BY <2>5 DEF Authenticate, AuthStatuses
    <3> QED
      BY <2>2, <2>5, <3>1, TypeAuth DEF Authenticate
  <2>6. CASE AnswerRetry
    BY <2>2, <2>6, TypeAuth DEF AnswerRetry
  <2> QED
    BY <1>15, <2>3, <2>4, <2>5, <2>6
<1>16. CASE Execute
  BY <1>16, TypeExecute
<1>17. CASE Query \/ ToolFails \/ EmitEnd
  <2>1. step' \in {"emit_result", "emit_error", End} /\ (Query => kind \in Queries)
    BY <1>17, EndMove
  <2>2. step' \in DOMAIN Graph[kind] \cup {End}
    <3>1. kind \in Named
      BY DEF TypeOK
    <3>2. kind \in Queries => "emit_result" \in DOMAIN Graph[kind]
      BY Domains DEF Queries, QuerySteps
    <3>3. step' = "emit_result" => kind \in Queries
      BY <1>17, EndMove DEF End
    <3> QED
      BY <2>1, <3>1, <3>2, <3>3, WaypointsInGraph
  <2>3. UNCHANGED Records /\ slot' = slot /\ hint' = hint /\ offered' = offered /\ active' = active
    BY <1>17 DEF Query, ToolFails, EmitEnd, Records
  <2> QED
    BY <2>2, <2>3, TypeAlong DEF TypeOK
<1>18. CASE AuthExpires
  <2>1. SetAuth("EXPIRED") /\ step' = step
    BY <1>18 DEF AuthExpires
  <2>2. \E s \in AuthStatuses : SetAuth(s)
    BY <2>1 DEF AuthStatuses
  <2> QED
    BY <1>18, <2>1, <2>2, TypeAuth DEF AuthExpires, TypeOK
<1>19. ASSUME NEW a \in UNION Portfolios, Deactivate(a) PROVE TypeOK'
  BY <1>19 DEF Deactivate, TypeOK
<1>20. CASE UNCHANGED vars
  BY <1>20 DEF vars, TypeOK
<1> QED
  BY <1>1, <1>2, <1>3, <1>4, <1>5, <1>6, <1>7, <1>8, <1>9, <1>10, <1>11, <1>12, <1>13, <1>14, <1>15,
     <1>16, <1>17, <1>18, <1>19, <1>20 DEF Next, Run, Answer

\* A run never leaves the steps of its workflow, and its slots, confirmation
\* and authentication always have a value of their kind: the routes and reset
\* targets its steps return are all in the graph that is compiled.
THEOREM StaysInItsGraph == Spec => []TypeOK
<1>1. Init => TypeOK
  BY TypeInit
<1>2. TypeOK /\ [Next]_vars => TypeOK'
  BY TypeNext
<1> QED
  BY <1>1, <1>2, PTL DEF Spec

-----------------------------------------------------------------------------
(* Prepare has every slot *)

Final == Emits \cup {End}

\* At every step before the end, the slots in front of it are filled in.
Collected == kind \in Guided /\ step \notin Final => UpTo(Filled(kind, step), kind, slot)

LEMMA CollectedInit == Init => Collected
<1> SUFFICES ASSUME Init, kind \in Guided PROVE UpTo(Filled(kind, step), kind, slot)
  BY DEF Collected
<1>1. Filled(kind, step) = 0 /\ \A s \in Slots[kind] : slot[s] = None
  BY FilledElsewhere DEF Init, AllSlots, Slots, Guided, Transfers, Settings
<1> QED
  BY <1>1, Ranks DEF UpTo

\* Nothing is lost from the first Prepare to the next correction.
LEMMA StaysFull ==
  ASSUME Collected, kind \in Guided, step \in TailSteps \ Final,
         kind' = kind, slot' = slot,
         step' \in TailSteps \cup Final \cup {Resets[t] : t \in Slots[kind] \cap DOMAIN Resets}
  PROVE  Collected'
<1> SUFFICES ASSUME step' \notin Final
             PROVE  UpTo(Filled(kind, step'), kind, slot)
  BY DEF Collected
<1>1. Filled(kind, step) = 3 /\ Filled(kind, step') = 3
  BY FilledElsewhere
<1> QED
  BY <1>1 DEF Collected

LEMMA CollectedExtract ==
  ASSUME TypeOK, Extract
  PROVE  Collected'
<1> SUFFICES ASSUME kind \in Guided
             PROVE  UpTo(Filled(kind, step'), kind, slot')
  BY DEF Collected, Extract
<1>1. /\ Filled(kind, step') = 0
      /\ \A s \in Slots[kind] : slot'[s] # None => s \in {"amount", "alias"}
  BY ExtractMove DEF AllSlots, Slots, Guided, Transfers, Settings
<1>2. \A s \in Slots[kind] : Rank[kind][s] \in 1..3
  BY Ranks
<1>3. \A s, t \in Slots[kind] : s \in {"amount", "alias"} => Rank[kind][t] <= Rank[kind][s]
  BY Ranks
<1> QED
  BY <1>1, <1>2, <1>3 DEF UpTo

LEMMA CollectedCollect ==
  ASSUME TypeOK, Collected, CollectMove
  PROVE  Collected'
<1> SUFFICES ASSUME kind \in Guided, step' \notin Final
             PROVE  UpTo(Filled(kind, step'), kind, slot')
  BY DEF Collected, CollectMove, Elsewhere
<1>1. UpTo(Filled(kind, step), kind, slot)
  BY DEF Collected, CollectMove, Final, Emits, Waypoints, End
<1>2. ASSUME NEW s \in Slots[kind], Gains(s)
      PROVE  UpTo(Filled(kind, step'), kind, slot')
  <2>1. /\ Filled(kind, step) = Rank[kind][s] - 1 /\ step' = After[kind][s]
        /\ slot' = [slot EXCEPT ![s] = slot'[s]] /\ slot'[s] # None
    BY <1>2 DEF Gains, WorksOn
  <2>2. \A t \in Slots[kind] : t # s => slot'[t] = slot[t]
    BY <2>1 DEF TypeOK, AllSlots, Slots, Guided, Transfers, Settings
  <2> QED
    BY <1>1, <2>1, <2>2, FilledMore
<1>3. ASSUME NEW s \in Slots[kind], Asks(s)
      PROVE  UpTo(Filled(kind, step'), kind, slot')
  <2>1. Filled(kind, step) = Rank[kind][s] - 1 /\ step' = RequestStep[s] /\ slot' = slot
    BY <1>3 DEF Asks, WorksOn
  <2>2. Filled(kind, step') = Filled(kind, step)
    BY <2>1, FilledAround
  <2> QED
    BY <1>1, <2>1, <2>2
<1>4. CASE Passes
  <2>1. /\ kind \in Transfers /\ step = "check_amount" /\ step' = "start_prepare" /\ slot' = slot
        /\ slot["amount"] # None
    BY <1>4 DEF Passes
  <2>2. Filled(kind, step) = Rank[kind]["amount"] - 1 /\ Filled(kind, step') = 3
    BY <2>1, FilledElsewhere DEF TailSteps
  <2>3. "amount" \in Slots[kind]
    BY <2>1 DEF Transfers, Slots
  <2>4. \A t \in Slots[kind] : Rank[kind][t] \in 1..3
    BY Ranks
  <2>5. \A t \in Slots[kind] : Rank[kind][t] = Rank[kind]["amount"] => t = "amount"
    BY <2>3, Ranks
  <2>6. \A t \in Slots[kind] : Rank[kind][t] <= Rank[kind]["amount"]
    BY <2>3, Ranks
  <2>7. \A t \in Slots[kind] : slot[t] # None
    <3> TAKE t \in Slots[kind]
    <3>1. CASE t = "amount"
      BY <2>1, <3>1
    <3>2. CASE t # "amount"
      <4>1. Rank[kind][t] <= Rank[kind]["amount"] - 1
        BY <2>3, <2>4, <2>5, <2>6, <3>2
      <4> QED
        BY <1>1, <2>2, <4>1 DEF UpTo
    <3> QED
      BY <3>1, <3>2
  <2> QED
    BY <2>1, <2>7 DEF UpTo
<1>5. CASE Stops
  BY <1>5 DEF Stops, Final, Emits
<1> QED
  BY <1>2, <1>3, <1>4, <1>5 DEF CollectMove

LEMMA CollectedCancelInput ==
  ASSUME TypeOK, Collected, NEW s \in AllSlots, CancelInput(s)
  PROVE  Collected'
<1> SUFFICES ASSUME kind \in Guided, step' \notin Final
             PROVE  UpTo(Filled(kind, step'), kind, slot)
  BY DEF Collected, CancelInput, data
<1>1. /\ s \in Slots[kind] /\ step = RequestStep[s] /\ step \in Waypoints
      /\ Returns(s) /\ step' = "start_prepare"
  BY CancelInputMove DEF Final
<1>2. UpTo(Rank[kind][s] - 1, kind, slot)
  <2>1. step \notin Final
    BY <1>1 DEF Final, Emits, Waypoints, End
  <2> QED
    BY <1>1, <2>1, FilledAround DEF Collected
<1>3. slot[s] # None
  BY <1>1 DEF Returns
<1>4. \A t \in Slots[kind] : /\ Rank[kind][t] \in 1..3
                             /\ Rank[kind][t] = Rank[kind][s] => t = s
  BY <1>1, Ranks
<1>5. \A t \in Slots[kind] : slot[t] # None
  <2> TAKE t \in Slots[kind]
  <2>1. CASE Rank[kind][t] < Rank[kind][s]
    BY <1>1, <1>2, <1>4, <2>1 DEF UpTo
  <2>2. CASE Rank[kind][t] > Rank[kind][s]
    BY <1>1, <1>2, <1>3, <1>4, <2>2 DEF UpTo
  <2>3. CASE Rank[kind][t] = Rank[kind][s]
    BY <1>3, <1>4, <2>3
  <2> QED
    BY <1>1, <1>4, <2>1, <2>2, <2>3
<1> QED
  BY <1>5 DEF UpTo

LEMMA CollectedReset ==
  ASSUME TypeOK, Collected, NEW t \in DOMAIN Resets, Reset(t)
  PROVE  Collected'
<1>1. /\ kind \in Guided /\ t \in Slots[kind] /\ step = Resets[t] /\ step \in ResetSteps
      /\ step' = Again[t] /\ kind' = kind
  BY ResetMove DEF Reset
<1>2. UpTo(3, kind, slot) /\ Filled(kind, step') = Rank[kind][t] - 1
  <2>1. step \notin Final
    BY <1>1 DEF Final, Emits, ResetSteps, End
  <2> QED
    BY <1>1, <2>1, FilledElsewhere DEF Collected
<1>3. \A s \in Slots[kind] : Rank[kind][s] \in 1..3
  BY <1>1, Ranks
<1>4. \A s \in Slots[kind] : slot[s] # None
  BY <1>2, <1>3 DEF UpTo
<1>5. \A s \in Slots[kind] : s # t => slot'[s] = slot[s]
  BY <1>1 DEF Reset, TypeOK, AllSlots, Slots, Guided, Transfers, Settings
<1>6. \A s \in Slots[kind] : Rank[kind][s] = Rank[kind][t] => s = t
  BY <1>1, Ranks
<1>7. \A s \in Slots[kind] : s # t => slot'[s] # None
  BY <1>4, <1>5
<1>8. UpTo(Rank[kind][t] - 1, kind, slot')
  BY <1>1, <1>3, <1>7 DEF UpTo
<1> QED
  BY <1>1, <1>2, <1>8 DEF Collected

LEMMA CollectedNext == TypeOK /\ Collected /\ [Next]_vars => Collected'
<1> SUFFICES ASSUME TypeOK, Collected, [Next]_vars PROVE Collected'
  OBVIOUS
<1>1. CASE Extract
  BY <1>1, CollectedExtract
<1>2. ASSUME NEW s \in DOMAIN ResolveStep, Resolve(s) PROVE Collected'
  BY <1>2, ResolveMove, CollectedCollect
<1>3. CASE ResolveHint \/ CheckAmount
  BY <1>3, HintMove, AmountMove, CollectedCollect
<1>4. ASSUME NEW s \in DOMAIN CheckStep, CheckGiven(s) PROVE Collected'
  BY <1>4, CheckMove, CollectedCollect
<1>5. ASSUME NEW s \in AllSlots, Select(s) PROVE Collected'
  BY <1>5, SelectMove, CollectedCollect
<1>6. ASSUME NEW s \in AllSlots, CancelInput(s) PROVE Collected'
  BY <1>6, CollectedCancelInput
<1>7. CASE StartPrepare
  BY <1>7, StartPrepareMove, StaysFull DEF StartPrepare, TailSteps, Final, Emits, End
<1>8. CASE Prepare
  <2>1. kind \in Guided /\ step = "prepare" /\ kind' = kind /\ slot' = slot
    BY <1>8, PrepareMove DEF Prepare
  <2>2. step' \in TailSteps \cup Final \cup {Resets[t] : t \in Slots[kind] \cap DOMAIN Resets}
    <3>1. CASE \E violation \in Violations(slot) : Correct(violation)
      BY <2>1, <3>1, Violated, CorrectMove DEF Guided, TailSteps
    <3>2. CASE step' \in Emits \/ Prepared
      BY <3>2 DEF Prepared, TailSteps, Final, Emits
    <3> QED
      BY <1>8, <3>1, <3>2, PrepareMove
  <2> QED
    BY <2>1, <2>2, StaysFull DEF TailSteps, Final, Emits, End
<1>9. CASE Approve
  BY <1>9, ApproveMove, StaysFull DEF Approve, data, TailSteps, Final, Emits, End
<1>10. ASSUME NEW t \in AllSlots, RequestChange(t) PROVE Collected'
  BY <1>10, RequestChangeMove, StaysFull DEF RequestChange, data, TailSteps, Final, Emits, End
<1>11. CASE CancelApproval
  BY <1>11, CancelApprovalMove, StaysFull DEF CancelApproval, data, TailSteps, Final, Emits, End
<1>12. CASE RouteCorrection \/ CancelCorrection
  BY <1>12, CorrectionMove, StaysFull
     DEF RouteCorrection, CancelCorrection, data, TailSteps, Final, Emits, End, Guided
<1>13. ASSUME NEW t \in AllSlots, SelectCorrection(t) PROVE Collected'
  BY <1>13, SelectCorrectionMove, StaysFull
     DEF SelectCorrection, data, TailSteps, Final, Emits, End, Guided
<1>14. ASSUME NEW t \in DOMAIN Resets, Reset(t) PROVE Collected'
  BY <1>14, CollectedReset
<1>15. CASE StartAuth \/ CreateAuth \/ Authenticate \/ AnswerRetry
  <2>1. /\ kind \in Guided /\ step \in TailSteps \ Final /\ step' \in TailSteps \cup Final
    BY <1>15, AuthMove DEF TailSteps, Final, Emits, End, Guided
  <2>2. kind' = kind /\ slot' = slot
    BY <1>15 DEF StartAuth, CreateAuth, Authenticate, AnswerRetry, data
  <2> QED
    BY <2>1, <2>2, StaysFull
<1>16. CASE Execute
  <2>1. kind \in Guided /\ step = "execute" /\ kind' = kind /\ slot' = slot
    BY <1>16, ExecuteMove DEF Execute
  <2>2. step' \in TailSteps \cup Final \cup {Resets[t] : t \in Slots[kind] \cap DOMAIN Resets}
    <3>1. CASE \E violation \in ExecuteViolations : Correct(violation)
      BY <2>1, <3>1, ViolatedAtExecute, CorrectMove DEF Guided, TailSteps
    <3>2. CASE step' \in Emits \cup {"start_auth"}
      BY <3>2 DEF TailSteps, Final
    <3> QED
      BY <1>16, <3>1, <3>2, ExecuteMove
  <2> QED
    BY <2>1, <2>2, StaysFull DEF TailSteps, Final, Emits, End
<1>17. CASE Query \/ ToolFails \/ EmitEnd
  BY <1>17, EndMove DEF Collected, Final, Emits
<1>18. CASE AuthExpires \/ UNCHANGED vars \/ (\E a \in UNION Portfolios : Deactivate(a))
  BY <1>18 DEF AuthExpires, Deactivate, vars, data, Collected
<1> QED
  BY <1>1, <1>2, <1>3, <1>4, <1>5, <1>6, <1>7, <1>8, <1>9, <1>10, <1>11, <1>12, <1>13, <1>14, <1>15,
     <1>16, <1>17, <1>18 DEF Next, Run, Answer

LEMMA CollectedHasSlots == TypeOK /\ Collected => PrepareHasEverySlot
<1> SUFFICES ASSUME TypeOK, Collected, step = "prepare", NEW s \in Slots[kind]
             PROVE  slot[s] # None
  BY DEF PrepareHasEverySlot
<1>1. kind \in Guided /\ step \in TailSteps /\ step \notin Final
  BY WorkflowOfStep DEF TypeOK, TailSteps, Final, Emits, End
<1>2. Rank[kind][s] \in 1..3 /\ Filled(kind, step) = 3
  BY <1>1, Ranks, FilledElsewhere
<1> QED
  BY <1>1, <1>2 DEF Collected, UpTo

\* Whatever screens the user goes back to and cancels, and whatever is
\* corrected, Prepare is only ever sent complete values.
THEOREM PreparesComplete == Spec => []PrepareHasEverySlot
<1>1. Init => TypeOK /\ Collected
  BY TypeInit, CollectedInit
<1>2. (TypeOK /\ Collected) /\ [Next]_vars => (TypeOK /\ Collected)'
  BY TypeNext, CollectedNext
<1> QED
  BY <1>1, <1>2, CollectedHasSlots, PTL DEF Spec

-----------------------------------------------------------------------------
(* What is approved is what is executed *)

\* The steps at which a confirmation is in use.
Live == {"approval", "start_auth", "create_auth", "request_auth", "request_retry", "execute"}

\* There the run holds the newest confirmation, which fixes its slots, and
\* before Execute an authentication of that confirmation.
Lives ==
  step \in Live =>
    /\ confirmation = confirmations /\ confirmation # 0
    /\ row.status = (IF step = "approval" THEN "PENDING" ELSE "APPROVED")
    /\ \A s \in Slots[kind] : row.fixed[s] = slot[s]
    /\ step = "request_auth" => auth.confirmation = confirmation
    /\ step = "execute" /\ kind \in Transfers =>
         auth.confirmation = confirmation /\ auth.status \in {"VERIFIED", "EXPIRED"}

LEMMA LivesCollect ==
  ASSUME TypeOK, CollectMove
  PROVE  Lives'
BY CollectsTo DEF Onward, Waypoints, Emits, Live, Lives

LEMMA LivesPrepare ==
  ASSUME TypeOK, Prepare
  PROVE  Lives'
<1> SUFFICES ASSUME step' \in Live PROVE Lives'
  BY DEF Lives
<1>1. step' \notin Emits \cup ResetSteps \cup {"route_correction"}
  BY DEF Live, Emits, ResetSteps
<1>2. Prepared
  <2>1. ASSUME NEW violation \in Violations(slot), Correct(violation)
        PROVE  FALSE
    BY <1>1, <2>1, PrepareMove, Violated, CorrectMove
  <2> QED
    BY <1>1, <2>1, PrepareMove
<1>3. /\ step' = "approval" /\ confirmation' = confirmations' /\ confirmations' = confirmations + 1
      /\ row' = [fixed |-> slot, status |-> "PENDING"]
  BY <1>1, <1>2 DEF Prepared, Emits
<1>4. slot' = slot /\ kind' = kind /\ confirmation' # 0
  BY <1>3 DEF Prepare, TypeOK
<1> QED
  BY <1>3, <1>4 DEF Lives

LEMMA LivesExecute ==
  ASSUME TypeOK, Lives, Execute
  PROVE  Lives'
<1> SUFFICES ASSUME step' \in Live PROVE Lives'
  BY DEF Lives
<1>1. step' \notin Emits \cup ResetSteps \cup {"route_correction"}
  BY DEF Live, Emits, ResetSteps
<1>2. step' = "start_auth" /\ UNCHANGED <<row, confirmation>>
  <2>1. ASSUME NEW violation \in ExecuteViolations, Correct(violation)
        PROVE  FALSE
    BY <1>1, <2>1, ExecuteMove, ViolatedAtExecute, CorrectMove
  <2> QED
    BY <1>1, <2>1, ExecuteMove
<1>3. step = "execute" /\ UNCHANGED <<kind, slot, confirmations>>
  BY DEF Execute
<1> QED
  BY <1>2, <1>3 DEF Lives, Live

LEMMA LivesNext == TypeOK /\ Lives /\ [Next]_vars => Lives'
<1> SUFFICES ASSUME TypeOK, Lives, [Next]_vars PROVE Lives'
  OBVIOUS
<1> USE DEF data, backend
<1>1. CASE Extract
  BY <1>1, ExtractMove DEF Onward, Waypoints, Emits, Live, Lives
<1>2. ASSUME NEW s \in DOMAIN ResolveStep, Resolve(s) PROVE Lives'
  BY <1>2, ResolveMove, LivesCollect
<1>3. CASE ResolveHint \/ CheckAmount
  BY <1>3, HintMove, AmountMove, LivesCollect
<1>4. ASSUME NEW s \in DOMAIN CheckStep, CheckGiven(s) PROVE Lives'
  BY <1>4, CheckMove, LivesCollect
<1>5. ASSUME NEW s \in AllSlots, Select(s) PROVE Lives'
  BY <1>5, SelectMove, LivesCollect
<1>6. ASSUME NEW s \in AllSlots, CancelInput(s) PROVE Lives'
  BY <1>6, CancelInputMove DEF Live, Lives, End
<1>7. CASE StartPrepare
  BY <1>7, StartPrepareMove DEF Live, Lives
<1>8. CASE Prepare
  BY <1>8, LivesPrepare
<1>9. CASE Approve
  <2>1. step = "approval" /\ step' \in {"start_auth", "execute"} /\ (step' = "execute" => kind \notin Transfers)
    BY <1>9, ApproveMove
  <2>2. row' = [row EXCEPT !.status = "APPROVED"]
    BY <1>9 DEF Approve, SetStatus
  <2>3. row'.status = "APPROVED" /\ row'.fixed = row.fixed
    BY <2>2 DEF TypeOK
  <2> QED
    BY <1>9, <2>1, <2>3 DEF Approve, Live, Lives
<1>10. ASSUME NEW t \in AllSlots, RequestChange(t) PROVE Lives'
  BY <1>10, RequestChangeMove DEF ResetSteps, Live, Lives
<1>11. CASE CancelApproval
  BY <1>11, CancelApprovalMove DEF Live, Lives, End
<1>12. CASE RouteCorrection \/ CancelCorrection
  BY <1>12, CorrectionMove DEF Live, Lives, End
<1>13. ASSUME NEW t \in AllSlots, SelectCorrection(t) PROVE Lives'
  BY <1>13, SelectCorrectionMove DEF ResetSteps, Live, Lives
<1>14. ASSUME NEW t \in DOMAIN Resets, Reset(t) PROVE Lives'
  BY <1>14, ResetMove DEF Waypoints, Live, Lives
<1>15. CASE StartAuth
  BY <1>15, AuthMove DEF StartAuth, Live, Lives
<1>16. CASE CreateAuth
  <2>1. step = "create_auth" /\ step' \in {"request_auth", "emit_error"}
    BY <1>16, AuthMove
  <2>2. step' = "request_auth" => auth' = [confirmation |-> confirmation, status |-> "PENDING"]
    <3>1. Goto("error") => step' # "request_auth"
      BY <1>16, AuthMove, TailStep, AuthEdges DEF TailSteps
    <3> QED
      BY <1>16, <3>1 DEF CreateAuth
  <2> QED
    BY <1>16, <2>1, <2>2 DEF CreateAuth, Live, Lives
<1>17. CASE Authenticate
  <2>1. /\ step = "request_auth" /\ step' \in {"execute", "request_retry", End}
        /\ step' = "execute" => auth' = [auth EXCEPT !.status = "VERIFIED"]
    BY <1>17, AuthMove
  <2>2. step' = "execute" => auth'.status = "VERIFIED" /\ auth'.confirmation = auth.confirmation
    BY <2>1 DEF TypeOK
  <2> QED
    BY <1>17, <2>1, <2>2 DEF Authenticate, Live, Lives, End
<1>18. CASE AnswerRetry
  BY <1>18, AuthMove DEF AnswerRetry, Live, Lives, End
<1>19. CASE Execute
  BY <1>19, LivesExecute
<1>20. CASE Query \/ ToolFails \/ EmitEnd
  BY <1>20, EndMove DEF Live, Lives, End
<1>21. CASE AuthExpires
  <2>1. auth' = [auth EXCEPT !.status = "EXPIRED"] /\ step' = step
    BY <1>21 DEF AuthExpires, SetAuth
  <2>2. auth'.status = "EXPIRED" /\ auth'.confirmation = auth.confirmation
    BY <2>1 DEF TypeOK
  <2> QED
    BY <1>21, <2>1, <2>2 DEF AuthExpires, Live, Lives
<1>22. CASE UNCHANGED vars \/ (\E a \in UNION Portfolios : Deactivate(a))
  BY <1>22 DEF Deactivate, vars, Lives
<1> QED
  BY <1>1, <1>2, <1>3, <1>4, <1>5, <1>6, <1>7, <1>8, <1>9, <1>10, <1>11, <1>12, <1>13, <1>14, <1>15,
     <1>16, <1>17, <1>18, <1>19, <1>20, <1>21, <1>22 DEF Next, Run, Answer

LEMMA LivesApproved ==
  TypeOK /\ Lives => ApprovalIsLive /\ ExecutesWhatWasApproved
<1> SUFFICES ASSUME TypeOK, Lives PROVE ApprovalIsLive /\ ExecutesWhatWasApproved
  OBVIOUS
<1>1. ApprovalIsLive
  BY DEF Lives, Live, ApprovalIsLive, Row
<1>2. ExecutesWhatWasApproved
  BY DEF Lives, Live, ExecutesWhatWasApproved, Row, Licensed
<1> QED
  BY <1>1, <1>2

LEMMA LivesAlways == Spec => [](TypeOK /\ Lives)
<1>1. Init => TypeOK /\ Lives
  BY TypeInit DEF Init, Lives, Live
<1>2. (TypeOK /\ Lives) /\ [Next]_vars => (TypeOK /\ Lives)'
  BY TypeNext, LivesNext
<1> QED
  BY <1>1, <1>2, PTL DEF Spec

\* The confirmation on the approval screen is pending at the Backend and
\* fixes the very values the run has collected.
THEOREM ApprovalAlwaysLive == Spec => []ApprovalIsLive
BY LivesAlways, LivesApproved, PTL

\* However often the user changes, corrects or authenticates again, Execute
\* names the newest confirmation, approved with the values of the run, and in
\* a transfer an authentication made for it.
THEOREM ExecutesTheApproved == Spec => []ExecutesWhatWasApproved
BY LivesAlways, LivesApproved, PTL

-----------------------------------------------------------------------------
(* No Prepare is counted past its bound *)

Lost == Cardinality(owned \ active)

\* Another Prepare of a transfer follows, without the user or with an answer
\* the bound on Prepares allows.
Coming == {"extract", "start_prepare"} \cup Waypoints \cup ResetSteps

TransferCount ==
  kind \in Transfers =>
    /\ prepareAttempt <= MaxPrepare
    /\ step \in Coming => prepareAttempt < MaxPrepare

\* In the settings another Prepare without the user comes only from an
\* account that was lost.
ComingAlone == {"extract", "resolve_account", "reset_account", "check_alias", "start_prepare"}

Unplaced == {"extract", "resolve_account", "reset_account", "request_account"}

AccountLost == slot["account"] # None /\ slot["account"] \notin active

SettingCount ==
  kind \in Settings /\ step \notin Final =>
    /\ prepareAttempt <= MaxPrepare + Lost
    /\ step \in ComingAlone => prepareAttempt < MaxPrepare + Lost
    /\ AccountLost /\ step \notin Unplaced =>
         /\ prepareAttempt < MaxPrepare + Lost
         /\ step \in ComingAlone => prepareAttempt + 1 < MaxPrepare + Lost

Accounts ==
  /\ kind \in Settings => slot["account"] \in owned \cup {None}
  /\ Lost <= MaxClosures

LEMMA LostType ==
  ASSUME TypeOK
  PROVE  /\ IsFiniteSet(owned) /\ IsFiniteSet(owned \ active) /\ Lost \in Nat
         /\ \A a \in owned \ active : Lost >= 1
<1>1. IsFiniteSet(owned) /\ IsFiniteSet(owned \ active)
  BY WorkflowAssumption, FS_Subset DEF TypeOK
<1>2. Lost \in Nat
  BY <1>1, FS_CardinalityType DEF Lost
<1>3. owned \ active # {} => Lost # 0
  BY <1>1, FS_EmptySet DEF Lost
<1> QED
  BY <1>1, <1>2, <1>3

LEMMA LostMore ==
  ASSUME TypeOK, NEW a \in active, active' = active \ {a}, owned' = owned
  PROVE  Lost' = Lost + 1
<1>1. owned' \ active' = (owned \ active) \cup {a} /\ a \notin owned \ active
  BY DEF TypeOK
<1> QED
  BY <1>1, LostType, FS_AddElement DEF Lost

LEMMA CountedInit == Init => TransferCount /\ SettingCount /\ Accounts
<1> SUFFICES ASSUME Init PROVE TransferCount /\ SettingCount /\ Accounts
  OBVIOUS
<1>1. owned \ active = {} /\ slot["account"] = None
  BY DEF Init, AllSlots, Slots
<1>2. Lost = 0
  BY <1>1, FS_EmptySet DEF Lost
<1>3. TransferCount
  BY WorkflowAssumption DEF Init, TransferCount
<1>4. SettingCount /\ Accounts
  BY <1>1, <1>2, WorkflowAssumption DEF Init, SettingCount, Accounts, AccountLost
<1> QED
  BY <1>3, <1>4

LEMMA AccountsNext == TypeOK /\ Accounts /\ [Next]_vars => Accounts'
<1> SUFFICES ASSUME TypeOK, Accounts, [Next]_vars PROVE Accounts'
  OBVIOUS
<1> USE DEF data, backend
<1>1. ASSUME UNCHANGED <<kind, owned, active>>, slot' = slot \/ slot'["account"] = None
      PROVE  Accounts'
  BY <1>1 DEF Accounts, Lost
<1>2. CASE CollectMove
  <2>1. UNCHANGED <<kind, owned, active>>
    BY <1>2 DEF CollectMove, Elsewhere
  <2>2. ASSUME NEW s \in Slots[kind], Gains(s), kind \in Settings
        PROVE  slot'["account"] \in owned \cup {None}
    <3>1. slot' = [slot EXCEPT ![s] = slot'[s]] /\ (s = "account" => slot'[s] \in owned)
      BY <2>2 DEF Gains, AccountSlots, Guided
    <3>2. "account" \in AllSlots
      BY DEF AllSlots, Slots
    <3>3. CASE s = "account"
      BY <3>1, <3>3
    <3>4. CASE s # "account"
      <4>1. slot'["account"] = slot["account"]
        BY <3>1, <3>2, <3>4 DEF TypeOK
      <4> QED
        BY <2>2, <4>1 DEF Accounts
    <3> QED
      BY <3>3, <3>4
  <2>3. (\E s \in Slots[kind] : Gains(s)) \/ slot' = slot
    BY <1>2 DEF CollectMove, Asks, Passes, Stops
  <2> QED
    BY <2>1, <2>2, <2>3 DEF Accounts, Lost
<1>3. CASE Extract
  <2>1. slot'["account"] = None
    BY <1>3, ExtractMove DEF AllSlots, Slots
  <2> QED
    BY <1>1, <1>3, <2>1 DEF Extract
<1>4. ASSUME NEW t \in DOMAIN Resets, Reset(t) PROVE Accounts'
  <2>1. slot \in [AllSlots -> Values] /\ "account" \in AllSlots
    BY DEF TypeOK, AllSlots, Slots
  <2>2. slot'["account"] \in {slot["account"], None}
    BY <1>4, <2>1 DEF Reset
  <2> QED
    BY <1>4, <2>2 DEF Reset, Accounts, Lost
<1>5. ASSUME NEW a \in UNION Portfolios, Deactivate(a) PROVE Accounts'
  <2>1. Lost' = Lost + 1 /\ Lost < MaxClosures
    BY <1>5, LostMore DEF Deactivate, Lost
  <2> QED
    BY <1>5, <2>1, LostType, WorkflowAssumption DEF Deactivate, Accounts
<1>6. CASE ResolveHint \/ CheckAmount \/ (\E s \in DOMAIN ResolveStep : Resolve(s))
           \/ (\E s \in DOMAIN CheckStep : CheckGiven(s)) \/ (\E s \in AllSlots : Select(s))
  BY <1>2, <1>6, HintMove, AmountMove, ResolveMove, CheckMove, SelectMove
<1>7. CASE \/ StartPrepare \/ Prepare \/ RouteCorrection \/ StartAuth \/ CreateAuth \/ Execute
           \/ Query \/ ToolFails \/ EmitEnd \/ AuthExpires
  BY <1>1, <1>7 DEF StartPrepare, Prepare, RouteCorrection, StartAuth, CreateAuth, Execute, Query,
                    ToolFails, EmitEnd, AuthExpires
<1>8. CASE \/ Approve \/ CancelApproval \/ CancelCorrection \/ Authenticate \/ AnswerRetry
           \/ UNCHANGED vars
  BY <1>1, <1>8 DEF Approve, CancelApproval, CancelCorrection, Authenticate, AnswerRetry, vars
<1>9. CASE \/ \E s \in AllSlots : CancelInput(s)
           \/ \E t \in AllSlots : RequestChange(t) \/ SelectCorrection(t)
  BY <1>1, <1>9 DEF CancelInput, RequestChange, SelectCorrection
<1> QED
  BY <1>3, <1>4, <1>5, <1>6, <1>7, <1>8, <1>9 DEF Next, Run, Answer

LEMMA TransferCountNext == TypeOK /\ TransferCount /\ [Next]_vars => TransferCount'
<1> SUFFICES ASSUME TypeOK, TransferCount, [Next]_vars PROVE TransferCount'
  OBVIOUS
<1> USE DEF data, backend
<1> DEFINE Same == kind' = kind /\ prepareAttempt' = prepareAttempt
<1>1. ASSUME Same, step \in Coming \/ (kind \in Transfers => step' \notin Coming)
                   \/ prepareAttempt < MaxPrepare
      PROVE  TransferCount'
  BY <1>1 DEF TransferCount
<1>2. CASE CollectMove
  BY <1>1, <1>2 DEF CollectMove, Elsewhere, Coming
<1>3. CASE Extract
  BY <1>1, <1>3 DEF Extract, Coming
<1>4. ASSUME NEW s \in AllSlots, CancelInput(s) PROVE TransferCount'
  BY <1>1, <1>4, CancelInputMove DEF CancelInput, Coming
<1>5. CASE StartPrepare
  <2>1. step = "start_prepare" /\ step' = "prepare" /\ kind' = kind
    BY <1>5, StartPrepareMove DEF StartPrepare
  <2>2. /\ prepareAttempt' \in {prepareAttempt + 1, PrepareCap}
        /\ prepareAttempt < PrepareCap => prepareAttempt' = prepareAttempt + 1
    BY <1>5 DEF StartPrepare
  <2> QED
    BY <2>1, <2>2, WorkflowAssumption
       DEF TransferCount, Coming, TypeOK, PrepareCap, Waypoints, ResetSteps
<1>6. CASE Prepare
  <2>1. kind \in Transfers => step' \in Emits \cup {"approval", "route_correction"}
    BY <1>6, PrepareMove, Violated, CorrectMove DEF Prepared, Emits
  <2> QED
    BY <1>1, <1>6, <2>1 DEF Prepare, Coming, Emits, Waypoints, ResetSteps
<1>7. CASE Execute
  <2>1. kind \in Transfers => step' \in Emits \cup {"start_auth", "route_correction"}
    BY <1>7, ExecuteMove, ViolatedAtExecute, CorrectMove
  <2> QED
    BY <1>1, <1>7, <2>1 DEF Execute, Coming, Emits, Waypoints, ResetSteps
<1>8. CASE Approve
  BY <1>1, <1>8, ApproveMove DEF Approve, Coming, Waypoints, ResetSteps
<1>9. ASSUME NEW t \in AllSlots, RequestChange(t) \/ SelectCorrection(t) PROVE TransferCount'
  BY <1>1, <1>9 DEF RequestChange, SelectCorrection
<1>10. ASSUME NEW t \in DOMAIN Resets, Reset(t) PROVE TransferCount'
  BY <1>1, <1>10, ResetMove DEF Reset, Coming
<1>11. CASE CancelApproval \/ RouteCorrection \/ CancelCorrection
  <2>1. step' \in Final \cup {"request_correction"} /\ Same
    BY <1>11, CancelApprovalMove, CorrectionMove
       DEF CancelApproval, RouteCorrection, CancelCorrection, Final, Emits
  <2> QED
    BY <1>1, <2>1 DEF Coming, Final, Emits, End, Waypoints, ResetSteps
<1>12. CASE StartAuth \/ CreateAuth \/ Authenticate \/ AnswerRetry
  <2>1. /\ step' \in {"create_auth", "request_auth", "emit_error", "execute", "request_retry",
                      "start_auth", End}
        /\ Same
    BY <1>12, AuthMove DEF StartAuth, CreateAuth, Authenticate, AnswerRetry
  <2> QED
    BY <1>1, <2>1 DEF Coming, End, Waypoints, ResetSteps
<1>13. CASE Query \/ ToolFails \/ EmitEnd
  <2>1. step' \in Final /\ Same
    BY <1>13, EndMove DEF Query, ToolFails, EmitEnd, Final, Emits
  <2> QED
    BY <1>1, <2>1 DEF Coming, Final, Emits, End, Waypoints, ResetSteps
<1>14. CASE AuthExpires \/ UNCHANGED vars \/ (\E a \in UNION Portfolios : Deactivate(a))
  BY <1>14 DEF AuthExpires, Deactivate, vars, TransferCount
<1>15. CASE ResolveHint \/ CheckAmount \/ (\E s \in DOMAIN ResolveStep : Resolve(s))
            \/ (\E s \in DOMAIN CheckStep : CheckGiven(s)) \/ (\E s \in AllSlots : Select(s))
  BY <1>2, <1>15, HintMove, AmountMove, ResolveMove, CheckMove, SelectMove
<1> QED
  BY <1>3, <1>4, <1>5, <1>6, <1>7, <1>8, <1>9, <1>10, <1>11, <1>12, <1>13, <1>14, <1>15
     DEF Next, Run, Answer

\* What slot and step of a setting are, when the run collects them.
LEMMA SettingPlaces ==
  ASSUME kind \in Settings, NEW s, WorksOn(s), step \in Waypoints, step # RequestStep[s]
  PROVE  /\ s \in {"account", "alias"} /\ (s = "alias" => kind = "alias")
         /\ s = "account" => step = "resolve_account"
         /\ s = "alias" => step = "check_alias"
<1>1. s \in Slots[kind] /\ Filled(kind, step) = Rank[kind][s] - 1
  BY DEF WorksOn, Guided
<1> USE <1>1 DEF Slots, Filled, Collecting, Rank, Waypoints, RequestStep, Steps
<1>2. CASE kind = "default"
  BY <1>2
<1>3. CASE kind = "alias"
  BY <1>3
<1> QED
  BY <1>2, <1>3 DEF Settings

\* A step that leaves the accounts alone keeps the count, unless it comes
\* nearer to a Prepare.
LEMMA SettingKept ==
  ASSUME TypeOK, SettingCount, UNCHANGED <<kind, owned, active, prepareAttempt>>,
         slot'["account"] = slot["account"], step \notin Final,
         step' \in ComingAlone => step \in ComingAlone,
         step \in Unplaced => step' \in Unplaced
  PROVE  SettingCount'
<1>1. Lost' = Lost /\ AccountLost' = AccountLost
  BY DEF Lost, AccountLost
<1> QED
  BY <1>1 DEF SettingCount

\* An answer of the user is bounded, and an account of his that is not
\* active is a lost one.
LEMMA SettingAnswered ==
  ASSUME TypeOK, UNCHANGED <<kind, owned, active, prepareAttempt>>,
         prepareAttempt < MaxPrepare,
         step' \notin Unplaced => slot'["account"] \in owned \cup {None}
  PROVE  SettingCount'
<1>1. Lost' = Lost /\ Lost \in Nat /\ prepareAttempt \in Nat
  BY LostType DEF Lost, TypeOK
<1>2. AccountLost' /\ step' \notin Unplaced => Lost >= 1
  BY LostType DEF AccountLost
<1> QED
  BY <1>1, <1>2, WorkflowAssumption DEF SettingCount

LEMMA SettingExtract ==
  ASSUME TypeOK, SettingCount, Extract
  PROVE  SettingCount'
<1> SUFFICES ASSUME kind \in Settings PROVE SettingCount'
  BY DEF SettingCount, Extract
<1>1. step = "extract" /\ UNCHANGED <<kind, owned, active, prepareAttempt>>
  BY DEF Extract
<1>2. step' = "resolve_account"
  BY <1>1, ExtractEdges DEF Extract, Goto, First, Settings, TypeOK
<1>3. Lost' = Lost
  BY <1>1 DEF Lost
<1> QED
  BY <1>1, <1>2, <1>3 DEF SettingCount, ComingAlone, Unplaced, Final, Emits, End

LEMMA SettingCollect ==
  ASSUME TypeOK, SettingCount, Accounts, CollectMove
  PROVE  SettingCount'
<1> SUFFICES ASSUME kind \in Settings, step' \notin Final PROVE SettingCount'
  BY DEF SettingCount, CollectMove, Elsewhere
<1>1. /\ UNCHANGED <<kind, owned, active, prepareAttempt>> /\ step \in Waypoints
      /\ step \notin Final
  BY DEF CollectMove, Elsewhere, Final, Emits, Waypoints, End
<1>2. ASSUME NEW s \in Slots[kind], Gains(s) PROVE SettingCount'
  <2>1. /\ WorksOn(s) /\ slot' = [slot EXCEPT ![s] = slot'[s]] /\ step' = After[kind][s]
        /\ s \in {"account", "alias"} /\ (s = "account" => slot'[s] \in owned)
    BY <1>2 DEF Gains, Slots, Settings, AccountSlots, Guided
  <2>2. slot'["account"] \in owned \cup {None}
    <3>1. s = "account" \/ slot'["account"] = slot["account"]
      BY <2>1 DEF TypeOK, AllSlots, Slots
    <3> QED
      BY <2>1, <3>1 DEF Accounts
  <2>3. CASE step = RequestStep[s]
    BY <1>1, <1>2, <2>2, <2>3, SettingAnswered DEF Gains
  <2>4. CASE step # RequestStep[s] /\ s = "account"
    <3>1. step = "resolve_account" /\ slot'["account"] \in active
      BY <1>1, <1>2, <2>1, <2>4, SettingPlaces DEF Gains, Guided, AccountSlots
    <3>2. ~AccountLost' /\ Lost' = Lost
      BY <1>1, <3>1 DEF AccountLost, Lost
    <3> QED
      BY <1>1, <3>1, <3>2 DEF SettingCount, ComingAlone
  <2>5. CASE step # RequestStep[s] /\ s = "alias"
    <3>1. step = "check_alias" /\ kind = "alias"
      BY <1>1, <2>1, <2>5, SettingPlaces
    <3>2. slot'["account"] = slot["account"]
      BY <2>1, <2>5 DEF TypeOK, AllSlots, Slots
    <3> QED
      BY <1>1, <3>1, <3>2, SettingKept DEF ComingAlone, Unplaced
  <2> QED
    BY <2>1, <2>3, <2>4, <2>5
<1>3. ASSUME NEW s \in Slots[kind], Asks(s) PROVE SettingCount'
  <2>1. WorksOn(s) /\ step' = RequestStep[s] /\ slot' = slot /\ s \in {"account", "alias"}
    BY <1>3 DEF Asks, Slots, Settings
  <2>2. step' \notin ComingAlone
    BY <2>1 DEF RequestStep, Steps, ComingAlone
  <2>3. step \in Unplaced => step' \in Unplaced
    <3>1. CASE s = "account"
      BY <2>1, <3>1 DEF RequestStep, Steps, Unplaced
    <3>2. CASE s = "alias"
      <4>1. step \in {"check_alias", "request_alias"}
        BY <1>1, <2>1, <3>2, SettingPlaces DEF RequestStep, Steps
      <4> QED
        BY <4>1 DEF Unplaced
    <3> QED
      BY <2>1, <3>1, <3>2
  <2> QED
    BY <1>1, <2>1, <2>2, <2>3, SettingKept
<1>4. CASE Passes \/ Stops
  BY <1>4 DEF Passes, Stops, Transfers, Settings, Final, Emits
<1> QED
  BY <1>2, <1>3, <1>4 DEF CollectMove

\* A correction of the account is due to its loss.
LEMMA SettingCorrect ==
  ASSUME TypeOK, SettingCount, Collected, kind \in Settings, step \in {"prepare", "execute"},
         UNCHANGED <<kind, owned, active, prepareAttempt, slot>>,
         NEW t \in Slots[kind] \cap DOMAIN Resets, step' = Resets[t],
         t = "account" => slot["account"] \notin active
  PROVE  SettingCount'
<1>1. slot["account"] # None
  <2>1. kind \in Guided /\ step \in TailSteps /\ step \notin Final /\ "account" \in Slots[kind]
    BY DEF Guided, TailSteps, Final, Emits, End, Settings, Slots
  <2>2. Rank[kind]["account"] \in 1..3 /\ Filled(kind, step) = 3
    BY <2>1, Ranks, FilledElsewhere
  <2> QED
    BY <2>1, <2>2 DEF Collected, UpTo
<1>2. Lost' = Lost /\ AccountLost' = AccountLost
  BY DEF Lost, AccountLost
<1>3. CASE t = "account"
  BY <1>1, <1>2, <1>3 DEF SettingCount, AccountLost, Resets, Unplaced, Final, Emits, End
<1>4. CASE t = "alias"
  BY <1>4, SettingKept DEF Resets, Unplaced, ComingAlone, Final, Emits, End
<1> QED
  BY <1>3, <1>4 DEF Slots, Settings

LEMMA SettingCountNext ==
  TypeOK /\ SettingCount /\ Accounts /\ Collected /\ Lives /\ [Next]_vars => SettingCount'
<1> SUFFICES ASSUME TypeOK, SettingCount, Accounts, Collected, Lives, [Next]_vars
             PROVE  SettingCount'
  OBVIOUS
<1> USE DEF data, backend
<1>1. ASSUME kind' = kind, kind \notin Settings \/ step' \in Final PROVE SettingCount'
  BY <1>1 DEF SettingCount
<1>2. CASE CollectMove
  BY <1>2, SettingCollect
<1>3. CASE Extract
  BY <1>3, SettingExtract
<1>4. ASSUME NEW s \in AllSlots, CancelInput(s) PROVE SettingCount'
  BY <1>1, <1>4, CancelInputMove DEF CancelInput, Final, Returns, Transfers, Settings
<1>5. CASE StartPrepare
  <2>1. /\ step = "start_prepare" /\ step' = "prepare" /\ UNCHANGED <<kind, slot, owned, active>>
        /\ prepareAttempt' \in {prepareAttempt + 1, PrepareCap}
        /\ prepareAttempt < PrepareCap => prepareAttempt' = prepareAttempt + 1
    BY <1>5, StartPrepareMove DEF StartPrepare
  <2>2. Lost' = Lost /\ AccountLost' = AccountLost /\ Lost \in Nat /\ Lost <= MaxClosures
    BY <2>1, LostType DEF Lost, AccountLost, Accounts
  <2> QED
    BY <2>1, <2>2, WorkflowAssumption
       DEF SettingCount, ComingAlone, Unplaced, TypeOK, PrepareCap, Final, Emits, End
<1>6. CASE Prepare
  <2>1. step = "prepare" /\ UNCHANGED <<kind, slot, owned, active, prepareAttempt>> /\ kind \in Guided
    BY <1>6, PrepareMove DEF Prepare
  <2>2. ASSUME NEW violation \in Violations(slot), Correct(violation), kind \in Settings
        PROVE  SettingCount'
    <3>1. /\ violation \subseteq Slots[kind] \cap DOMAIN Resets
          /\ "account" \in violation => slot["account"] \notin active
      BY <2>1, <2>2, Violated
    <3>2. PICK t \in violation : step' = Resets[t]
      BY <2>1, <2>2, <3>1, CorrectMove
    <3> QED
      BY <2>1, <2>2, <3>1, <3>2, SettingCorrect
  <2>3. CASE Prepared
    BY <2>1, <2>3, <1>1, SettingKept
       DEF Prepared, ComingAlone, Unplaced, Final, Emits, End
  <2>4. CASE step' \in Emits
    BY <1>1, <2>1, <2>4 DEF Final
  <2> QED
    BY <1>1, <1>6, <2>1, <2>2, <2>3, <2>4, PrepareMove
<1>7. CASE Execute
  <2>1. step = "execute" /\ UNCHANGED <<kind, slot, owned, active, prepareAttempt>> /\ kind \in Guided
    BY <1>7, ExecuteMove DEF Execute
  <2>2. ASSUME NEW violation \in ExecuteViolations, Correct(violation), kind \in Settings
        PROVE  SettingCount'
    <3>1. Row = row /\ row.fixed["account"] = slot["account"]
      BY <2>1, <2>2 DEF Lives, Live, Row, Settings, Slots
    <3>2. /\ violation \subseteq Slots[kind] \cap DOMAIN Resets
          /\ "account" \in violation => slot["account"] \notin active
      BY <2>1, <2>2, <3>1, ViolatedAtExecute
    <3>3. PICK t \in violation : step' = Resets[t]
      BY <2>1, <2>2, <3>2, CorrectMove
    <3> QED
      BY <2>1, <2>2, <3>2, <3>3, SettingCorrect
  <2>3. CASE step' \in Emits \/ kind \in Transfers
    BY <1>1, <2>1, <2>3 DEF Final, Transfers, Settings
  <2> QED
    BY <1>7, <2>1, <2>2, <2>3, ExecuteMove DEF Guided
<1>8. CASE Approve
  <2>1. /\ step = "approval" /\ UNCHANGED <<kind, slot, owned, active, prepareAttempt>>
        /\ kind \in Settings => step' = "execute"
    BY <1>8, ApproveMove DEF Approve, Transfers, Settings
  <2> QED
    BY <1>1, <2>1, SettingKept DEF ComingAlone, Unplaced, Final, Emits, End
<1>9. ASSUME NEW t \in AllSlots, RequestChange(t) PROVE SettingCount'
  BY <1>9, SettingAnswered, RequestChangeMove, <1>1 DEF RequestChange, Accounts
<1>10. ASSUME NEW t \in DOMAIN Resets, Reset(t) PROVE SettingCount'
  <2> SUFFICES ASSUME kind \in Settings PROVE SettingCount'
    BY <1>1, <1>10 DEF Reset
  <2>1. /\ t \in Slots[kind] /\ step = Resets[t] /\ step' = Again[t]
        /\ UNCHANGED <<kind, owned, active, prepareAttempt>>
    BY <1>10, ResetMove DEF Reset
  <2>2. t \in {"account", "alias"}
    BY <2>1 DEF Slots, Settings
  <2>3. CASE t = "account"
    <3>1. step = "reset_account" /\ step' = "resolve_account" /\ Lost' = Lost
      BY <2>1, <2>3 DEF Resets, Again, Lost
    <3> QED
      BY <2>1, <3>1 DEF SettingCount, ComingAlone, Unplaced, Final, Emits, End
  <2>4. CASE t = "alias"
    <3>1. step = "reset_alias" /\ step' = "request_alias"
      BY <2>1, <2>4 DEF Resets, Again
    <3>2. slot'["account"] = slot["account"]
      BY <1>10, <2>4 DEF Reset, TypeOK, AllSlots, Slots
    <3> QED
      BY <2>1, <3>1, <3>2, SettingKept DEF ComingAlone, Unplaced, Final, Emits, End
  <2> QED
    BY <2>2, <2>3, <2>4
<1>11. CASE CancelApproval \/ EmitEnd \/ Query \/ ToolFails
  BY <1>1, <1>11, CancelApprovalMove, EndMove
     DEF CancelApproval, EmitEnd, Query, ToolFails, Final, Emits
<1>12. CASE RouteCorrection \/ CancelCorrection \/ (\E t \in AllSlots : SelectCorrection(t))
  BY <1>1, <1>12, CorrectionMove, SelectCorrectionMove
     DEF RouteCorrection, CancelCorrection, SelectCorrection, Transfers, Settings
<1>13. CASE StartAuth \/ CreateAuth \/ Authenticate \/ AnswerRetry
  BY <1>1, <1>13, AuthMove
     DEF StartAuth, CreateAuth, Authenticate, AnswerRetry, Transfers, Settings
<1>14. CASE AuthExpires \/ UNCHANGED vars
  BY <1>14 DEF AuthExpires, vars, SettingCount, Lost, AccountLost
<1>15. ASSUME NEW a \in UNION Portfolios, Deactivate(a) PROVE SettingCount'
  <2>1. Lost' = Lost + 1 /\ Lost \in Nat
    BY <1>15, LostMore, LostType DEF Deactivate
  <2>2. UNCHANGED <<kind, step, slot, prepareAttempt>> /\ prepareAttempt \in Nat
    BY <1>15 DEF Deactivate, TypeOK
  <2> QED
    BY <2>1, <2>2, WorkflowAssumption DEF SettingCount
<1>16. CASE ResolveHint \/ CheckAmount \/ (\E s \in DOMAIN ResolveStep : Resolve(s))
            \/ (\E s \in DOMAIN CheckStep : CheckGiven(s)) \/ (\E s \in AllSlots : Select(s))
  BY <1>2, <1>16, HintMove, AmountMove, ResolveMove, CheckMove, SelectMove
<1> QED
  BY <1>3, <1>4, <1>5, <1>6, <1>7, <1>8, <1>9, <1>10, <1>11, <1>12, <1>13, <1>14, <1>15, <1>16
     DEF Next, Run, Answer

-----------------------------------------------------------------------------
(* Every call has a key of its own *)

\* Until the next Prepare there is no confirmation.
Before == {"extract", "start_prepare", "prepare"} \cup Waypoints

NoneBefore == step \in Before => confirmation = 0

PreparesCounted ==
  \A n \in Nat : <<"prepare", n>> \in keys =>
    n <= prepareAttempt /\ (step = "prepare" => n < prepareAttempt)

AuthsCounted ==
  \A c, n \in Nat : <<"auth", c, n>> \in keys =>
    /\ c \in 1..confirmations
    /\ c = confirmation => n <= authAttempt /\ (step = "create_auth" => n < authAttempt)

\* Where a transfer is with an authentication attempt not yet executed.
Attempted == {"create_auth", "request_auth", "request_retry", "execute"}

ExecutesCounted ==
  /\ \A c, n \in Nat : <<"execute", c, n>> \in keys =>
       /\ kind \in Transfers /\ c \in 1..confirmations
       /\ c = confirmation => n <= authAttempt /\ (step \in Attempted => n < authAttempt)
  /\ \A c \in Nat : <<"execute", c>> \in keys =>
       /\ c \in 1..confirmations
       /\ kind \in Settings /\ step \in {"approval", "execute"} => c # confirmation

OldKeys == NoneBefore /\ PreparesCounted /\ AuthsCounted /\ ExecutesCounted

KeyOf(st) ==
  CASE st = "prepare"     -> PrepareKey
    [] st = "create_auth" -> AuthKey
    [] st = "execute"     -> ExecuteKey

Callers == {"prepare", "create_auth", "execute"}

LEMMA FreshKey ==
  ASSUME TypeOK, Lives, OldKeys, step \in Callers
  PROVE  KeyOf(step) \notin keys
<1>1. CASE step = "prepare"
  <2>1. <<"prepare", prepareAttempt>> \notin keys
    BY <1>1 DEF OldKeys, PreparesCounted, TypeOK
  <2> QED
    BY <1>1, <2>1 DEF KeyOf, PrepareKey
<1>2. CASE step = "create_auth"
  <2>1. <<"auth", confirmation, authAttempt>> \notin keys
    BY <1>2 DEF OldKeys, AuthsCounted, TypeOK
  <2> QED
    BY <1>2, <2>1 DEF KeyOf, AuthKey
<1>3. CASE step = "execute"
  <2>1. <<"execute", confirmation, authAttempt>> \notin keys
    BY <1>3 DEF OldKeys, ExecutesCounted, TypeOK, Attempted
  <2>2. kind \in Settings => <<"execute", confirmation>> \notin keys
    BY <1>3 DEF OldKeys, ExecutesCounted, TypeOK
  <2>3. kind \in Transfers \/ kind \in Settings
    BY <1>3, WorkflowOfStep DEF TypeOK, Guided, End
  <2> QED
    BY <1>3, <2>1, <2>2, <2>3 DEF KeyOf, ExecuteKey
<1> QED
  BY <1>1, <1>2, <1>3 DEF Callers

\* A step without a call.
LEMMA QuietKeys ==
  ASSUME TypeOK, OldKeys, keys' = keys, UNCHANGED <<kind, confirmations, prepareAttempt>>,
         step' # "prepare",
         step' \in Before => confirmation' = 0,
         \/ confirmation' = 0
         \/ /\ confirmation' = confirmation /\ authAttempt' = authAttempt
            /\ step' = "create_auth" => step = "create_auth"
            /\ step' \in Attempted => step \in Attempted \/ kind \in Settings
            /\ kind \in Settings /\ step' \in {"approval", "execute"} =>
                 step \in {"approval", "execute"}
  PROVE  OldKeys'
<1>1. NoneBefore' /\ PreparesCounted'
  BY DEF OldKeys, NoneBefore, PreparesCounted
<1>2. AuthsCounted'
  BY DEF OldKeys, AuthsCounted
<1>3. ExecutesCounted'
  BY DEF OldKeys, ExecutesCounted, Transfers, Settings
<1> QED
  BY <1>1, <1>2, <1>3 DEF OldKeys

LEMMA KeysDiffer ==
  ASSUME NEW a, NEW b, NEW c, NEW d
  PROVE  /\ <<"prepare", a>> # <<"auth", b, c>> /\ <<"prepare", a>> # <<"execute", b, c>>
         /\ <<"prepare", a>> # <<"execute", b>> /\ <<"auth", a, b>> # <<"execute", c, d>>
         /\ <<"auth", a, b>> # <<"execute", c>> /\ <<"execute", a, b>> # <<"execute", c>>
         /\ <<"prepare", a>> = <<"prepare", b>> => a = b
         /\ <<"auth", a, b>> = <<"auth", c, d>> => a = c /\ b = d
         /\ <<"execute", a, b>> = <<"execute", c, d>> => a = c /\ b = d
         /\ <<"execute", a>> = <<"execute", b>> => a = b
OBVIOUS

LEMMA KeysAfterPrepare ==
  ASSUME TypeOK, OldKeys, step = "prepare", keys' = keys \cup {PrepareKey},
         UNCHANGED <<kind, prepareAttempt, authAttempt>>,
         step' \notin Before \cup Attempted, kind' \in Guided,
         \/ UNCHANGED <<confirmation, confirmations>>
         \/ /\ confirmations' = confirmations + 1
            /\ confirmation' \in {confirmation, confirmations'}
  PROVE  OldKeys'
<1>1. confirmation = 0 /\ confirmations \in Nat /\ prepareAttempt \in Nat
  BY DEF OldKeys, NoneBefore, Before, TypeOK
<1>2. confirmations' \in Nat /\ confirmations' >= confirmations
      /\ (confirmation' = 0 \/ confirmation' > confirmations)
  BY <1>1
<1>3. NoneBefore'
  BY DEF NoneBefore
<1>4. PreparesCounted'
  <2>1. \A n \in Nat : <<"prepare", n>> \in keys' => <<"prepare", n>> \in keys \/ n = prepareAttempt
    BY KeysDiffer DEF PrepareKey
  <2>2. step' # "prepare"
    BY DEF Before
  <2> QED
    BY <1>1, <2>1, <2>2 DEF OldKeys, PreparesCounted
<1>5. AuthsCounted'
  <2>1. \A c, n \in Nat : <<"auth", c, n>> \in keys' => <<"auth", c, n>> \in keys
    BY KeysDiffer DEF PrepareKey
  <2>2. \A c, n \in Nat : <<"auth", c, n>> \in keys' => c \in 1..confirmations
    BY <2>1 DEF OldKeys, AuthsCounted
  <2> QED
    BY <1>1, <1>2, <2>2 DEF AuthsCounted
<1>6. ExecutesCounted'
  <2>1. /\ \A c, n \in Nat : <<"execute", c, n>> \in keys' => <<"execute", c, n>> \in keys
        /\ \A c \in Nat : <<"execute", c>> \in keys' => <<"execute", c>> \in keys
    BY KeysDiffer DEF PrepareKey
  <2>2. /\ \A c, n \in Nat : <<"execute", c, n>> \in keys' =>
             kind \in Transfers /\ c \in 1..confirmations
        /\ \A c \in Nat : <<"execute", c>> \in keys' => c \in 1..confirmations
    BY <2>1 DEF OldKeys, ExecutesCounted
  <2> QED
    BY <1>1, <1>2, <2>2 DEF ExecutesCounted
<1> QED
  BY <1>3, <1>4, <1>5, <1>6 DEF OldKeys

LEMMA KeysAfterAuth ==
  ASSUME TypeOK, Lives, OldKeys, step = "create_auth", kind \in Transfers,
         keys' = keys \cup {AuthKey},
         UNCHANGED <<kind, prepareAttempt, authAttempt, confirmation, confirmations>>,
         step' \in {"request_auth", "emit_error"}
  PROVE  OldKeys'
<1>1. /\ confirmation = confirmations /\ confirmations \in Nat \ {0} /\ authAttempt \in Nat
  BY DEF Lives, Live, TypeOK
<1>2. NoneBefore'
  BY DEF NoneBefore, Before, Waypoints
<1>3. PreparesCounted'
  <2>1. \A n \in Nat : <<"prepare", n>> \in keys' => <<"prepare", n>> \in keys
    BY KeysDiffer DEF AuthKey
  <2> QED
    BY <2>1 DEF OldKeys, PreparesCounted
<1>4. AuthsCounted'
  <2>1. \A c, n \in Nat : <<"auth", c, n>> \in keys' =>
          <<"auth", c, n>> \in keys \/ (c = confirmation /\ n = authAttempt)
    BY KeysDiffer DEF AuthKey
  <2> QED
    BY <1>1, <2>1 DEF OldKeys, AuthsCounted
<1>5. ExecutesCounted'
  <2>1. /\ \A c, n \in Nat : <<"execute", c, n>> \in keys' => <<"execute", c, n>> \in keys
        /\ \A c \in Nat : <<"execute", c>> \in keys' => <<"execute", c>> \in keys
    BY KeysDiffer DEF AuthKey
  <2> QED
    BY <1>1, <2>1 DEF OldKeys, ExecutesCounted, Attempted
<1> QED
  BY <1>2, <1>3, <1>4, <1>5 DEF OldKeys

LEMMA KeysAfterExecute ==
  ASSUME TypeOK, Lives, OldKeys, step = "execute", kind \in Guided,
         keys' = keys \cup {ExecuteKey},
         UNCHANGED <<kind, prepareAttempt, authAttempt, confirmations>>,
         confirmation' \in {0, confirmation},
         step' \notin Before \cup Attempted \cup {"approval"}
  PROVE  OldKeys'
<1>1. /\ confirmation = confirmations /\ confirmations \in Nat \ {0} /\ authAttempt \in Nat
  BY DEF Lives, Live, TypeOK
<1>2. NoneBefore'
  BY DEF NoneBefore
<1>3. \/ kind \in Transfers /\ ExecuteKey = <<"execute", confirmation, authAttempt>>
      \/ kind \in Settings /\ ExecuteKey = <<"execute", confirmation>>
  BY DEF ExecuteKey, Guided, Transfers, Settings
<1>4. PreparesCounted'
  <2>1. \A n \in Nat : <<"prepare", n>> \in keys' => <<"prepare", n>> \in keys
    BY <1>3, KeysDiffer
  <2>2. step' # "prepare"
    BY DEF Before
  <2> QED
    BY <2>1, <2>2 DEF OldKeys, PreparesCounted
<1>5. AuthsCounted'
  <2>1. \A c, n \in Nat : <<"auth", c, n>> \in keys' => <<"auth", c, n>> \in keys
    BY <1>3, KeysDiffer
  <2>2. step' # "create_auth"
    BY DEF Attempted
  <2> QED
    BY <1>1, <2>1, <2>2 DEF OldKeys, AuthsCounted
<1>6. ExecutesCounted'
  <2>1. \A c, n \in Nat : <<"execute", c, n>> \in keys' =>
          \/ <<"execute", c, n>> \in keys
          \/ kind \in Transfers /\ c = confirmation /\ n = authAttempt
    BY <1>3, KeysDiffer
  <2>2. \A c \in Nat : <<"execute", c>> \in keys' => <<"execute", c>> \in keys \/ c = confirmation
    BY <1>3, KeysDiffer
  <2>3. step' # "execute"
    BY DEF Attempted
  <2>4. \A c, n \in Nat : <<"execute", c, n>> \in keys' =>
          kind \in Transfers /\ c \in 1..confirmations /\ (c = confirmation => n <= authAttempt)
    BY <1>1, <2>1 DEF OldKeys, ExecutesCounted
  <2>5. \A c \in Nat : <<"execute", c>> \in keys' => c \in 1..confirmations
    BY <1>1, <2>2 DEF OldKeys, ExecutesCounted
  <2> QED
    BY <1>1, <2>3, <2>4, <2>5 DEF ExecutesCounted
<1> QED
  BY <1>2, <1>4, <1>5, <1>6 DEF OldKeys

LEMMA KeysExecute ==
  ASSUME TypeOK, Lives, OldKeys, Execute
  PROVE  OldKeys'
<1>1. /\ step = "execute" /\ kind \in Guided /\ keys' = keys \cup {ExecuteKey}
      /\ UNCHANGED <<kind, prepareAttempt, authAttempt, confirmations>>
      /\ confirmation' \in {0, confirmation}
  BY ExecuteMove DEF Execute, Calls
<1>2. step' \in Emits \cup ResetSteps \cup {"route_correction", "start_auth"}
  <2>1. ASSUME NEW violation \in ExecuteViolations, Correct(violation)
        PROVE  step' \in ResetSteps \cup {"route_correction"}
    BY <1>1, <2>1, ViolatedAtExecute, CorrectMove
  <2> QED
    BY <2>1, ExecuteMove
<1>3. step' \notin Before \cup Attempted \cup {"approval"}
  BY <1>2 DEF Before, Attempted, Emits, ResetSteps, Waypoints
<1> QED
  BY <1>1, <1>3, KeysAfterExecute

LEMMA KeysPrepare ==
  ASSUME TypeOK, OldKeys, Prepare
  PROVE  OldKeys'
<1>1. /\ step = "prepare" /\ kind' \in Guided /\ keys' = keys \cup {PrepareKey}
      /\ UNCHANGED <<kind, prepareAttempt, authAttempt>>
      /\ \/ UNCHANGED <<confirmation, confirmations>>
         \/ /\ confirmations' = confirmations + 1
            /\ confirmation' \in {confirmation, confirmations'}
  BY PrepareMove DEF Prepare, Calls, Prepared
<1>2. step' \in Emits \cup ResetSteps \cup {"route_correction", "approval"}
  <2>1. ASSUME NEW violation \in Violations(slot), Correct(violation)
        PROVE  step' \in ResetSteps \cup {"route_correction"}
    BY <1>1, <2>1, PrepareMove, Violated, CorrectMove
  <2> QED
    BY <2>1, PrepareMove DEF Prepared, Emits
<1>3. step' \notin Before \cup Attempted
  BY <1>2 DEF Before, Attempted, Emits, ResetSteps, Waypoints
<1> QED
  BY <1>1, <1>3, KeysAfterPrepare

LEMMA KeysStartPrepare ==
  ASSUME TypeOK, TransferCount, SettingCount, Accounts, OldKeys, StartPrepare
  PROVE  OldKeys'
<1>1. /\ kind \in Guided /\ step = "start_prepare" /\ step' = "prepare" /\ keys' = keys
      /\ UNCHANGED <<kind, confirmation, confirmations, authAttempt>>
  BY StartPrepareMove DEF StartPrepare, backend
<1>2. prepareAttempt < PrepareCap
  <2>1. Lost \in Nat /\ Lost <= MaxClosures /\ prepareAttempt \in Nat
    BY LostType DEF Accounts, TypeOK
  <2>2. CASE kind \in Transfers
    BY <1>1, <2>1, <2>2, WorkflowAssumption DEF TransferCount, PrepareCap
  <2>3. CASE kind \in Settings
    <3>1. step \notin Final
      BY <1>1 DEF Final, Emits, End
    <3> QED
      BY <2>1, <2>3, <3>1, WorkflowAssumption DEF SettingCount, PrepareCap
  <2> QED
    BY <1>1, <2>2, <2>3 DEF Guided
<1>3. prepareAttempt' = prepareAttempt + 1
  BY <1>2 DEF StartPrepare
<1>4. NoneBefore' /\ PreparesCounted'
  BY <1>1, <1>3 DEF OldKeys, NoneBefore, PreparesCounted, Before, TypeOK
<1>5. AuthsCounted' /\ ExecutesCounted'
  BY <1>1 DEF OldKeys, AuthsCounted, ExecutesCounted, Attempted
<1> QED
  BY <1>4, <1>5 DEF OldKeys

LEMMA KeysStartAuth ==
  ASSUME TypeOK, OldKeys, StartAuth
  PROVE  OldKeys'
<1>1. /\ step = "start_auth" /\ step' = "create_auth" /\ keys' = keys /\ kind \in Transfers
      /\ UNCHANGED <<kind, confirmation, confirmations, prepareAttempt>>
      /\ authAttempt' = authAttempt + 1 /\ authAttempt \in Nat
  BY AuthMove DEF StartAuth, NextAuthAttempt, TypeOK, backend
<1>2. NoneBefore' /\ PreparesCounted'
  BY <1>1 DEF OldKeys, NoneBefore, PreparesCounted, Before, Waypoints
<1>3. AuthsCounted'
  BY <1>1 DEF OldKeys, AuthsCounted
<1>4. ExecutesCounted'
  BY <1>1 DEF OldKeys, ExecutesCounted
<1> QED
  BY <1>2, <1>3, <1>4 DEF OldKeys

\* The steps that call and those that fail to.
LEMMA CallsOf ==
  ASSUME TypeOK
  PROVE  /\ Prepare \/ CreateAuth \/ Execute => step \in Callers /\ Calls(KeyOf(step))
         /\ ToolFails =>
              \/ step \in Callers /\ Calls(KeyOf(step))
              \/ UNCHANGED <<keys, replayed>>
         /\ (Next /\ ~(Prepare \/ CreateAuth \/ Execute \/ ToolFails)) \/ UNCHANGED vars =>
              UNCHANGED <<keys, replayed>>
<1>1. Prepare \/ CreateAuth \/ Execute => step \in Callers /\ Calls(KeyOf(step))
  BY DEF Prepare, CreateAuth, Execute, Callers, KeyOf
<1>2. ASSUME ToolFails
      PROVE  \/ step \in Callers /\ Calls(KeyOf(step))
             \/ UNCHANGED <<keys, replayed>>
  <2>1. CASE step = "prepare"
    BY <1>2, <2>1 DEF ToolFails, Callers, KeyOf
  <2>2. CASE step = "create_auth"
    BY <1>2, <2>2 DEF ToolFails, Callers, KeyOf
  <2>3. CASE step = "execute"
    BY <1>2, <2>3 DEF ToolFails, Callers, KeyOf
  <2>4. CASE step \notin Callers
    BY <1>2, <2>4 DEF ToolFails, Callers
  <2> QED
    BY <2>1, <2>2, <2>3, <2>4 DEF Callers
<1>3. ASSUME (Next /\ ~(Prepare \/ CreateAuth \/ Execute \/ ToolFails)) \/ UNCHANGED vars
      PROVE  UNCHANGED <<keys, replayed>>
  <2> USE DEF backend
  <2>1. CASE \/ Extract \/ ResolveHint \/ CheckAmount \/ StartPrepare \/ RouteCorrection \/ StartAuth
             \/ Query \/ EmitEnd \/ (\E s \in DOMAIN ResolveStep : Resolve(s))
             \/ (\E s \in DOMAIN CheckStep : CheckGiven(s)) \/ (\E t \in DOMAIN Resets : Reset(t))
    BY <2>1 DEF Extract, ResolveHint, CheckAmount, StartPrepare, RouteCorrection, StartAuth, Query,
                EmitEnd, Resolve, CheckGiven, Reset
  <2>2. CASE Answer
    BY <2>2 DEF Answer, Select, CancelInput, RequestChange, SelectCorrection, Approve,
                CancelApproval, CancelCorrection, Authenticate, AnswerRetry
  <2>3. CASE AuthExpires \/ UNCHANGED vars \/ (\E a \in UNION Portfolios : Deactivate(a))
    BY <2>3 DEF AuthExpires, Deactivate, vars
  <2> QED
    BY <1>3, <2>1, <2>2, <2>3 DEF Next, Run
<1> QED
  BY <1>1, <1>2, <1>3

LEMMA KeysToolFails ==
  ASSUME TypeOK, Lives, OldKeys, ToolFails
  PROVE  OldKeys'
<1>1. /\ step' = "emit_error" /\ kind \in Named /\ step \in DOMAIN Graph[kind]
      /\ UNCHANGED <<kind, prepareAttempt, authAttempt, confirmation, confirmations>>
  BY EndMove DEF ToolFails, TypeOK, data, ResolveStep, End
<1>2. step' \notin Before \cup Attempted \cup {"approval"}
  BY <1>1 DEF Before, Attempted, Waypoints
<1>3. CASE UNCHANGED keys
  BY <1>1, <1>2, <1>3, QuietKeys DEF Before, Attempted
<1>4. CASE step \in Callers /\ Calls(KeyOf(step))
  <2>1. CASE step = "prepare"
    <3>1. kind \in Guided /\ keys' = keys \cup {PrepareKey}
      BY <1>1, <1>4, <2>1, WorkflowOfStep DEF KeyOf, Calls
    <3> QED
      BY <1>1, <1>2, <2>1, <3>1, KeysAfterPrepare
  <2>2. CASE step = "create_auth"
    <3>1. kind \in Transfers /\ keys' = keys \cup {AuthKey}
      BY <1>1, <1>4, <2>2, WorkflowOfStep DEF KeyOf, Calls
    <3> QED
      BY <1>1, <2>2, <3>1, KeysAfterAuth
  <2>3. CASE step = "execute"
    <3>1. kind \in Guided /\ keys' = keys \cup {ExecuteKey}
      BY <1>1, <1>4, <2>3, WorkflowOfStep DEF KeyOf, Calls
    <3> QED
      BY <1>1, <1>2, <2>3, <3>1, KeysAfterExecute
  <2> QED
    BY <1>4, <2>1, <2>2, <2>3 DEF Callers
<1> QED
  BY <1>3, <1>4, CallsOf

LEMMA OldKeysNext ==
  TypeOK /\ Lives /\ TransferCount /\ SettingCount /\ Accounts /\ OldKeys /\ [Next]_vars => OldKeys'
<1> SUFFICES ASSUME TypeOK, Lives, TransferCount, SettingCount, Accounts, OldKeys, [Next]_vars
             PROVE  OldKeys'
  OBVIOUS
<1> USE DEF data, backend
\* A step that makes no call and leads to none.
<1>1. ASSUME UNCHANGED <<kind, keys, confirmation, confirmations, prepareAttempt, authAttempt>>,
             step' \notin Attempted \cup {"prepare", "approval"},
             step' \in Before => step \in Before
      PROVE  OldKeys'
  <2>1. step' \in Before => confirmation' = 0
    BY <1>1 DEF OldKeys, NoneBefore
  <2> QED
    BY <1>1, <2>1, QuietKeys DEF Attempted
<1>2. CASE CollectMove
  <2>1. step' \in Onward /\ step \in Before
    BY <1>2, CollectsTo DEF CollectMove, Before
  <2> QED
    BY <1>1, <1>2, <2>1
       DEF CollectMove, Elsewhere, Onward, Waypoints, Emits, Attempted
<1>3. CASE Extract
  <2>1. step' \in Onward /\ step \in Before
    BY <1>3, ExtractMove DEF Before
  <2> QED
    BY <1>1, <1>3, <2>1 DEF Extract, Onward, Waypoints, Emits, Attempted
<1>4. ASSUME NEW s \in AllSlots, CancelInput(s) PROVE OldKeys'
  BY <1>1, <1>4, CancelInputMove DEF CancelInput, Before, Attempted, End
<1>5. CASE Approve
  <2>1. /\ step = "approval" /\ step' = (IF kind \in Transfers THEN "start_auth" ELSE "execute")
        /\ kind \in Guided
    BY <1>5, ApproveMove
  <2>2. step' \notin Before /\ step' # "prepare" /\ step' # "create_auth"
    BY <2>1 DEF Before, Waypoints
  <2>3. step' \in Attempted => kind \in Settings
    BY <2>1 DEF Attempted, Guided
  <2> QED
    BY <1>5, <2>1, <2>2, <2>3, QuietKeys DEF Approve
<1>6. ASSUME NEW t \in AllSlots, RequestChange(t) \/ SelectCorrection(t) PROVE OldKeys'
  <2>1. step' \in ResetSteps
    BY <1>6, RequestChangeMove, SelectCorrectionMove
  <2> QED
    BY <1>1, <1>6, <2>1
       DEF RequestChange, SelectCorrection, ResetSteps, Before, Attempted, Waypoints
<1>7. CASE CancelApproval \/ RouteCorrection \/ CancelCorrection \/ Query \/ EmitEnd
  <2>1. step' \in Final \cup {"request_correction"}
    BY <1>7, CancelApprovalMove, CorrectionMove, EndMove DEF Final, Emits
  <2> QED
    BY <1>1, <1>7, <2>1
       DEF CancelApproval, RouteCorrection, CancelCorrection, Query, EmitEnd, Final, Emits, End,
           Before, Attempted, Waypoints
<1>8. ASSUME NEW t \in DOMAIN Resets, Reset(t) PROVE OldKeys'
  <2>1. step' \in Waypoints /\ confirmation' = 0 /\ UNCHANGED <<kind, prepareAttempt, backend>>
    BY <1>8, ResetMove DEF Reset
  <2> QED
    BY <2>1, QuietKeys DEF Waypoints
<1>9. CASE CreateAuth
  <2>1. /\ step = "create_auth" /\ kind \in Transfers /\ step' \in {"request_auth", "emit_error"}
        /\ keys' = keys \cup {AuthKey}
        /\ UNCHANGED <<kind, prepareAttempt, authAttempt, confirmation, confirmations>>
    BY <1>9, AuthMove DEF CreateAuth, Calls
  <2> QED
    BY <2>1, KeysAfterAuth
<1>10. CASE Authenticate
  <2>1. /\ step = "request_auth" /\ kind \in Transfers
        /\ step' \in {"execute", "request_retry", End}
    BY <1>10, AuthMove
  <2> QED
    BY <1>10, <2>1, QuietKeys
       DEF Authenticate, Before, Attempted, Waypoints, End, Transfers, Settings
<1>11. CASE AnswerRetry
  <2>1. step' \in {"start_auth", End}
    BY <1>11, AuthMove
  <2> QED
    BY <1>1, <1>11, <2>1 DEF AnswerRetry, Before, Attempted, Waypoints, End
<1>12. CASE AuthExpires \/ UNCHANGED vars \/ (\E a \in UNION Portfolios : Deactivate(a))
  <2>1. UNCHANGED <<kind, step, keys, confirmation, confirmations, prepareAttempt, authAttempt>>
    BY <1>12 DEF AuthExpires, vars, Deactivate
  <2> QED
    BY <2>1 DEF OldKeys, NoneBefore, PreparesCounted, AuthsCounted, ExecutesCounted
<1>13. CASE StartPrepare \/ Prepare \/ StartAuth \/ Execute \/ ToolFails
  BY <1>13, KeysStartPrepare, KeysPrepare, KeysStartAuth, KeysExecute, KeysToolFails
<1>14. CASE ResolveHint \/ CheckAmount \/ (\E s \in DOMAIN ResolveStep : Resolve(s))
            \/ (\E s \in DOMAIN CheckStep : CheckGiven(s)) \/ (\E s \in AllSlots : Select(s))
  BY <1>2, <1>14, HintMove, AmountMove, ResolveMove, CheckMove, SelectMove
<1> QED
  BY <1>3, <1>4, <1>5, <1>6, <1>7, <1>8, <1>9, <1>10, <1>11, <1>12, <1>13, <1>14
     DEF Next, Run, Answer

LEMMA FreshNext ==
  TypeOK /\ Lives /\ OldKeys /\ FreshKeys /\ [Next]_vars => FreshKeys'
<1> SUFFICES ASSUME TypeOK, Lives, OldKeys, ~replayed, [Next]_vars
             PROVE  ~replayed'
  BY DEF FreshKeys
<1>1. ASSUME step \in Callers, Calls(KeyOf(step)) PROVE ~replayed'
  BY <1>1, FreshKey DEF Calls
<1>2. CASE Prepare \/ CreateAuth \/ Execute \/ ToolFails
  BY <1>1, <1>2, CallsOf
<1>3. CASE (Next /\ ~(Prepare \/ CreateAuth \/ Execute \/ ToolFails)) \/ UNCHANGED vars
  BY <1>3, CallsOf
<1> QED
  BY <1>2, <1>3

\* The inductive invariant.
Counting == TransferCount /\ SettingCount /\ Accounts

IInv == TypeOK /\ Collected /\ Lives /\ Counting /\ OldKeys /\ FreshKeys

LEMMA IInvInit == Init => IInv
<1> SUFFICES ASSUME Init PROVE IInv
  OBVIOUS
<1>1. TypeOK /\ Collected /\ Counting
  BY TypeInit, CollectedInit, CountedInit DEF Counting
<1>2. Lives /\ OldKeys /\ FreshKeys
  BY DEF Init, Lives, Live, OldKeys, NoneBefore, PreparesCounted, AuthsCounted, ExecutesCounted,
         FreshKeys
<1> QED
  BY <1>1, <1>2 DEF IInv

LEMMA IInvNext == IInv /\ [Next]_vars => IInv'
BY TypeNext, CollectedNext, LivesNext, TransferCountNext, SettingCountNext, AccountsNext,
   OldKeysNext, FreshNext DEF IInv, Counting

\* Every call of a run has a key of its own, over any sequence of
\* corrections, changes and authentications: the attempt counters never
\* repeat within a confirmation, and a confirmation is never taken up again.
THEOREM KeysAlwaysFresh == Spec => []FreshKeys
<1>1. IInv => FreshKeys
  BY DEF IInv
<1> QED
  BY <1>1, IInvInit, IInvNext, PTL DEF Spec

-----------------------------------------------------------------------------
(* A cancelled run closes its stream *)

CancelledCloses == route = "cancelled" /\ confirmations = 0 => closed

LEMMA CancelledNext == TypeOK /\ CancelledCloses /\ [Next]_vars => CancelledCloses'
<1> SUFFICES ASSUME TypeOK, CancelledCloses, [Next]_vars PROVE CancelledCloses'
  OBVIOUS
<1> USE DEF Goto, GotoReset, CancelledCloses, data, backend
<1>1. CASE \/ Extract \/ ResolveHint \/ CheckAmount \/ StartPrepare
           \/ RouteCorrection \/ StartAuth \/ CreateAuth \/ Query \/ ToolFails \/ EmitEnd
  BY <1>1 DEF Extract, ResolveHint, CheckAmount, StartPrepare, RouteCorrection, StartAuth, CreateAuth,
              Query, ToolFails, EmitEnd
<1>2. CASE Prepare \/ Execute
  BY <1>2 DEF Prepare, Execute, Correct
<1>3. CASE \/ \E s \in DOMAIN ResolveStep : Resolve(s)
           \/ \E s \in DOMAIN CheckStep : CheckGiven(s)
           \/ \E t \in DOMAIN Resets : Reset(t)
  BY <1>3 DEF Resolve, CheckGiven, Reset
<1>4. ASSUME NEW s \in AllSlots, Select(s) \/ CancelInput(s) PROVE CancelledCloses'
  <2>1. CASE Select(s)
    BY <2>1 DEF Select
  <2>2. CASE CancelInput(s)
    <3>1. confirmations = 0 => InputCancelCloses(s)
      BY DEF InputCancelCloses
    <3>2. confirmations = 0 => closed'
      BY <2>2, <3>1 DEF CancelInput
    <3> QED
      BY <2>2, <3>2 DEF CancelInput
  <2> QED
    BY <1>4, <2>1, <2>2
<1>5. ASSUME NEW t \in AllSlots, RequestChange(t) \/ SelectCorrection(t) PROVE CancelledCloses'
  BY <1>5 DEF RequestChange, SelectCorrection
<1>6. CASE Approve \/ CancelApproval \/ CancelCorrection \/ AnswerRetry
  BY <1>6 DEF Approve, CancelApproval, CancelCorrection, AnswerRetry
<1>7. CASE Authenticate
  BY <1>7 DEF Authenticate, AuthRoute
<1>8. CASE AuthExpires \/ UNCHANGED vars \/ (\E a \in UNION Portfolios : Deactivate(a))
  BY <1>8 DEF AuthExpires, Deactivate, vars
<1> QED
  BY <1>1, <1>2, <1>3, <1>4, <1>5, <1>6, <1>7, <1>8 DEF Next, Run, Answer

\* Wherever the user cancels before there was a confirmation, the Backend
\* closes the stream, so that the browser does not wait for the Agent.
THEOREM CancellingCloses == Spec => []CancelledBeforeApprovalCloses
<1>1. Init => TypeOK /\ CancelledCloses
  BY TypeInit DEF Init, CancelledCloses
<1>2. (TypeOK /\ CancelledCloses) /\ [Next]_vars => (TypeOK /\ CancelledCloses)'
  BY TypeNext, CancelledNext
<1>3. TypeOK /\ CancelledCloses => CancelledBeforeApprovalCloses
  BY DEF CancelledCloses, CancelledBeforeApprovalCloses
<1> QED
  BY <1>1, <1>2, <1>3, PTL DEF Spec

===============================================================================
