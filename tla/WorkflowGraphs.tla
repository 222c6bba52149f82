--------------------------- MODULE WorkflowGraphs ---------------------------
(***************************************************************************)
(* The workflows of the Agent as LangGraph compiles them: for each         *)
(* workflow, its steps and, for each step, the step every route key leads  *)
(* to.  A step is named by its role: "resolve_from", "request_from" and    *)
(* "reset_from" are resolve_internal_from_account,                         *)
(* request_from_account_selection and reset_internal_from_account in one   *)
(* workflow and resolve_external_from_account ... in another.  A route     *)
(* that carries a target ("change_requested:amount", "selected:amount",    *)
(* "correction_required:alias") is written "reset" and the target is       *)
(* looked up in Resets.                                                    *)
(***************************************************************************)

End == "END"

\* The steps of two parts of a graph; those of f prevail.
f ++ g == [s \in DOMAIN f \cup DOMAIN g |-> IF s \in DOMAIN f THEN f[s] ELSE g[s]]

\* The steps every workflow ends in.
Emit(steps) == [s \in steps |-> [completed |-> End]]

\* Where a change that is given up returns to: the confirmation it started
\* from is used up, so a new one is prepared.
ReturnStep_Approval == "approval"

ReturnStep == "start_prepare"

\* From the first Prepare to the end, the two transfers are the same graph.
TransferTail ==
    [start_prepare     |-> [always |-> "prepare"],
     prepare           |-> [ready |-> "approval", correction |-> "route_correction",
                            blocked |-> "emit_blocked", error |-> "emit_error"],
     approval          |-> [approved |-> "start_auth", reset |-> "RESET",
                            cancelled |-> End, error |-> "emit_error"],
     route_correction  |-> [valid |-> "request_correction", invalid |-> "emit_error"],
     request_correction |-> [reset |-> "RESET", cancelled |-> End, error |-> "emit_error"],
     start_auth        |-> [always |-> "create_auth"],
     create_auth       |-> [authentication_required |-> "request_auth",
                            blocked |-> "emit_blocked", error |-> "emit_error"],
     request_auth      |-> [verified |-> "execute", retriable |-> "request_retry",
                            cancelled |-> End, error |-> "emit_error"],
     request_retry     |-> [retry |-> "start_auth", cancelled |-> End, error |-> "emit_error"],
     execute           |-> [completed |-> "emit_result", correction |-> "route_correction",
                            reauthentication |-> "start_auth", blocked |-> "emit_blocked",
                            error |-> "emit_error"]]
    ++ Emit({"emit_result", "emit_blocked", "emit_error"})

InternalTransfer ==
    [extract        |-> [extracted |-> "resolve_from"],
     resolve_from   |-> [resolved |-> "resolve_to", selection_required |-> "request_from",
                         no_accounts |-> "emit_empty", error |-> "emit_error"],
     request_from   |-> [selected |-> "resolve_to", cancelled |-> End,
                         cancelled_return |-> ReturnStep, error |-> "emit_error"],
     resolve_to     |-> [resolved |-> "check_amount", selection_required |-> "request_to",
                         no_accounts |-> "emit_empty", error |-> "emit_error"],
     request_to     |-> [selected |-> "check_amount", cancelled |-> End,
                         cancelled_return |-> ReturnStep, error |-> "emit_error"],
     check_amount   |-> [valid |-> "start_prepare", invalid |-> "request_amount",
                         limit_exceeded |-> "emit_blocked"],
     request_amount |-> [selected |-> "check_amount", cancelled |-> End,
                         cancelled_return |-> ReturnStep, error |-> "emit_error"],
     reset_from     |-> [always |-> "resolve_from"],
     reset_to       |-> [always |-> "resolve_to"],
     reset_amount   |-> [always |-> "request_amount"]]
    ++ Emit({"emit_empty"}) ++ TransferTail

ExternalTransfer ==
    [extract           |-> [extracted |-> "request_recipient", hinted |-> "resolve_hint"],
     resolve_hint      |-> [resolved |-> "resolve_from", selection_required |-> "request_recipient",
                            error |-> "emit_error"],
     request_recipient |-> [selected |-> "resolve_from", cancelled |-> End,
                            cancelled_return |-> ReturnStep, error |-> "emit_error"],
     resolve_from      |-> [resolved |-> "check_amount", selection_required |-> "request_from",
                            no_accounts |-> "emit_empty", error |-> "emit_error"],
     request_from      |-> [selected |-> "check_amount", cancelled |-> End,
                            cancelled_return |-> ReturnStep, error |-> "emit_error"],
     check_amount      |-> [valid |-> "start_prepare", invalid |-> "request_amount",
                            limit_exceeded |-> "emit_blocked"],
     request_amount    |-> [selected |-> "check_amount", cancelled |-> End,
                            cancelled_return |-> ReturnStep, error |-> "emit_error"],
     reset_from        |-> [always |-> "resolve_from"],
     reset_recipient   |-> [always |-> "request_recipient"],
     reset_amount      |-> [always |-> "request_amount"]]
    ++ Emit({"emit_empty"}) ++ TransferTail

DefaultAccount ==
    [extract         |-> [extracted |-> "resolve_account"],
     resolve_account |-> [resolved |-> "start_prepare", selection_required |-> "request_account",
                          no_accounts |-> "emit_empty", error |-> "emit_error"],
     request_account |-> [selected |-> "start_prepare", cancelled |-> End, error |-> "emit_error"],
     start_prepare   |-> [always |-> "prepare"],
     prepare         |-> [ready |-> "approval", unchanged |-> "emit_unchanged", reset |-> "RESET",
                          blocked |-> "emit_blocked", error |-> "emit_error"],
     approval        |-> [approved |-> "execute", reset |-> "RESET", cancelled |-> End,
                          error |-> "emit_error"],
     reset_account   |-> [always |-> "resolve_account"],
     execute         |-> [completed |-> "emit_result", reset |-> "RESET",
                          blocked |-> "emit_blocked", error |-> "emit_error"]]
    ++ Emit({"emit_empty", "emit_unchanged", "emit_blocked", "emit_result", "emit_error"})

AccountAlias ==
    [extract         |-> [extracted |-> "resolve_account"],
     resolve_account |-> [resolved |-> "check_alias", selection_required |-> "request_account",
                          no_accounts |-> "emit_empty", error |-> "emit_error"],
     request_account |-> [selected |-> "check_alias", cancelled |-> End, error |-> "emit_error"],
     check_alias     |-> [present |-> "start_prepare", missing |-> "request_alias"],
     request_alias   |-> [selected |-> "start_prepare", cancelled |-> End, error |-> "emit_error"],
     start_prepare   |-> [always |-> "prepare"],
     prepare         |-> [ready |-> "approval", unchanged |-> "emit_unchanged", reset |-> "RESET",
                          blocked |-> "emit_blocked", error |-> "emit_error"],
     approval        |-> [approved |-> "execute", reset |-> "RESET", cancelled |-> End,
                          error |-> "emit_error"],
     reset_account   |-> [always |-> "resolve_account"],
     reset_alias     |-> [always |-> "request_alias"],
     execute         |-> [completed |-> "emit_result", reset |-> "RESET",
                          blocked |-> "emit_blocked", error |-> "emit_error"]]
    ++ Emit({"emit_empty", "emit_unchanged", "emit_blocked", "emit_result", "emit_error"})

\* The three queries ask for what is missing and read once.
BalanceInquiry ==
    [extract         |-> [extracted |-> "resolve_account"],
     resolve_account |-> [resolved |-> "query", selection_required |-> "request_account",
                          no_accounts |-> "emit_empty", error |-> "emit_error"],
     request_account |-> [selected |-> "query", cancelled |-> End, error |-> "emit_error"],
     query           |-> [succeeded |-> "emit_result", error |-> "emit_error"]]
    ++ Emit({"emit_empty", "emit_result", "emit_error"})

TransactionHistory ==
    [check_period    |-> [present |-> "query", missing |-> "request_period"],
     request_period  |-> [selected |-> "query", cancelled |-> End, error |-> "emit_error"],
     resolve_account |-> [resolved |-> "check_period", selection_required |-> "request_account",
                          no_accounts |-> "emit_empty", error |-> "emit_error"],
     request_account |-> [selected |-> "check_period", cancelled |-> End, error |-> "emit_error"]]
    ++ BalanceInquiry

PeriodAmountSummary ==
    [check_period   |-> [present |-> "check_type", missing |-> "request_period"],
     request_period |-> [selected |-> "check_type", cancelled |-> End, error |-> "emit_error"],
     check_type     |-> [present |-> "query", missing |-> "request_type"],
     request_type   |-> [selected |-> "query", cancelled |-> End, error |-> "emit_error"]]
    ++ TransactionHistory

AccountList ==
    [extract |-> [extracted |-> "query"],
     query   |-> [succeeded |-> "emit_result", error |-> "emit_error"]]
    ++ Emit({"emit_result", "emit_error"})

Transfers == {"internal", "external"}
Settings  == {"default", "alias"}
Queries   == {"list", "balance", "history", "summary"}

Graph ==
    [internal |-> InternalTransfer, external |-> ExternalTransfer,
     default |-> DefaultAccount, alias |-> AccountAlias,
     list |-> AccountList, balance |-> BalanceInquiry,
     history |-> TransactionHistory, summary |-> PeriodAmountSummary]

\* _RESET_STEP_BY_TARGET: what a change of the target goes back to.
Resets ==
    [from |-> "reset_from", to |-> "reset_to", amount |-> "reset_amount",
     recipient |-> "reset_recipient", account |-> "reset_account", alias |-> "reset_alias"]

\* The slots a workflow collects before Prepare (or the query).
Slots ==
    [internal |-> {"from", "to", "amount"}, external |-> {"recipient", "from", "amount"},
     default |-> {"account"}, alias |-> {"account", "alias"},
     list |-> {}, balance |-> {"account"}, history |-> {"account", "period"},
     summary |-> {"account", "period", "type"}]
=============================================================================
