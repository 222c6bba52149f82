------------------------------ MODULE Workflow ------------------------------
(***************************************************************************)
(* One turn of the Agent: a run through one of its workflows, from slot    *)
(* extraction to the end of the graph, with the user who answers its       *)
(* pauses and the part of the Backend Gateway the run depends on: the      *)
(* Agent Tools it calls, the decisions chat_service applies before it      *)
(* resumes the Agent, and the done it publishes itself when the user       *)
(* cancels.                                                                *)
(*                                                                         *)
(* A step of a graph is atomic, as LangGraph commits it.  How a resume     *)
(* reaches the Agent is the subject of AgentRuntime and Conversation; here *)
(* the answer of the user, what the Backend does with it and the rest of   *)
(* the interrupted step are one action.                                    *)
(***************************************************************************)
EXTENDS Integers, Sequences, FiniteSets, WorkflowGraphs

CONSTANTS
  Kinds,       \* the workflows checked
  Portfolios,  \* the sets of accounts the user may own
  Hints,       \* the sets of accounts that something the user says may match
  Default,     \* the default withdrawal account
  Recipients,  \* recipients of earlier transfers
  Candidates,  \* recipients verified for this transfer, each good for one Prepare
  MaxSingle,   \* _TRANSFER_LIMIT and MAX_SINGLE_TRANSFER_KRW; amounts are 0 .. MaxSingle + 1
  MaxPrepare,  \* bound: after so many Prepares the user only approves or cancels
  MaxAuth,     \* bound: nor for another authentication of one confirmation
  MaxClosures, \* bound: accounts closed elsewhere during the turn
  None

ASSUME WorkflowAssumption ==
  /\ Kinds \subseteq Transfers \cup Settings \cup Queries
  /\ Default \in UNION Portfolios /\ {} \notin Portfolios
  /\ \A owns \in Portfolios : IsFiniteSet(owns)
  /\ Hints \subseteq SUBSET UNION Portfolios
  /\ MaxSingle \in Nat \ {0} /\ MaxPrepare \in Nat \ {0} /\ MaxAuth \in Nat \ {0}
  /\ MaxClosures \in Nat
  /\ None \notin UNION Portfolios /\ None \notin Recipients \cup Candidates
  /\ None \notin 0 .. MaxSingle + 1 /\ None \notin {"given", "all"}

VARIABLES
  kind,          \* the workflow
  step,          \* current_step_id: the step that runs, or waits for the user
  route,         \* route_key of the last step
  slot,          \* state.data: the value of every slot, None when missing
  hint,          \* the accounts that match what the user said, None without a hint
  force,         \* force_account_selection
  offered,       \* the accounts of the last selection
  targets,       \* allowed_change_targets of correction_view
  confirmation,  \* confirmation_id, 0 for none
  auth,          \* auth_context_id: the row of the auth context it names
  prepareAttempt, authAttempt,
  confirmations, \* Backend: how many confirmations this execution context has
  row,           \* Backend: the newest of them
  consumed,      \* Backend: candidates a Prepare has consumed
  owned,         \* accounts of the user
  active,        \* those whose active flag is set
  keys,          \* Idempotency-Key headers received
  replayed,      \* some call carried one the Backend had seen
  closed         \* a terminal event is on the stream of the chat session

data == <<slot, hint, force, offered, targets, confirmation, auth,
          prepareAttempt, authAttempt>>
backend == <<confirmations, row, consumed, keys, replayed>>
vars == <<kind, step, route, data, backend, owned, active, closed>>

-----------------------------------------------------------------------------
(* Values and helpers *)

AllSlots == UNION {Slots[k] : k \in {"internal", "external", "alias", "summary"}}

AccountSlots == {"from", "to", "account"}

Amounts == 0 .. MaxSingle + 1

\* What the user may answer when asked for the slot.
Answers(s) ==
  CASE s \in AccountSlots   -> offered
    [] s = "recipient"      -> Recipients \cup Candidates
    [] s = "amount"         -> Amounts \ {0}
    [] OTHER                -> {"given"}

\* route_key, looked up in the edges of the step.
Goto(r) == step' = Graph[kind][step][r] /\ route' = r

\* A route with a target: Goto to the reset step of the target.
GotoReset(t) == step' = Resets[t] /\ route' = "reset"

Steps(role) == [from |-> role[1], to |-> role[2], amount |-> role[3],
                recipient |-> role[4], account |-> role[5], alias |-> role[6],
                period |-> role[7], type |-> role[8]]

RequestStep == Steps(<<"request_from", "request_to", "request_amount", "request_recipient",
                       "request_account", "request_alias", "request_period", "request_type">>)

ResolveStep == [from |-> "resolve_from", to |-> "resolve_to", account |-> "resolve_account"]

Paused == {RequestStep[s] : s \in AllSlots}
          \cup {"approval", "request_correction", "request_auth", "request_retry"}

\* The calls to tools that carry an Idempotency-Key.
Calls(key) == keys' = keys \cup {key} /\ replayed' = (replayed \/ key \in keys)

NoRow == [fixed |-> [s \in AllSlots |-> None], status |-> "absent"]

NoAuth == [confirmation |-> 0, status |-> "absent"]

\* The row confirmation_id names: the newest one, or none. Older rows, and
\* older auth contexts, are referenced by nothing.
Row == IF confirmation = confirmations THEN row ELSE NoRow

-----------------------------------------------------------------------------
(* Collecting the slots *)

Init ==
  /\ kind \in Kinds
  /\ step = "extract" /\ route = "always"
  /\ slot = [s \in AllSlots |-> None]
  /\ hint = [s \in AccountSlots |-> None]
  /\ force = FALSE /\ offered = {} /\ targets = {}
  /\ confirmation = 0 /\ auth = NoAuth /\ prepareAttempt = 0 /\ authAttempt = 0
  /\ confirmations = 0 /\ row = NoRow /\ consumed = {}
  /\ owned \in Portfolios /\ active = owned
  /\ keys = {} /\ replayed = FALSE
  /\ closed = FALSE

\* Any part of what the workflow needs may be in the message; the fallback
\* rules also read an amount of 0.
Extract ==
  /\ step = "extract"
  /\ hint' \in [AccountSlots -> {None} \cup Hints]
  /\ \A s \in AccountSlots \ Slots[kind] : hint'[s] = None
  /\ \E said \in SUBSET (Slots[kind] \cap {"amount", "alias", "period", "type"}), n \in Amounts :
       slot' = [s \in AllSlots |->
                  IF s \notin said THEN None ELSE IF s = "amount" THEN n ELSE "given"]
  /\ \/ Goto("extracted")
     \/ kind = "external" /\ Goto("hinted")
  /\ UNCHANGED <<kind, owned, force, offered, targets, confirmation, auth,
                 prepareAttempt, authAttempt, backend, active, closed>>

\* fetch_accounts: the active accounts that match, without the account the
\* money comes from.
CandidateAccounts_Inactive(s) ==
  (IF hint[s] = None THEN owned ELSE owned \cap hint[s])
     \ (IF s = "to" THEN {slot["from"]} ELSE {})

CandidateAccounts(s) ==
  (IF hint[s] = None THEN active ELSE active \cap hint[s])
     \ (IF s = "to" THEN {slot["from"]} ELSE {})

\* The default account is taken for a withdrawal without a hint, unless the
\* user asked to change it.
TakesDefault(s) == s = "from" /\ hint[s] = None /\ ~force /\ Default \in CandidateAccounts(s)

Resolve(s) ==
  LET found == CandidateAccounts(s) IN
  /\ s \in Slots[kind] /\ step = ResolveStep[s]
  /\ offered' = found
  /\ force' = IF s = "from" THEN FALSE ELSE force
  /\ \/ found = {} /\ Goto("no_accounts") /\ UNCHANGED slot
     \/ /\ Cardinality(found) = 1 \/ TakesDefault(s)
        /\ slot' = [slot EXCEPT ![s] = IF TakesDefault(s) THEN Default
                                       ELSE CHOOSE a \in found : TRUE]
        /\ Goto("resolved")
     \/ /\ Cardinality(found) > 1 /\ ~TakesDefault(s)
        /\ Goto("selection_required") /\ UNCHANGED slot
     \/ \* all_accounts_requested, in the queries only
        /\ kind \in Queries /\ Cardinality(found) > 1
        /\ slot' = [slot EXCEPT ![s] = "all"] /\ Goto("resolved")
  /\ UNCHANGED <<kind, owned, hint, targets, confirmation, auth, prepareAttempt,
                 authAttempt, backend, active, closed>>

ResolveHint ==
  /\ step = "resolve_hint"
  /\ \/ \E r \in Recipients : slot' = [slot EXCEPT !["recipient"] = r] /\ Goto("resolved")
     \/ Goto("selection_required") /\ UNCHANGED slot
  /\ UNCHANGED <<kind, owned, hint, force, offered, targets, confirmation, auth,
                 prepareAttempt, authAttempt, backend, active, closed>>

CheckAmount ==
  /\ step = "check_amount"
  /\ Goto(IF slot["amount"] \in {None, 0} THEN "invalid"
          ELSE IF slot["amount"] > MaxSingle THEN "limit_exceeded" ELSE "valid")
  /\ UNCHANGED <<kind, owned, data, backend, active, closed>>

CheckStep == [alias |-> "check_alias", period |-> "check_period", type |-> "check_type"]

\* A period nobody mentioned defaults to the last month.
CheckGiven(s) ==
  /\ s \in Slots[kind] /\ step = CheckStep[s]
  /\ \/ slot[s] # None /\ Goto("present") /\ UNCHANGED slot
     \/ slot[s] = None /\ Goto("missing") /\ UNCHANGED slot
     \/ /\ s = "period" /\ slot[s] = None
        /\ slot' = [slot EXCEPT ![s] = "given"] /\ Goto("present")
  /\ UNCHANGED <<kind, owned, hint, force, offered, targets, confirmation, auth,
                 prepareAttempt, authAttempt, backend, active, closed>>

Select(s) ==
  /\ s \in Slots[kind] /\ step = RequestStep[s] /\ prepareAttempt < MaxPrepare
  /\ \E v \in Answers(s) : slot' = [slot EXCEPT ![s] = v]
  /\ Goto("selected")
  /\ UNCHANGED <<kind, owned, hint, force, offered, targets, confirmation, auth,
                 prepareAttempt, authAttempt, backend, active, closed>>

\* chat_service: the keys a cancelled input may come back with when the
\* workflow can return to the approval.
ReturnCapable == {"from", "to", "account", "recipient", "amount"}

\* resume_after_input publishes done for a cancelled input, unless the Agent
\* may return to the approval.
InputCancelCloses_Unconditional(s) == s \notin ReturnCapable

InputCancelCloses(s) == ~ (s \in ReturnCapable /\ confirmations > 0)

\* With a value kept from before, the transfers go back to Prepare.
Returns_Always(s) == kind \in Transfers

Returns(s) == kind \in Transfers /\ slot[s] # None

CancelInput(s) ==
  /\ s \in Slots[kind] /\ step = RequestStep[s]
  /\ closed' = (closed \/ InputCancelCloses(s))
  /\ Goto(IF Returns(s) THEN "cancelled_return" ELSE "cancelled")
  /\ UNCHANGED <<kind, owned, data, backend, active>>

-----------------------------------------------------------------------------
(* Prepare and approval *)

\* Bound on Prepares and confirmations: no run reaches it, since only the
\* loss of an account leads to another Prepare without the user; FreshKeys
\* would fail if one did (TransferCount and SettingCount in the proofs).
PrepareCap == MaxPrepare + MaxClosures + 1

StartPrepare ==
  /\ step = "start_prepare"
  /\ prepareAttempt' = IF prepareAttempt < PrepareCap THEN prepareAttempt + 1 ELSE PrepareCap
  /\ Goto("always")
  /\ UNCHANGED <<kind, owned, slot, hint, force, offered, targets, confirmation, auth,
                 authAttempt, backend, active, closed>>

\* What the Backend finds wrong with the values, at Prepare and again at
\* Execute: the targets the user may correct.  The balance, the daily limit,
\* the recipient's account and the other aliases are not part of this model.
Violations(v) ==
  CASE kind = "internal" ->
         IF v["from"] = v["to"] THEN {{"to"}}
         ELSE IF v["from"] \notin active THEN {{"from"}}
         ELSE IF v["to"] \notin active THEN {{"to"}}
         ELSE IF v["amount"] > MaxSingle THEN {{"amount"}}
         ELSE {{}, {"from", "amount"}, {"amount"}}
    [] kind = "external" ->
         IF v["from"] \notin active THEN {{"recipient"}, {"from"}}
         ELSE IF v["amount"] > MaxSingle THEN {{"recipient"}, {"amount"}}
         ELSE {{}, {"recipient"}, {"from", "amount"}, {"amount"}}
    [] kind = "default" ->
         IF v["account"] \notin active THEN {{"account"}} ELSE {{}}
    [] kind = "alias" -> {{}, {"alias"}}

\* Corrections go to the user's choice in the transfers, straight to the
\* reset of their only target in the settings.
Correct(violation) ==
  IF kind \in Transfers THEN Goto("correction")
  ELSE \E t \in violation : GotoReset(t)

\* What the schemas and the recipient checks refuse with an error.
Refused == \/ kind \in Transfers /\ slot["amount"] \in {None, 0}
           \/ kind = "external" /\ slot["recipient"] \in consumed

AlreadySet == \/ kind = "default" /\ slot["account"] = Default
              \/ kind = "alias"

PrepareKey == <<"prepare", prepareAttempt>>

\* The answer may be lost after the Backend has done its work.
Prepare ==
  /\ step = "prepare"
  /\ Calls(PrepareKey)
  /\ \/ /\ Refused /\ Goto("error")
        /\ UNCHANGED <<confirmations, row, consumed, confirmation, targets>>
     \/ \E violation \in Violations(slot) \ {{}} :
          /\ ~Refused
          /\ Correct(violation) /\ targets' = violation
          /\ UNCHANGED <<confirmations, row, consumed, confirmation>>
     \/ /\ ~Refused /\ AlreadySet /\ {} \in Violations(slot)
        /\ Goto("unchanged")
        /\ UNCHANGED <<confirmations, row, consumed, confirmation, targets>>
     \/ /\ ~Refused /\ {} \in Violations(slot)
        /\ ~(kind = "default" /\ AlreadySet)
        /\ confirmations' = confirmations + 1
        /\ row' = [fixed |-> slot, status |-> "PENDING"]
        /\ consumed' = consumed \cup ({slot["recipient"]} \cap Candidates)
        /\ UNCHANGED targets
        /\ \/ Goto("ready") /\ confirmation' = confirmations'
           \/ Goto("error") /\ UNCHANGED confirmation
  /\ UNCHANGED <<kind, owned, slot, hint, force, offered, auth, prepareAttempt,
                 authAttempt, active, closed>>

SetStatus(s) == row' = [row EXCEPT !.status = s]

Approve ==
  /\ step = "approval" /\ Row.status = "PENDING" /\ confirmations < PrepareCap
  /\ SetStatus("APPROVED")
  /\ Goto("approved")
  /\ UNCHANGED <<kind, owned, data, confirmations, consumed, active, keys, replayed, closed>>

\* A change consumes the confirmation: the row is invalidated.
RequestChange(t) ==
  /\ step = "approval" /\ Row.status = "PENDING"
  /\ t \in Slots[kind] /\ prepareAttempt < MaxPrepare
  /\ SetStatus("INVALIDATED")
  /\ GotoReset(t)
  /\ UNCHANGED <<kind, owned, data, confirmations, consumed, active, keys, replayed, closed>>

\* chat_service publishes done for a cancelled approval.
CancelApproval ==
  /\ step = "approval" /\ Row.status = "PENDING"
  /\ SetStatus("INVALIDATED")
  /\ Goto("cancelled") /\ closed' = TRUE
  /\ UNCHANGED <<kind, owned, data, confirmations, consumed, active, keys, replayed>>

RouteCorrection ==
  /\ step = "route_correction"
  /\ Goto(IF targets # {} /\ targets \subseteq Slots[kind] THEN "valid" ELSE "invalid")
  /\ UNCHANGED <<kind, owned, data, backend, active, closed>>

SelectCorrection(t) ==
  /\ step = "request_correction" /\ t \in targets /\ prepareAttempt < MaxPrepare
  /\ GotoReset(t)
  /\ UNCHANGED <<kind, owned, data, backend, active, closed>>

\* correction_selection_outcome is not return capable: done is published.
CancelCorrection ==
  /\ step = "request_correction"
  /\ Goto("cancelled") /\ closed' = TRUE
  /\ UNCHANGED <<kind, owned, data, backend, active>>

\* preserve_value_on_reset: a value survives the reset of a change the user
\* asked for on the approval screen.
Preserves == kind \in Transfers /\ confirmation # 0

\* The reset steps clear the approval, the authentication and their own slot.
Reset(t) ==
  /\ t \in Slots[kind] \cap DOMAIN Resets /\ step = Resets[t]
  /\ confirmation' = 0 /\ auth' = NoAuth /\ authAttempt' = 0
  /\ targets' = {}
  /\ slot' = [slot EXCEPT ![t] = IF Preserves THEN @ ELSE None]
  /\ hint' = IF t \in AccountSlots THEN [hint EXCEPT ![t] = None] ELSE hint
  /\ offered' = IF t \in AccountSlots THEN {} ELSE offered
  /\ force' = (force \/ t = "from")
  /\ Goto("always")
  /\ UNCHANGED <<kind, owned, prepareAttempt, backend, active, closed>>

-----------------------------------------------------------------------------
(* Authentication and execution *)

NextAuthAttempt_Same == 1

NextAuthAttempt == authAttempt + 1

StartAuth ==
  /\ step = "start_auth"
  /\ auth' = NoAuth /\ authAttempt' = NextAuthAttempt
  /\ Goto("always")
  /\ UNCHANGED <<kind, owned, slot, hint, force, offered, targets, confirmation,
                 prepareAttempt, backend, active, closed>>

AuthKey == <<"auth", confirmation, authAttempt>>

\* A confirmation never has an active auth context here: the attempt before
\* has failed or expired.
CreateAuth ==
  /\ step = "create_auth"
  /\ Calls(AuthKey)
  /\ \/ /\ Goto("authentication_required")
        /\ auth' = [confirmation |-> confirmation, status |-> "PENDING"]
     \/ Goto("error") /\ UNCHANGED auth
  /\ UNCHANGED <<kind, owned, slot, hint, force, offered, targets, confirmation, prepareAttempt,
                 authAttempt, confirmations, row, consumed, active, closed>>

SetAuth(s) == auth' = [auth EXCEPT !.status = s]

\* The route of an authentication result.
AuthRoute_Lenient(s) == IF s = "CANCELLED" THEN "cancelled" ELSE "verified"

AuthRoute(s) ==
  CASE s = "VERIFIED"  -> "verified"
    [] s = "FAILED"    -> "retriable"
    [] s = "CANCELLED" -> "cancelled"

\* authenticate_and_resume: the user gives the password, or cancels.
Authenticate ==
  /\ step = "request_auth" /\ auth.status = "PENDING"
  /\ \E s \in {"VERIFIED", "FAILED", "CANCELLED"} :
       /\ SetAuth(s) /\ Goto(AuthRoute(s))
       /\ closed' = (closed \/ s = "CANCELLED")
  /\ UNCHANGED <<kind, owned, slot, hint, force, offered, targets, confirmation, prepareAttempt,
                 authAttempt, backend, active>>

AnswerRetry ==
  /\ step = "request_retry"
  /\ \/ authAttempt < MaxAuth /\ Goto("retry") /\ UNCHANGED closed
     \/ Goto("cancelled") /\ closed' = TRUE
  /\ UNCHANGED <<kind, owned, data, backend, active>>

ExecuteKey ==
  IF kind \in Transfers THEN <<"execute", confirmation, authAttempt>>
  ELSE <<"execute", confirmation>>

\* load_for_execute and load_verified.
Licensed ==
  /\ Row.status = "APPROVED"
  /\ kind \in Transfers => /\ auth.confirmation = confirmation
                           /\ auth.status \in {"VERIFIED", "EXPIRED"}

ExecuteViolations ==
  Violations(Row.fixed) \cup
    IF kind = "alias" /\ Row.fixed["account"] \notin active THEN {{"account"}} ELSE {}

Execute ==
  /\ step = "execute"
  /\ Calls(ExecuteKey)
  /\ \/ ~Licensed /\ Goto("error") /\ UNCHANGED <<row, confirmation, auth, targets>>
     \/ /\ Licensed /\ kind \in Transfers /\ auth.status = "EXPIRED"
        /\ Goto("reauthentication") /\ auth' = NoAuth
        /\ UNCHANGED <<row, confirmation, targets>>
     \/ /\ Licensed /\ (kind \in Transfers => auth.status = "VERIFIED")
        /\ \E violation \in ExecuteViolations \ {{}} :
             /\ SetStatus("INVALIDATED")
             /\ Correct(violation) /\ targets' = violation
             /\ confirmation' = 0 /\ auth' = NoAuth
     \/ /\ Licensed /\ (kind \in Transfers => auth.status = "VERIFIED")
        /\ {} \in ExecuteViolations
        /\ SetStatus("EXECUTED")
        /\ Goto("completed") \/ Goto("error")
        /\ UNCHANGED <<confirmation, auth, targets>>
  /\ UNCHANGED <<kind, owned, slot, hint, force, offered, prepareAttempt, authAttempt,
                 confirmations, consumed, active, closed>>

Query ==
  /\ step = "query"
  /\ Goto("succeeded")
  /\ UNCHANGED <<kind, owned, data, backend, active, closed>>

\* A tool call that fails before the Backend has done anything.
ToolFails ==
  /\ step \in {ResolveStep[s] : s \in DOMAIN ResolveStep}
              \cup {"resolve_hint", "prepare", "create_auth", "execute", "query"}
  /\ Goto("error")
  /\ CASE step = "prepare"     -> Calls(PrepareKey)
       [] step = "create_auth" -> Calls(AuthKey)
       [] step = "execute"     -> Calls(ExecuteKey)
       [] OTHER                -> UNCHANGED <<keys, replayed>>
  /\ UNCHANGED <<kind, owned, data, confirmations, row, consumed, active, closed>>

\* The emit steps end the run; done, blocked or error closes the stream.
EmitEnd ==
  /\ step \in {"emit_empty", "emit_unchanged", "emit_blocked", "emit_result", "emit_error"}
  /\ Goto("completed")
  /\ closed' = TRUE
  /\ UNCHANGED <<kind, owned, data, backend, active>>

-----------------------------------------------------------------------------
(* The rest of the system *)

\* An account is closed elsewhere.
Deactivate(a) ==
  /\ a \in active /\ Cardinality(owned \ active) < MaxClosures /\ step # End
  /\ active' = active \ {a}
  /\ UNCHANGED <<kind, owned, step, route, data, backend, closed>>

\* The time-to-live of a verified authentication elapses before Execute.
AuthExpires ==
  /\ step = "execute" /\ auth.status = "VERIFIED" /\ authAttempt < MaxAuth
  /\ SetAuth("EXPIRED")
  /\ UNCHANGED <<kind, owned, step, route, slot, hint, force, offered, targets, confirmation,
                 prepareAttempt, authAttempt, backend, active, closed>>

\* What the Agent does by itself, until it pauses or ends.
Run ==
  \/ Extract \/ ResolveHint \/ CheckAmount \/ StartPrepare \/ Prepare
  \/ RouteCorrection \/ StartAuth \/ CreateAuth \/ Execute \/ Query \/ ToolFails \/ EmitEnd
  \/ \E s \in DOMAIN ResolveStep : Resolve(s)
  \/ \E s \in DOMAIN CheckStep : CheckGiven(s)
  \/ \E t \in DOMAIN Resets : Reset(t)

\* What the user does at a pause.
Answer ==
  \/ \E s \in AllSlots : Select(s) \/ CancelInput(s)
  \/ \E t \in AllSlots : RequestChange(t) \/ SelectCorrection(t)
  \/ Approve \/ CancelApproval \/ CancelCorrection \/ Authenticate \/ AnswerRetry

Next == Run \/ Answer \/ AuthExpires \/ \E a \in UNION Portfolios : Deactivate(a)

\* LangGraph runs on until the next interrupt, and every tool call answers or
\* times out; the user may never answer.
Spec == Init /\ [][Next]_vars /\ WF_vars(Run)

-----------------------------------------------------------------------------
(* Properties that hold *)

\* Every call of a run carries an Idempotency-Key of its own: no call can be
\* answered with the stored outcome of an earlier one, whatever is corrected,
\* changed or authenticated again in between.
FreshKeys == ~replayed

\* What the approval screen shows can be approved: the confirmation is
\* PENDING and fixes the values the run has collected.
ApprovalIsLive ==
  step = "approval" =>
    /\ Row.status = "PENDING"
    /\ \A s \in Slots[kind] : Row.fixed[s] = slot[s]

\* Execute is asked for the newest confirmation, approved by the user, and in
\* the transfers under an authentication of that confirmation.
ExecutesWhatWasApproved ==
  step = "execute" =>
    /\ confirmation = confirmations /\ Licensed
    /\ \A s \in Slots[kind] : Row.fixed[s] = slot[s]

\* Prepare is never sent a missing value, whichever screen the user went
\* back to and cancelled.
PrepareHasEverySlot ==
  step = "prepare" => \A s \in Slots[kind] : slot[s] # None

\* A run cancelled before there was anything to approve leaves the stream
\* closed; one that goes on after the first confirmation leaves it open.
CancelledBeforeApprovalCloses ==
  step = End /\ route = "cancelled" /\ confirmations = 0 => closed

\* The Agent does not run for ever between two pauses.
RunPausesOrEnds == (step \notin Paused) ~> (step \in Paused \cup {End})

=============================================================================
