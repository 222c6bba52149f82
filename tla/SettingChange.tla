---------------------------- MODULE SettingChange ----------------------------
(***************************************************************************)
(* The account settings of one user in the Backend Gateway: which account  *)
(* is the default one, and how the accounts are called. Prepare fixes what *)
(* the user is asked to approve; Execute judges it again and writes it.    *)
(*                                                                         *)
(* Each step of an Execute handler is one statement or commit; between two *)
(* of them other handlers run, a time-to-live elapses or the handler dies. *)
(* A change of the default account is a transaction of two statements      *)
(* under READ COMMITTED: its writes are not seen, and the rows it wrote    *)
(* stay locked, until it commits or rolls back. An Execute whose key was   *)
(* used before answers from the idempotency record (see TransferExecution) *)
(* and is left out: every call below carries a key of its own.             *)
(***************************************************************************)
EXTENDS Naturals, FiniteSets

CONSTANTS
  Accounts,       \* the accounts of the user
  Aliases,        \* the names the policy allows, normalised
  Confirmations,  \* identifiers of confirmation rows
  Executes,       \* Execute handlers that may run at the same time
  InitialDefault, \* the default account of the user, as a set of at most one
  MaxCalls,       \* bound: Execute calls
  MaxUpsets,      \* bound: confirmations that expire and accounts deactivated
  None            \* no account, no alias, no confirmation

ASSUME ConstantsAssumption ==
  /\ Accounts # {} /\ IsFiniteSet(Accounts) /\ IsFiniteSet(Executes)
  /\ InitialDefault \subseteq Accounts /\ Cardinality(InitialDefault) <= 1
  /\ MaxCalls \in Nat /\ MaxUpsets \in Nat
  /\ None \notin Accounts \cup Aliases \cup Confirmations

VARIABLES
  active,     \* Account.active: the accounts in use
  isDefault,  \* Account.is_default: the accounts that have it, as committed
  alias,      \* Account.alias
  status,     \* Confirmation.status, "absent" before Prepare creates the row
  fixed,      \* Confirmation.fixed_data and the operation it is for
  approvedAt, \* the confirmations whose approved_at is set
  overdue,    \* the confirmations whose expires_at has passed
  execute,    \* the Execute handlers: where each one is, what it has read
  audit,      \* SETTING_CHANGE_COMPLETED events per confirmation
  calls,      \* Execute calls so far
  changes,    \* history: how often the change of a confirmation was committed
  crashes     \* history: handlers that died between the change and its mark

accountVars == <<active, isDefault, alias>>
confirmationVars == <<status, fixed, approvedAt, overdue>>
historyVars == <<calls, changes, crashes>>
vars == <<active, isDefault, alias, status, fixed, approvedAt, overdue, execute, audit,
          calls, changes, crashes>>

-----------------------------------------------------------------------------
(* Values *)

\* A change of the default account carries no alias.
Change == [account : Accounts, alias : Aliases \cup {None}]

NoChange == [account |-> None, alias |-> None]

IsDefaultChange(f) == f.alias = None

Point == {"load", "read_account", "check_alias", "write_alias", "find_default",
          "clear_default", "set_default", "mark", "record_audit", "invalidate"}

\* had: the alias of the loaded account object; found: the rows the UPDATE of
\* the old default matched; cleared: those it wrote and holds locked.
Idle == [at |-> "idle", confirmation |-> None, had |-> None, found |-> {}, cleared |-> {}]

Running == [at : Point, confirmation : Confirmations, had : Aliases \cup {None},
            found : SUBSET Accounts, cleared : SUBSET Accounts]

TheChange(r) == fixed[execute[r].confirmation]

Init ==
  /\ active = Accounts
  /\ isDefault = InitialDefault
  /\ alias = [a \in Accounts |-> None]
  /\ status = [c \in Confirmations |-> "absent"]
  /\ fixed = [c \in Confirmations |-> NoChange]
  /\ approvedAt = {} /\ overdue = {}
  /\ execute = [r \in Executes |-> Idle]
  /\ audit = [c \in Confirmations |-> 0]
  /\ calls = 0
  /\ changes = [c \in Confirmations |-> 0]
  /\ crashes = [c \in Confirmations |-> 0]

-----------------------------------------------------------------------------
(* Prepare, and what the user and the clock do *)

\* alias_exists_for_user, as _alias_policy_violation asks it.
TakenByAnother(f) == \E b \in Accounts \ {f.account} : alias[b] = f.alias

\* prepare_default_account and prepare_account_alias: a request that breaks a
\* condition, or asks for what is already so, creates no confirmation.
Prepare(c, f) ==
  /\ status[c] = "absent"
  /\ IF IsDefaultChange(f)
     THEN f.account \in active \ isDefault
     ELSE ~TakenByAnother(f) /\ alias[f.account] # f.alias
  /\ status' = [status EXCEPT ![c] = "PENDING"]
  /\ fixed' = [fixed EXCEPT ![c] = f]
  /\ UNCHANGED <<accountVars, approvedAt, overdue, execute, audit, historyVars>>

\* _apply_confirmation_decision, one decision at a time (two tabs that decide
\* together are in TransferExecution).
Decide(c, approved) ==
  /\ status[c] = "PENDING" /\ c \notin overdue
  /\ status' = [status EXCEPT ![c] = IF approved THEN "APPROVED" ELSE "INVALIDATED"]
  /\ approvedAt' = IF approved THEN approvedAt \cup {c} ELSE approvedAt
  /\ UNCHANGED <<accountVars, fixed, overdue, execute, audit, historyVars>>

Upsets == Cardinality(overdue) + Cardinality(Accounts \ active)

ConfirmationExpires(c) ==
  /\ status[c] # "absent" /\ c \notin overdue /\ Upsets < MaxUpsets
  /\ overdue' = overdue \cup {c}
  /\ UNCHANGED <<accountVars, status, fixed, approvedAt, execute, audit, historyVars>>

\* No service of the Backend writes Account.active: operators do.
Deactivate(a) ==
  /\ a \in active /\ Upsets < MaxUpsets
  /\ active' = active \ {a}
  /\ UNCHANGED <<isDefault, alias, confirmationVars, execute, audit, historyVars>>

-----------------------------------------------------------------------------
(* Execute *)

Goto(r, point) == execute' = [execute EXCEPT ![r].at = point]

Begin(r, c) ==
  /\ execute[r].at = "idle" /\ calls < MaxCalls
  /\ execute' = [execute EXCEPT ![r] = [Idle EXCEPT !.at = "load", !.confirmation = c]]
  /\ calls' = calls + 1
  /\ UNCHANGED <<accountVars, confirmationVars, audit, changes, crashes>>

LoadConfirmation_Unapproved(r) ==
  LET c == execute[r].confirmation IN
  /\ execute[r].at = "load"
  /\ status[c] \in {"PENDING", "APPROVED"} /\ c \notin overdue
  /\ Goto(r, "read_account")
  /\ UNCHANGED <<accountVars, confirmationVars, audit, historyVars>>

LoadConfirmation_Executed(r) ==
  LET c == execute[r].confirmation IN
  /\ execute[r].at = "load"
  /\ status[c] \in {"APPROVED", "EXECUTED"} /\ c \notin overdue
  /\ Goto(r, "read_account")
  /\ UNCHANGED <<accountVars, confirmationVars, audit, historyVars>>

\* load_for_execute; any other status raises (ExecuteFails).
LoadConfirmation(r) ==
  LET c == execute[r].confirmation IN
  /\ execute[r].at = "load"
  /\ status[c] = "APPROVED" /\ c \notin overdue
  /\ Goto(r, "read_account")
  /\ UNCHANGED <<accountVars, confirmationVars, audit, historyVars>>

ReadAccount_AliasOnceChecked(r) ==
  LET f == TheChange(r) IN
  /\ execute[r].at = "read_account"
  /\ execute' = [execute EXCEPT
       ![r].had = alias[f.account],
       ![r].at = IF f.account \notin active THEN "invalidate"
                 ELSE IF IsDefaultChange(f) THEN "find_default" ELSE "write_alias"]
  /\ UNCHANGED <<accountVars, confirmationVars, audit, historyVars>>

\* The account object stays in the session with the values read here.
ReadAccount(r) ==
  LET f == TheChange(r) IN
  /\ execute[r].at = "read_account"
  /\ execute' = [execute EXCEPT
       ![r].had = alias[f.account],
       ![r].at = IF f.account \notin active THEN "invalidate"
                 ELSE IF IsDefaultChange(f) THEN "find_default" ELSE "check_alias"]
  /\ UNCHANGED <<accountVars, confirmationVars, audit, historyVars>>

CheckAlias(r) ==
  /\ execute[r].at = "check_alias"
  /\ Goto(r, IF TakenByAnother(TheChange(r)) THEN "invalidate" ELSE "write_alias")
  /\ UNCHANGED <<accountVars, confirmationVars, audit, historyVars>>

\* Another transaction has written the row and has not ended.
LockedByAnother(a, r) == \E q \in Executes \ {r} : a \in execute[q].cleared

\* set_account_alias: the session writes a row only when the object differs
\* from what it loaded.
WriteAlias(r) ==
  LET f == TheChange(r) IN
  /\ execute[r].at = "write_alias"
  /\ ~LockedByAnother(f.account, r)
  /\ alias' = IF execute[r].had = f.alias THEN alias
              ELSE [alias EXCEPT ![f.account] = f.alias]
  /\ changes' = [changes EXCEPT ![execute[r].confirmation] = @ + 1]
  /\ Goto(r, "mark")
  /\ UNCHANGED <<active, isDefault, confirmationVars, audit, calls, crashes>>

FindDefault_None(r) ==
  /\ execute[r].at = "find_default"
  /\ Goto(r, "set_default")
  /\ UNCHANGED <<accountVars, confirmationVars, audit, historyVars>>

\* set_default_account: the UPDATE of the old default looks for its rows in the
\* snapshot of the moment it starts ...
FindDefault(r) ==
  /\ execute[r].at = "find_default"
  /\ execute' = [execute EXCEPT ![r].found = isDefault, ![r].at = "clear_default"]
  /\ UNCHANGED <<accountVars, confirmationVars, audit, historyVars>>

ClearDefault_Committed(r) ==
  /\ execute[r].at = "clear_default"
  /\ \A a \in execute[r].found : ~LockedByAnother(a, r)
  /\ isDefault' = isDefault \ execute[r].found
  /\ Goto(r, "set_default")
  /\ UNCHANGED <<active, alias, confirmationVars, audit, historyVars>>

\* ... waits for other writers of these rows, and writes those that still are
\* default then. A row that became default meanwhile is not among them.
ClearDefault(r) ==
  /\ execute[r].at = "clear_default"
  /\ \A a \in execute[r].found : ~LockedByAnother(a, r)
  /\ execute' = [execute EXCEPT ![r].cleared = execute[r].found \cap isDefault,
                                ![r].found = {}, ![r].at = "set_default"]
  /\ UNCHANGED <<accountVars, confirmationVars, audit, historyVars>>

\* The UPDATE of the new default, and the commit of both. Nothing in the schema
\* refuses a second default account: migration b2c3d4e5f6a7 creates the index
\* ux_accounts_user_default and its successor dbe684a809de drops it.
SetDefault(r) ==
  LET a == TheChange(r).account IN
  /\ execute[r].at = "set_default"
  /\ ~LockedByAnother(a, r)
  /\ isDefault' = (isDefault \ execute[r].cleared) \cup {a}
  /\ execute' = [execute EXCEPT ![r].cleared = {}, ![r].at = "mark"]
  /\ changes' = [changes EXCEPT ![execute[r].confirmation] = @ + 1]
  /\ UNCHANGED <<active, alias, confirmationVars, audit, calls, crashes>>

MarkExecuted_Unconditionally(r) ==
  /\ execute[r].at = "mark"
  /\ status' = [status EXCEPT ![execute[r].confirmation] = "EXECUTED"]
  /\ Goto(r, "record_audit")
  /\ UNCHANGED <<accountVars, fixed, approvedAt, overdue, audit, historyVars>>

\* mark_executed_if_approved; the loser answers completed and leaves no event.
MarkExecuted(r) ==
  LET c == execute[r].confirmation IN
  /\ execute[r].at = "mark"
  /\ IF status[c] = "APPROVED"
     THEN status' = [status EXCEPT ![c] = "EXECUTED"] /\ Goto(r, "record_audit")
     ELSE UNCHANGED status /\ execute' = [execute EXCEPT ![r] = Idle]
  /\ UNCHANGED <<accountVars, fixed, approvedAt, overdue, audit, historyVars>>

RecordAudit(r) ==
  /\ execute[r].at = "record_audit"
  /\ audit' = [audit EXCEPT ![execute[r].confirmation] = @ + 1]
  /\ execute' = [execute EXCEPT ![r] = Idle]
  /\ UNCHANGED <<accountVars, confirmationVars, historyVars>>

\* invalidate writes the row as it is, even over EXECUTED; the answer is
\* correction_required.
Invalidate(r) ==
  /\ execute[r].at = "invalidate"
  /\ status' = [status EXCEPT ![execute[r].confirmation] = "INVALIDATED"]
  /\ execute' = [execute EXCEPT ![r] = Idle]
  /\ UNCHANGED <<accountVars, fixed, approvedAt, overdue, audit, historyVars>>

\* The handler raises, its transaction is chosen to end a deadlock, or its
\* process dies: what is not committed is rolled back.
ExecuteFails(r) ==
  /\ execute[r].at # "idle"
  /\ execute' = [execute EXCEPT ![r] = Idle]
  /\ crashes' = IF execute[r].at = "mark"
                THEN [crashes EXCEPT ![execute[r].confirmation] = @ + 1] ELSE crashes
  /\ UNCHANGED <<accountVars, confirmationVars, audit, calls, changes>>

ExecuteNext(r) ==
  \/ \E c \in Confirmations : Begin(r, c)
  \/ LoadConfirmation(r) \/ ReadAccount(r) \/ CheckAlias(r) \/ WriteAlias(r)
  \/ FindDefault(r) \/ ClearDefault(r) \/ SetDefault(r)
  \/ MarkExecuted(r) \/ RecordAudit(r) \/ Invalidate(r)
  \/ ExecuteFails(r)

Next ==
  \/ \E c \in Confirmations, f \in Change : Prepare(c, f)
  \/ \E c \in Confirmations, approved \in BOOLEAN : Decide(c, approved)
  \/ \E c \in Confirmations : ConfirmationExpires(c)
  \/ \E a \in Accounts : Deactivate(a)
  \/ \E r \in Executes : ExecuteNext(r)

Spec == Init /\ [][Next]_vars

-----------------------------------------------------------------------------
(* Properties that hold *)

\* set_default_account clears and sets in one transaction: a user who has a
\* default account is never without one, whoever dies where.
DefaultKept == [][isDefault # {} => isDefault' # {}]_vars

\* Only handlers that ran together leave several default accounts: there are
\* never more of them than handlers, and one that runs alone leaves one.
DefaultsFromRacersOnly ==
  Cardinality(isDefault) <= IF Executes = {} THEN 1 ELSE Cardinality(Executes)

\* Execute asks again whether another account has the name: accounts share a
\* name only through handlers that asked together.
NamesSharedByRacersOnly ==
  \A n \in Aliases :
    Cardinality({a \in Accounts : alias[a] = n}) <= Cardinality(Executes)

\* A setting is what it was, or what the user approved for this very account.
ChangedAsApproved ==
  /\ \A a \in isDefault \ InitialDefault :
       \E c \in approvedAt : fixed[c] = [account |-> a, alias |-> None]
  /\ \A a \in Accounts : alias[a] # None =>
       \E c \in approvedAt : fixed[c] = [account |-> a, alias |-> alias[a]]

\* A change is applied again only by a handler that ran beside the first or
\* after one that died before it marked the confirmation.
ReappliedOnlyAfterCrash ==
  \A c \in Confirmations : changes[c] <= Cardinality(Executes) + crashes[c]

\* A confirmation leaves at most one completion event, and only if its change
\* was committed.
AuditedOnceWhenChanged ==
  \A c \in Confirmations :
    /\ audit[c] <= 1
    /\ audit[c] = 1 \/ status[c] = "EXECUTED" => changes[c] > 0

-----------------------------------------------------------------------------
(* What the repository says and the code does not do *)

\* account_repository and models/account: a user never has two default
\* accounts.
AtMostOneDefault == Cardinality(isDefault) <= 1
=============================================================================
