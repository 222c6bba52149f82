-------------------------- MODULE SettingChangeProofs --------------------------
(***************************************************************************)
(* For any number of accounts, names, confirmations and handlers: what     *)
(* becomes of a user's settings was approved, a confirmation is applied    *)
(* and reported no more often than races and crashes explain, and no race  *)
(* leaves more defaults, or more accounts of one name, than handlers.      *)
(*                                                                         *)
(* The last three are arguments that count. A handler which has looked     *)
(* but not written yet still has its one write to make; what it has not    *)
(* seen was written by others meanwhile. So each invariant bounds what a   *)
(* set of such handlers leaves alone by the number of the others.          *)
(***************************************************************************)
EXTENDS SettingChange, FiniteSetTheorems, TLAPS

Statuses == {"absent", "PENDING", "APPROVED", "EXECUTED", "INVALIDATED"}

\* Every column and every handler keeps its type.
TypeOK ==
  /\ active \subseteq Accounts /\ isDefault \subseteq Accounts
  /\ alias \in [Accounts -> Aliases \cup {None}]
  /\ status \in [Confirmations -> Statuses]
  /\ fixed \in [Confirmations -> Change \cup {NoChange}]
  /\ approvedAt \subseteq Confirmations /\ overdue \subseteq Confirmations
  /\ execute \in [Executes -> {Idle} \cup Running]
  /\ audit \in [Confirmations -> Nat]
  /\ changes \in [Confirmations -> Nat] /\ crashes \in [Confirmations -> Nat]

DefaultPoints == {"find_default", "clear_default", "set_default"}

AliasPoints == {"check_alias", "write_alias"}

\* A confirmation that exists has its change, and a handler beyond the load
\* works at an approved one, on the path of its kind.
Approvals ==
  /\ \A c \in Confirmations :
       /\ status[c] # "absent" => fixed[c] \in Change
       /\ status[c] = "APPROVED" => c \in approvedAt
       /\ c \in approvedAt => status[c] \in {"APPROVED", "EXECUTED", "INVALIDATED"}
  /\ \A r \in Executes :
       /\ execute[r].at \notin {"idle", "load"} => execute[r].confirmation \in approvedAt
       /\ execute[r].at \in DefaultPoints => IsDefaultChange(TheChange(r))
       /\ execute[r].at \in AliasPoints => ~IsDefaultChange(TheChange(r))

Closed(c) == status[c] \in {"EXECUTED", "INVALIDATED"}

\* A confirmation is marked once; the handler that marked it reports it, and
\* before it does nothing is reported.
Audits ==
  /\ AuditedOnceWhenChanged
  /\ \A c \in Confirmations : audit[c] > 0 => Closed(c)
  /\ \A r \in Executes :
       /\ execute[r].at \in {"mark", "record_audit"} => changes[execute[r].confirmation] > 0
       /\ execute[r].at = "record_audit" =>
            Closed(execute[r].confirmation) /\ audit[execute[r].confirmation] = 0
  /\ \A q, r \in Executes :
       /\ execute[q].at = "record_audit" /\ execute[r].at = "record_audit"
       /\ execute[q].confirmation = execute[r].confirmation
       => q = r

\* The handlers that have applied a confirmation and not marked it, and those
\* that have loaded it and may still apply it.
Marking(c) == {r \in Executes : execute[r].at = "mark" /\ execute[r].confirmation = c}

Applying(c) ==
  {r \in Executes : /\ execute[r].at \in {"read_account"} \cup DefaultPoints \cup AliasPoints
                    /\ execute[r].confirmation = c}

\* As long as a confirmation is open, each change that did not end in a crash
\* has its handler at the mark. Later, each has a handler that will not apply
\* it again.
ChangesCounted ==
  \A c \in Confirmations :
    /\ ~Closed(c) => changes[c] <= crashes[c] + Cardinality(Marking(c))
    /\ changes[c] <= crashes[c] + Cardinality(Executes \ Applying(c))

\* The handlers in the transaction of a default change, and the accounts that
\* one of them will leave without the default.
Changing == {r \in Executes : execute[r].at \in {"clear_default", "set_default"}}

Clears(r) == IF execute[r].at = "clear_default" THEN execute[r].found ELSE execute[r].cleared

MostDefaults == IF Executes = {} THEN 1 ELSE Cardinality(Executes)

DefaultsCounted ==
  \A Q \in SUBSET Changing :
    Cardinality(isDefault \ UNION {Clears(r) : r \in Q}) + Cardinality(Q) <= MostDefaults

\* The handlers that have found name n free and will write it.
Naming(n) == {r \in Executes : execute[r].at = "write_alias" /\ TheChange(r).alias = n}

Holders(n) == {a \in Accounts : alias[a] = n}

NamesCounted ==
  \A n \in Aliases : \A Q \in SUBSET Naming(n) :
    Cardinality(Holders(n) \ {TheChange(r).account : r \in Q}) + Cardinality(Q)
      <= Cardinality(Executes)

\* The inductive invariant.
Inv ==
  /\ TypeOK /\ Approvals /\ ChangedAsApproved /\ Audits
  /\ ChangesCounted /\ DefaultsCounted /\ NamesCounted

-----------------------------------------------------------------------------
(* Counting *)

\* A set inside a finite one with at most one more element.
LEMMA OneMore ==
  ASSUME NEW S, IsFiniteSet(S), NEW x, NEW T, T \subseteq S \cup {x}
  PROVE  /\ IsFiniteSet(T) /\ Cardinality(T) \in Nat /\ Cardinality(S) \in Nat
         /\ Cardinality(T) <= Cardinality(S) + 1
<1>1. IsFiniteSet(S \cup {x}) /\ Cardinality(S \cup {x}) <= Cardinality(S) + 1
      /\ Cardinality(S) \in Nat
  BY FS_AddElement, FS_CardinalityType
<1> QED
  BY <1>1, FS_Subset, FS_CardinalityType

\* Of a set that gains an element.
LEMMA OneMoreElement ==
  ASSUME NEW S, IsFiniteSet(S), NEW x, x \notin S
  PROVE  /\ IsFiniteSet(S \cup {x}) /\ Cardinality(S) \in Nat
         /\ Cardinality(S \cup {x}) = Cardinality(S) + 1
BY FS_AddElement, FS_CardinalityType

LEMMA Smaller ==
  ASSUME NEW S, IsFiniteSet(S), NEW T, T \subseteq S
  PROVE  /\ IsFiniteSet(T) /\ Cardinality(T) \in Nat /\ Cardinality(S) \in Nat
         /\ Cardinality(T) <= Cardinality(S)
BY FS_Subset, FS_CardinalityType

\* Sets of handlers and accounts are finite.
LEMMA Finite ==
  /\ \A S \in SUBSET Executes : IsFiniteSet(S) /\ Cardinality(S) \in Nat
                                /\ Cardinality(S) <= Cardinality(Executes)
  /\ \A S \in SUBSET Accounts : IsFiniteSet(S) /\ Cardinality(S) \in Nat
BY ConstantsAssumption, Smaller

LEMMA MostDefaultsType ==
  /\ MostDefaults \in Nat
  /\ \A S \in SUBSET Executes : Cardinality(S) <= MostDefaults
<1>1. IsFiniteSet(Executes) /\ Cardinality(Executes) \in Nat
  BY ConstantsAssumption, FS_CardinalityType
<1>2. MostDefaults \in Nat /\ Cardinality(Executes) <= MostDefaults
  BY <1>1, FS_EmptySet DEF MostDefaults
<1> QED
  BY <1>1, <1>2, Finite

-----------------------------------------------------------------------------
(* Types *)

LEMMA HandlerFields ==
  ASSUME TypeOK, NEW r \in Executes
  PROVE  /\ execute[r].at = "idle" <=> execute[r] = Idle
         /\ execute[r].at # "idle" =>
              /\ execute[r] \in Running /\ execute[r].at \in Point
              /\ execute[r].confirmation \in Confirmations
              /\ execute[r].found \in SUBSET Accounts /\ execute[r].cleared \in SUBSET Accounts
              /\ fixed[execute[r].confirmation] \in Change \cup {NoChange}
<1>1. execute[r] \in {Idle} \cup Running
  BY DEF TypeOK
<1> QED
  BY <1>1 DEF TypeOK, Idle, Running, Point

LEMMA ChangeFields ==
  ASSUME NEW f \in Change
  PROVE  /\ f.account \in Accounts /\ f.alias \in Aliases \cup {None}
         /\ f = [account |-> f.account, alias |-> f.alias]
BY DEF Change

\* The change of a handler beyond the load.
LEMMA ApprovedChange ==
  ASSUME TypeOK, Approvals, NEW r \in Executes, execute[r].at \notin {"idle", "load"}
  PROVE  /\ execute[r].confirmation \in Confirmations /\ execute[r].confirmation \in approvedAt
         /\ TheChange(r) \in Change
         /\ TheChange(r).account \in Accounts /\ TheChange(r).alias \in Aliases \cup {None}
         /\ TheChange(r) = [account |-> TheChange(r).account, alias |-> TheChange(r).alias]
BY HandlerFields, ChangeFields DEF Approvals, TheChange

LEMMA InitInv == Init => Inv
<1> SUFFICES ASSUME Init
             PROVE  Inv
  OBVIOUS
<1>1. TypeOK
  BY ConstantsAssumption DEF Init, TypeOK, Statuses
<1>2. \A r \in Executes : execute[r].at = "idle"
  BY DEF Init, Idle
<1>3. Approvals /\ ChangedAsApproved /\ Audits
  BY <1>2, ConstantsAssumption
  DEF Init, Approvals, ChangedAsApproved, Audits, AuditedOnceWhenChanged, Closed,
      DefaultPoints, AliasPoints
<1>4. ChangesCounted
  <2> SUFFICES ASSUME NEW c \in Confirmations
               PROVE  0 <= 0 + Cardinality(Marking(c)) /\ 0 <= 0 + Cardinality(Executes \ Applying(c))
    BY DEF ChangesCounted, Init
  <2>1. Cardinality(Marking(c)) \in Nat
    BY Finite DEF Marking
  <2>2. Cardinality(Executes \ Applying(c)) \in Nat
    BY Finite
  <2> QED
    BY <2>1, <2>2
<1>5. DefaultsCounted
  <2> SUFFICES ASSUME NEW Q \in SUBSET Changing
               PROVE  Cardinality(isDefault \ UNION {Clears(r) : r \in Q}) + Cardinality(Q)
                        <= MostDefaults
    BY DEF DefaultsCounted
  <2>1. Q = {} /\ isDefault \ UNION {Clears(r) : r \in Q} = InitialDefault
    BY <1>2 DEF Changing, Init
  <2>2. Cardinality(InitialDefault) <= 1 /\ Cardinality(InitialDefault) \in Nat
    BY ConstantsAssumption, Finite
  <2>3. 1 <= MostDefaults
    <3>1. CASE Executes = {}
      BY <3>1 DEF MostDefaults
    <3>2. CASE Executes # {}
      <4>1. Cardinality(Executes) \in Nat /\ Cardinality(Executes) # 0
        BY <3>2, ConstantsAssumption, FS_EmptySet, FS_CardinalityType
      <4> QED
        BY <3>2, <4>1 DEF MostDefaults
    <3> QED
      BY <3>1, <3>2
  <2> QED
    BY <2>1, <2>2, <2>3, FS_EmptySet, MostDefaultsType
<1>6. NamesCounted
  <2> SUFFICES ASSUME NEW n \in Aliases, NEW Q \in SUBSET Naming(n)
               PROVE  Cardinality(Holders(n) \ {TheChange(r).account : r \in Q}) + Cardinality(Q)
                        <= Cardinality(Executes)
    BY DEF NamesCounted
  <2>1. Q = {} /\ Holders(n) = {}
    BY <1>2, ConstantsAssumption DEF Naming, Holders, Init
  <2> QED
    BY <2>1, FS_EmptySet, Finite
<1> QED
  BY <1>1, <1>3, <1>4, <1>5, <1>6 DEF Inv

-----------------------------------------------------------------------------
(* The shape of a step *)

\* What the user, the clock and the operators do.
Outside ==
  \/ \E c \in Confirmations, f \in Change : Prepare(c, f)
  \/ \E c \in Confirmations, approved \in BOOLEAN : Decide(c, approved)
  \/ \E c \in Confirmations : ConfirmationExpires(c)
  \/ \E a \in Accounts : Deactivate(a)

LEMMA OutsideFrame ==
  Outside => UNCHANGED <<isDefault, alias, execute, audit, changes, crashes>>
BY DEF Outside, Prepare, Decide, ConfirmationExpires, Deactivate, accountVars, historyVars

\* A handler that moves on to a point.
LEMMA GotoTyped ==
  ASSUME TypeOK, NEW r \in Executes, execute[r].at # "idle", NEW point \in Point, Goto(r, point)
  PROVE  /\ execute' \in [Executes -> {Idle} \cup Running]
         /\ \A q \in Executes \ {r} : execute'[q] = execute[q]
         /\ execute'[r] = [execute[r] EXCEPT !.at = point] /\ execute'[r].at = point
         /\ execute'[r].confirmation = execute[r].confirmation
         /\ execute'[r].cleared = execute[r].cleared /\ execute'[r].found = execute[r].found
BY HandlerFields DEF Goto, TypeOK, Running

\* A handler that has answered or died.
LEMMA IdleTyped ==
  ASSUME TypeOK, NEW r \in Executes, execute' = [execute EXCEPT ![r] = Idle]
  PROVE  /\ execute' \in [Executes -> {Idle} \cup Running]
         /\ \A q \in Executes \ {r} : execute'[q] = execute[q]
         /\ execute'[r] = Idle /\ execute'[r].at = "idle"
BY DEF TypeOK, Idle

\* The points a handler may move to.
Follows(from, to) ==
  \/ from = "idle" /\ to = "load"
  \/ from = "load" /\ to = "read_account"
  \/ from = "read_account" /\ to \in {"invalidate", "find_default", "check_alias"}
  \/ from = "check_alias" /\ to \in {"invalidate", "write_alias"}
  \/ from = "write_alias" /\ to = "mark"
  \/ from = "find_default" /\ to = "clear_default"
  \/ from = "clear_default" /\ to = "set_default"
  \/ from = "set_default" /\ to = "mark"
  \/ from = "mark" /\ to = "record_audit"
  \/ from # "idle" /\ to = "idle"

\* A handler takes the next point of its path, for the confirmation it has, or
\* ends; the others and what was approved stay.
HandlerMoves(r) ==
  /\ UNCHANGED <<active, fixed, approvedAt, overdue>>
  /\ execute' \in [Executes -> {Idle} \cup Running]
  /\ \A q \in Executes \ {r} : execute'[q] = execute[q]
  /\ Follows(execute[r].at, execute'[r].at)
  /\ execute[r].at # "idle" /\ execute'[r].at # "idle" =>
       execute'[r].confirmation = execute[r].confirmation

LEMMA HandlerStep ==
  ASSUME TypeOK, Approvals, NEW r \in Executes, ExecuteNext(r)
  PROVE  HandlerMoves(r)
<1> USE DEF accountVars, confirmationVars, historyVars, Follows, HandlerMoves
<1>1. ASSUME NEW c \in Confirmations, Begin(r, c) PROVE HandlerMoves(r)
  <2>1. [Idle EXCEPT !.at = "load", !.confirmation = c] \in Running
    BY DEF Idle, Running, Point
  <2> QED
    BY <1>1, <2>1 DEF Begin, TypeOK, Idle
<1>2. CASE LoadConfirmation(r)
  BY <1>2, GotoTyped DEF LoadConfirmation, Point
<1>3. CASE ReadAccount(r)
  <2> DEFINE f == TheChange(r)
             to == IF f.account \notin active THEN "invalidate"
                   ELSE IF IsDefaultChange(f) THEN "find_default" ELSE "check_alias"
             now == [execute[r] EXCEPT !.had = alias[f.account], !.at = to]
  <2>1. execute[r] \in Running /\ execute \in [Executes -> {Idle} \cup Running]
        /\ execute[r].at = "read_account"
    BY <1>3, HandlerFields DEF ReadAccount, TypeOK
  <2>2. alias[f.account] \in Aliases \cup {None} /\ to \in Point
    BY <2>1, ApprovedChange DEF TypeOK, Point
  <2>3. execute' = [execute EXCEPT ![r] = now]
    BY <1>3, <2>1 DEF ReadAccount, Running
  <2>4. to \in {"invalidate", "find_default", "check_alias"}
    OBVIOUS
  <2> HIDE DEF to, f
  <2>5. now \in Running /\ now.at = to /\ now.confirmation = execute[r].confirmation
    BY <2>1, <2>2 DEF Running
  <2> QED
    BY <1>3, <2>1, <2>3, <2>4, <2>5 DEF ReadAccount
<1>4. CASE CheckAlias(r)
  BY <1>4, GotoTyped DEF CheckAlias, Point
<1>5. CASE WriteAlias(r)
  BY <1>5, GotoTyped DEF WriteAlias, Point
<1>6. CASE FindDefault(r) \/ ClearDefault(r) \/ SetDefault(r)
  <2>1. execute[r] \in Running /\ execute \in [Executes -> {Idle} \cup Running]
    BY <1>6, HandlerFields DEF FindDefault, ClearDefault, SetDefault, TypeOK
  <2>2. isDefault \in SUBSET Accounts /\ {} \in SUBSET Accounts
        /\ execute[r].found \cap isDefault \in SUBSET Accounts
    BY DEF TypeOK
  <2>3. CASE FindDefault(r)
    BY <2>1, <2>2, <2>3 DEF FindDefault, Running, Point
  <2>4. CASE ClearDefault(r)
    BY <2>1, <2>2, <2>4 DEF ClearDefault, Running, Point
  <2>5. CASE SetDefault(r)
    BY <2>1, <2>2, <2>5 DEF SetDefault, Running, Point
  <2> QED
    BY <1>6, <2>3, <2>4, <2>5
<1>7. CASE MarkExecuted(r)
  BY <1>7, GotoTyped, IdleTyped DEF MarkExecuted, Point
<1>8. CASE RecordAudit(r) \/ Invalidate(r) \/ ExecuteFails(r)
  BY <1>8, IdleTyped DEF RecordAudit, Invalidate, ExecuteFails
<1> QED
  BY <1>1, <1>2, <1>3, <1>4, <1>5, <1>6, <1>7, <1>8 DEF ExecuteNext

-----------------------------------------------------------------------------
(* Types and approvals *)

LEMMA OutsideTyped == ASSUME TypeOK, Outside PROVE TypeOK'
<1>1. ASSUME NEW c \in Confirmations, NEW f \in Change, Prepare(c, f) PROVE TypeOK'
  BY <1>1 DEF Prepare, TypeOK, Statuses, accountVars, historyVars
<1>2. ASSUME NEW c \in Confirmations, NEW approved \in BOOLEAN, Decide(c, approved) PROVE TypeOK'
  BY <1>2 DEF Decide, TypeOK, Statuses, accountVars, historyVars
<1>3. ASSUME NEW c \in Confirmations, ConfirmationExpires(c) PROVE TypeOK'
  BY <1>3 DEF ConfirmationExpires, TypeOK, accountVars, historyVars
<1>4. ASSUME NEW a \in Accounts, Deactivate(a) PROVE TypeOK'
  BY <1>4 DEF Deactivate, TypeOK, confirmationVars, historyVars
<1> QED
  BY <1>1, <1>2, <1>3, <1>4 DEF Outside

LEMMA HandlerTyped ==
  ASSUME TypeOK, Approvals, NEW r \in Executes, ExecuteNext(r)
  PROVE  TypeOK'
<1> USE DEF accountVars, confirmationVars, historyVars
<1>1. HandlerMoves(r)
  BY HandlerStep
<1>2. execute' \in [Executes -> {Idle} \cup Running] /\ UNCHANGED <<active, fixed, approvedAt, overdue>>
  BY <1>1 DEF HandlerMoves
<1>3. execute[r].at # "idle" => execute[r].confirmation \in Confirmations
  BY HandlerFields
<1>4. CASE \/ \E c \in Confirmations : Begin(r, c)
           \/ LoadConfirmation(r) \/ ReadAccount(r) \/ CheckAlias(r)
           \/ FindDefault(r) \/ ClearDefault(r)
  BY <1>2, <1>4 DEF Begin, LoadConfirmation, ReadAccount, CheckAlias, FindDefault, ClearDefault, TypeOK
<1>5. CASE WriteAlias(r)
  BY <1>2, <1>3, <1>5, ApprovedChange DEF WriteAlias, TypeOK
<1>6. CASE SetDefault(r)
  <2>1. TheChange(r).account \in Accounts /\ execute[r].confirmation \in Confirmations
    BY <1>6, ApprovedChange DEF SetDefault
  <2>2. /\ isDefault' = (isDefault \ execute[r].cleared) \cup {TheChange(r).account}
        /\ changes' = [changes EXCEPT ![execute[r].confirmation] = @ + 1]
        /\ UNCHANGED <<alias, status, audit, crashes>>
    BY <1>6 DEF SetDefault
  <2>3. isDefault' \subseteq Accounts /\ changes' \in [Confirmations -> Nat]
    BY <2>1, <2>2 DEF TypeOK
  <2> QED
    BY <1>2, <2>2, <2>3 DEF TypeOK
<1>7. CASE MarkExecuted(r) \/ RecordAudit(r) \/ Invalidate(r) \/ ExecuteFails(r)
  <2>1. CASE MarkExecuted(r) \/ Invalidate(r)
    <3>1. status' \in [Confirmations -> Statuses]
      BY <2>1 DEF MarkExecuted, Invalidate, TypeOK, Statuses
    <3>2. UNCHANGED <<isDefault, alias, audit, changes, crashes>>
      BY <2>1 DEF MarkExecuted, Invalidate
    <3> QED
      BY <1>2, <3>1, <3>2 DEF TypeOK
  <2>2. CASE RecordAudit(r)
    BY <1>2, <1>3, <2>2 DEF RecordAudit, TypeOK
  <2>3. CASE ExecuteFails(r)
    <3>1. crashes' \in [Confirmations -> Nat]
      BY <1>3, <2>3 DEF ExecuteFails, TypeOK
    <3> QED
      BY <1>2, <2>3, <3>1 DEF ExecuteFails, TypeOK
  <2> QED
    BY <1>7, <2>1, <2>2, <2>3
<1> QED
  BY <1>4, <1>5, <1>6, <1>7 DEF ExecuteNext

\* The mark is set on an approved confirmation only.
LEMMA MarkedWhenApproved ==
  ASSUME Inv, NEW r \in Executes, ExecuteNext(r), execute'[r].at = "record_audit",
         execute[r].at = "mark"
  PROVE  /\ status[execute[r].confirmation] = "APPROVED"
         /\ status' = [status EXCEPT ![execute[r].confirmation] = "EXECUTED"]
<1>1. MarkExecuted(r)
  BY IdleTyped DEF ExecuteNext, Begin, LoadConfirmation, ReadAccount, CheckAlias,
     WriteAlias, FindDefault, ClearDefault, SetDefault, RecordAudit, Invalidate, ExecuteFails, Inv
<1> QED
  BY <1>1, IdleTyped DEF MarkExecuted, Inv

\* Only Invalidate and the mark write a status, and only when the handler was
\* past the load.
LEMMA StatusWritten ==
  ASSUME TypeOK, NEW r \in Executes, ExecuteNext(r)
  PROVE  \/ UNCHANGED status
         \/ /\ execute[r].at = "mark" /\ execute'[r].at = "record_audit"
            /\ status[execute[r].confirmation] = "APPROVED"
            /\ status' = [status EXCEPT ![execute[r].confirmation] = "EXECUTED"]
         \/ /\ execute[r].at = "invalidate" /\ execute'[r].at = "idle"
            /\ status' = [status EXCEPT ![execute[r].confirmation] = "INVALIDATED"]
<1> USE DEF confirmationVars
<1>1. CASE MarkExecuted(r)
  BY <1>1, GotoTyped DEF MarkExecuted, Point
<1>2. CASE Invalidate(r)
  BY <1>2, IdleTyped DEF Invalidate
<1> QED
  BY <1>1, <1>2 DEF ExecuteNext, Begin, LoadConfirmation, ReadAccount, CheckAlias, WriteAlias,
     FindDefault, ClearDefault, SetDefault, RecordAudit, ExecuteFails

LEMMA HandlerApprovals ==
  ASSUME TypeOK, TypeOK', Approvals, NEW r \in Executes, ExecuteNext(r)
  PROVE  Approvals'
<1>1. HandlerMoves(r)
  BY HandlerStep
<1>2. \A c \in Confirmations :
        /\ status'[c] # "absent" => fixed'[c] \in Change
        /\ status'[c] = "APPROVED" => c \in approvedAt'
        /\ c \in approvedAt' => status'[c] \in {"APPROVED", "EXECUTED", "INVALIDATED"}
  <2>1. \A c \in Confirmations :
          \/ status'[c] = status[c]
          \/ status[c] = "APPROVED" /\ status'[c] = "EXECUTED"
          \/ c \in approvedAt /\ status'[c] = "INVALIDATED"
    BY StatusWritten, ApprovedChange DEF TypeOK
  <2> QED
    BY <1>1, <2>1 DEF HandlerMoves, Approvals
<1>3. \A q \in Executes \ {r} :
        /\ execute'[q].at \notin {"idle", "load"} => execute'[q].confirmation \in approvedAt'
        /\ execute'[q].at \in DefaultPoints => IsDefaultChange(TheChange(q)')
        /\ execute'[q].at \in AliasPoints => ~IsDefaultChange(TheChange(q)')
  BY <1>1 DEF HandlerMoves, Approvals, TheChange
<1>4. /\ execute'[r].at \notin {"idle", "load"} => execute'[r].confirmation \in approvedAt'
      /\ execute'[r].at \in DefaultPoints => IsDefaultChange(TheChange(r)')
      /\ execute'[r].at \in AliasPoints => ~IsDefaultChange(TheChange(r)')
  <2>1. CASE execute[r].at \in {"idle", "load"}
    <3>1. execute'[r].at \in {"idle", "load"} \/ LoadConfirmation(r)
      <4>1. CASE ExecuteFails(r)
        BY <4>1, IdleTyped DEF ExecuteFails
      <4>2. CASE \E c \in Confirmations : Begin(r, c)
        BY <1>1, <4>2 DEF HandlerMoves, Follows, Begin
      <4> QED
        BY <2>1, <4>1, <4>2 DEF ExecuteNext, ReadAccount, CheckAlias, WriteAlias, FindDefault,
           ClearDefault, SetDefault, MarkExecuted, RecordAudit, Invalidate
    <3>2. CASE LoadConfirmation(r)
      BY <1>1, <3>2, GotoTyped, HandlerFields
      DEF LoadConfirmation, Point, HandlerMoves, Approvals, DefaultPoints, AliasPoints
    <3> QED
      BY <3>1, <3>2 DEF DefaultPoints, AliasPoints
  <2>2. CASE execute[r].at \notin {"idle", "load"} /\ execute'[r].at # "idle"
    <3>1. TheChange(r)' = TheChange(r) /\ execute'[r].confirmation \in approvedAt'
      BY <1>1, <2>2 DEF HandlerMoves, TheChange, Approvals
    <3>2. CASE ReadAccount(r)
      <4>1. execute'[r].at = "find_default" => IsDefaultChange(TheChange(r))
        BY <3>2 DEF ReadAccount, TypeOK
      <4>2. execute'[r].at = "check_alias" => ~IsDefaultChange(TheChange(r))
        BY <3>2 DEF ReadAccount, TypeOK
      <4>3. execute'[r].at \in {"invalidate", "find_default", "check_alias"}
        BY <1>1, <2>2, <3>2 DEF HandlerMoves, Follows, ReadAccount
      <4> QED
        BY <3>1, <4>1, <4>2, <4>3 DEF DefaultPoints, AliasPoints
    <3>3. CASE execute[r].at # "read_account"
      BY <1>1, <2>2, <3>1, <3>3 DEF HandlerMoves, Follows, Approvals, DefaultPoints, AliasPoints
    <3>4. execute[r].at = "read_account" => ReadAccount(r)
      BY <2>2, IdleTyped DEF ExecuteNext, Begin, LoadConfirmation, ReadAccount, CheckAlias, WriteAlias,
         FindDefault, ClearDefault, SetDefault, MarkExecuted, RecordAudit, Invalidate, ExecuteFails
    <3> QED
      BY <3>2, <3>3, <3>4
  <2>3. CASE execute'[r].at = "idle"
    BY <2>3 DEF DefaultPoints, AliasPoints
  <2> QED
    BY <2>1, <2>2, <2>3
<1>5. \A q \in Executes :
        /\ execute'[q].at \notin {"idle", "load"} => execute'[q].confirmation \in approvedAt'
        /\ execute'[q].at \in DefaultPoints => IsDefaultChange(TheChange(q)')
        /\ execute'[q].at \in AliasPoints => ~IsDefaultChange(TheChange(q)')
  BY <1>3, <1>4
<1> QED
  BY <1>2, <1>5 DEF Approvals, IsDefaultChange, TheChange

LEMMA OutsideApprovals ==
  ASSUME TypeOK, Approvals, Outside
  PROVE  Approvals'
<1>0. UNCHANGED execute
  BY OutsideFrame
<1>1. /\ \A c \in Confirmations : status[c] # "absent" => fixed'[c] = fixed[c]
      /\ \A c \in Confirmations :
           \/ status'[c] = status[c] /\ fixed'[c] = fixed[c]
           \/ status[c] = "absent" /\ status'[c] = "PENDING" /\ fixed'[c] \in Change
           \/ /\ status[c] = "PENDING" /\ status'[c] = "INVALIDATED" /\ fixed'[c] = fixed[c]
           \/ status[c] = "PENDING" /\ status'[c] = "APPROVED" /\ c \in approvedAt'
              /\ fixed'[c] = fixed[c]
      /\ approvedAt \subseteq approvedAt'
      /\ \A c \in approvedAt' \ approvedAt : status'[c] = "APPROVED"
  <2>1. ASSUME NEW c \in Confirmations, NEW f \in Change, Prepare(c, f)
        PROVE  /\ status[c] = "absent" /\ status' = [status EXCEPT ![c] = "PENDING"]
               /\ fixed' = [fixed EXCEPT ![c] = f] /\ UNCHANGED approvedAt
    BY <2>1 DEF Prepare
  <2>2. ASSUME NEW c \in Confirmations, NEW approved \in BOOLEAN, Decide(c, approved)
        PROVE  /\ status[c] = "PENDING" /\ UNCHANGED fixed
               /\ status' = [status EXCEPT ![c] = IF approved THEN "APPROVED" ELSE "INVALIDATED"]
               /\ approvedAt' = IF approved THEN approvedAt \cup {c} ELSE approvedAt
    BY <2>2 DEF Decide
  <2>3. ASSUME NEW c \in Confirmations, ConfirmationExpires(c)
        PROVE  UNCHANGED <<status, fixed, approvedAt>>
    BY <2>3 DEF ConfirmationExpires
  <2>4. ASSUME NEW a \in Accounts, Deactivate(a) PROVE UNCHANGED <<status, fixed, approvedAt>>
    BY <2>4 DEF Deactivate, confirmationVars
  <2>5. CASE \E c \in Confirmations, f \in Change : Prepare(c, f)
    BY <2>1, <2>5 DEF TypeOK
  <2>6. CASE \E c \in Confirmations, approved \in BOOLEAN : Decide(c, approved)
    BY <2>2, <2>6 DEF TypeOK
  <2> QED
    BY <2>3, <2>4, <2>5, <2>6 DEF Outside
<1>2. \A c \in Confirmations :
        /\ status'[c] # "absent" => fixed'[c] \in Change
        /\ status'[c] = "APPROVED" => c \in approvedAt'
        /\ c \in approvedAt' => status'[c] \in {"APPROVED", "EXECUTED", "INVALIDATED"}
  BY <1>1 DEF Approvals
<1>3. \A r \in Executes : execute[r].at \notin {"idle", "load"} => TheChange(r)' = TheChange(r)
  BY <1>0, <1>1, ApprovedChange DEF TheChange, Approvals
<1>4. \A r \in Executes :
        /\ execute[r].at \notin {"idle", "load"} => execute[r].confirmation \in approvedAt'
        /\ execute[r].at \in DefaultPoints => IsDefaultChange(TheChange(r)')
        /\ execute[r].at \in AliasPoints => ~IsDefaultChange(TheChange(r)')
  BY <1>1, <1>3 DEF Approvals, DefaultPoints, AliasPoints
<1> QED
  BY <1>0, <1>2, <1>4 DEF Approvals, IsDefaultChange, TheChange

-----------------------------------------------------------------------------
(* What a handler writes *)

LEMMA HandlerEffects ==
  ASSUME TypeOK, Approvals, NEW r \in Executes, ExecuteNext(r)
  PROVE  LET c == execute[r].confirmation
             f == TheChange(r)
         IN
         /\ changes' = IF execute'[r].at = "mark" THEN [changes EXCEPT ![c] = @ + 1] ELSE changes
         /\ \/ /\ UNCHANGED crashes
               /\ execute[r].at = "mark" /\ execute'[r].at = "idle" => status[c] # "APPROVED"
            \/ execute[r].at = "mark" /\ crashes' = [crashes EXCEPT ![c] = @ + 1]
         /\ \/ UNCHANGED audit
            \/ /\ execute[r].at = "record_audit" /\ execute'[r].at = "idle"
               /\ audit' = [audit EXCEPT ![c] = @ + 1]
         /\ \/ UNCHANGED isDefault /\ ~(execute[r].at = "set_default" /\ execute'[r].at = "mark")
            \/ /\ execute[r].at = "set_default" /\ execute'[r].at = "mark"
               /\ isDefault' = (isDefault \ execute[r].cleared) \cup {f.account}
         /\ \/ UNCHANGED alias
            \/ /\ execute[r].at = "write_alias" /\ execute'[r].at = "mark"
               /\ alias' = [alias EXCEPT ![f.account] = f.alias]
<1> USE DEF accountVars, confirmationVars, historyVars
<1>0. HandlerMoves(r)
  BY HandlerStep
<1>1. CASE WriteAlias(r)
  BY <1>1, GotoTyped DEF WriteAlias, Point
<1>2. CASE SetDefault(r)
  <2>1. /\ execute[r].at = "set_default" /\ execute[r] \in Running
        /\ execute' = [execute EXCEPT ![r].cleared = {}, ![r].at = "mark"]
    BY <1>2, HandlerFields DEF SetDefault
  <2>2. execute'[r].at = "mark"
    BY <2>1 DEF TypeOK, Running
  <2> QED
    BY <1>2, <2>1, <2>2 DEF SetDefault
<1>3. CASE MarkExecuted(r)
  BY <1>3, GotoTyped, IdleTyped DEF MarkExecuted, Point
<1>4. CASE RecordAudit(r) \/ Invalidate(r) \/ ExecuteFails(r)
  <2>1. execute'[r].at = "idle" /\ UNCHANGED <<isDefault, alias, changes>>
    BY <1>4, IdleTyped DEF RecordAudit, Invalidate, ExecuteFails
  <2> QED
    BY <1>4, <2>1 DEF RecordAudit, Invalidate, ExecuteFails
<1>5. CASE \/ \E c \in Confirmations : Begin(r, c)
           \/ LoadConfirmation(r) \/ ReadAccount(r) \/ CheckAlias(r)
           \/ FindDefault(r) \/ ClearDefault(r)
  <2>1. /\ UNCHANGED <<isDefault, alias, audit, changes, crashes>>
        /\ execute[r].at \in {"idle", "load", "read_account", "check_alias", "find_default",
                              "clear_default"}
    BY <1>5 DEF Begin, LoadConfirmation, ReadAccount, CheckAlias, FindDefault, ClearDefault
  <2> QED
    BY <1>0, <2>1 DEF HandlerMoves, Follows
<1> QED
  BY <1>1, <1>2, <1>3, <1>4, <1>5 DEF ExecuteNext

-----------------------------------------------------------------------------
(* Changed as approved *)

LEMMA HandlerChangesAsApproved ==
  ASSUME Inv, NEW r \in Executes, ExecuteNext(r)
  PROVE  ChangedAsApproved'
<1> DEFINE f == TheChange(r)
<1>1. UNCHANGED <<fixed, approvedAt>>
  BY HandlerStep DEF HandlerMoves, Inv
<1>2. \A a \in isDefault' : a \in isDefault \/
        (\E c \in approvedAt : fixed[c] = [account |-> a, alias |-> None])
  <2>1. CASE UNCHANGED isDefault
    BY <2>1
  <2>2. CASE /\ execute[r].at = "set_default"
             /\ isDefault' = (isDefault \ execute[r].cleared) \cup {f.account}
    <3>1. /\ f = [account |-> f.account, alias |-> None]
          /\ execute[r].confirmation \in approvedAt
      BY <2>2, ApprovedChange DEF Inv, Approvals, DefaultPoints, IsDefaultChange
    <3> QED
      BY <2>2, <3>1 DEF TheChange
  <2> QED
    BY <2>1, <2>2, HandlerEffects DEF Inv
<1>3. \A a \in Accounts : alias'[a] = alias[a] \/
        (\E c \in approvedAt : fixed[c] = [account |-> a, alias |-> alias'[a]])
  <2>1. CASE UNCHANGED alias
    BY <2>1
  <2>2. CASE execute[r].at = "write_alias" /\ alias' = [alias EXCEPT ![f.account] = f.alias]
    <3>1. f = [account |-> f.account, alias |-> f.alias] /\ execute[r].confirmation \in approvedAt
      BY <2>2, ApprovedChange DEF Inv
    <3> QED
      BY <2>2, <3>1 DEF TheChange, Inv, TypeOK
  <2> QED
    BY <2>1, <2>2, HandlerEffects DEF Inv
<1> QED
  BY <1>1, <1>2, <1>3 DEF Inv, ChangedAsApproved

LEMMA OutsideChangesAsApproved ==
  ASSUME Inv, Outside
  PROVE  ChangedAsApproved'
<1>1. UNCHANGED <<isDefault, alias>>
  BY OutsideFrame
<1>2. approvedAt \subseteq approvedAt' /\ \A c \in approvedAt : fixed'[c] = fixed[c]
  <2>1. \A c \in approvedAt : c \in Confirmations /\ status[c] # "absent"
    BY DEF Inv, TypeOK, Approvals
  <2>2. ASSUME NEW c \in Confirmations, NEW f \in Change, Prepare(c, f)
        PROVE  approvedAt \subseteq approvedAt' /\ \A d \in approvedAt : fixed'[d] = fixed[d]
    BY <2>1, <2>2 DEF Prepare, Inv, TypeOK
  <2> QED
    BY <2>2 DEF Outside, Decide, ConfirmationExpires, Deactivate, confirmationVars
<1> QED
  BY <1>1, <1>2 DEF Inv, ChangedAsApproved

-----------------------------------------------------------------------------
(* Reported once *)

\* Closed after the step.
ClosedNext(c) == status'[c] \in {"EXECUTED", "INVALIDATED"}

LEMMA StatusKept ==
  ASSUME Inv, Outside \/ \E r \in Executes : ExecuteNext(r)
  PROVE  \A c \in Confirmations : Closed(c) => ClosedNext(c)
<1>1. CASE Outside
  <2>1. \A c \in Confirmations : status'[c] = status[c] \/ status[c] \in {"absent", "PENDING"}
    BY <1>1 DEF Outside, Prepare, Decide, ConfirmationExpires, Deactivate, confirmationVars, Inv, TypeOK
  <2> QED
    BY <2>1 DEF Closed, ClosedNext
<1>2. ASSUME NEW r \in Executes, ExecuteNext(r)
      PROVE  \A c \in Confirmations : Closed(c) => ClosedNext(c)
  BY <1>2, StatusWritten DEF ClosedNext, Closed, Inv, TypeOK
<1> QED
  BY <1>1, <1>2

LEMMA OutsideAudits ==
  ASSUME Inv, Outside
  PROVE  Audits'
<1>1. UNCHANGED <<execute, audit, changes>>
  BY OutsideFrame
<1>2. \A c \in Confirmations : Closed(c) => ClosedNext(c)
  BY StatusKept
<1>3. \A c \in Confirmations : status'[c] = "EXECUTED" => status[c] = "EXECUTED"
  BY DEF Outside, Prepare, Decide, ConfirmationExpires, Deactivate, confirmationVars, Inv, TypeOK
<1>4. \A r \in Executes : execute[r].at = "record_audit" => execute[r].confirmation \in Confirmations
  BY HandlerFields DEF Inv
<1>5. AuditedOnceWhenChanged'
  BY <1>1, <1>3 DEF Inv, Audits, AuditedOnceWhenChanged
<1> QED
  BY <1>1, <1>2, <1>4, <1>5 DEF Inv, Audits, Closed, ClosedNext

LEMMA HandlerAudits ==
  ASSUME Inv, NEW r \in Executes, ExecuteNext(r)
  PROVE  Audits'
<1> DEFINE c == execute[r].confirmation
<1>1. HandlerMoves(r) /\ (execute[r].at # "idle" => c \in Confirmations)
  BY HandlerStep, HandlerFields DEF Inv
<1>2. /\ \A q \in Executes \ {r} : execute'[q] = execute[q]
      /\ Follows(execute[r].at, execute'[r].at)
      /\ execute'[r].at \in {"mark", "record_audit"} => execute'[r].confirmation = c
  BY <1>1 DEF HandlerMoves, Follows
<1>3. \A d \in Confirmations : Closed(d) => ClosedNext(d)
  BY StatusKept
<1>4. /\ \A d \in Confirmations :
           changes[d] \in Nat /\ changes'[d] \in Nat /\ changes'[d] >= changes[d]
      /\ execute'[r].at = "mark" => changes'[c] > 0
  BY <1>1, <1>2, HandlerEffects DEF Inv, TypeOK, Follows
<1>5. \A q \in Executes : execute[q].at \in {"mark", "record_audit"} =>
        /\ execute[q].confirmation \in Confirmations
        /\ changes[execute[q].confirmation] > 0 /\ changes'[execute[q].confirmation] > 0
  BY <1>4, HandlerFields DEF Inv, Audits
<1>6. CASE execute[r].at = "record_audit" /\ execute'[r].at = "idle"
           /\ audit' = [audit EXCEPT ![c] = @ + 1]
  <2>1. /\ audit[c] = 0 /\ ClosedNext(c) /\ changes'[c] > 0
        /\ \A q \in Executes \ {r} :
             execute[q].at = "record_audit" => execute[q].confirmation # c
    BY <1>1, <1>3, <1>5, <1>6 DEF Inv, Audits
  <2>2. audit'[c] = 1 /\ \A d \in Confirmations \ {c} : audit'[d] = audit[d]
    BY <1>1, <1>6, <2>1 DEF Inv, TypeOK
  <2>3. UNCHANGED status
    BY <1>6, StatusWritten DEF Inv
  <2>4. AuditedOnceWhenChanged'
    BY <1>4, <2>1, <2>2, <2>3 DEF Inv, Audits, AuditedOnceWhenChanged
  <2>5. \A d \in Confirmations : audit'[d] > 0 => ClosedNext(d)
    BY <1>3, <2>1, <2>2 DEF Inv, Audits
  <2>6. \A q \in Executes :
          /\ execute'[q].at \in {"mark", "record_audit"} => changes'[execute'[q].confirmation] > 0
          /\ execute'[q].at = "record_audit" =>
               ClosedNext(execute'[q].confirmation) /\ audit'[execute'[q].confirmation] = 0
    BY <1>2, <1>3, <1>5, <1>6, <2>1, <2>2 DEF Inv, Audits, Closed, ClosedNext
  <2>7. \A p, q \in Executes :
          /\ execute'[p].at = "record_audit" /\ execute'[q].at = "record_audit"
          /\ execute'[p].confirmation = execute'[q].confirmation
          => p = q
    BY <1>2, <1>6 DEF Inv, Audits
  <2> QED
    BY <2>4, <2>5, <2>6, <2>7 DEF Audits, Closed, ClosedNext
<1>7. CASE UNCHANGED audit
  <2>1. \A d \in Confirmations : status'[d] = "EXECUTED" => changes'[d] > 0
    <3>1. \A d \in Confirmations : status'[d] = "EXECUTED" =>
            status[d] = "EXECUTED" \/ (d = c /\ execute[r].at = "mark")
      BY StatusWritten DEF Inv, TypeOK
    <3> QED
      BY <1>4, <1>5, <3>1 DEF Inv, Audits, AuditedOnceWhenChanged
  <2>2. AuditedOnceWhenChanged'
    BY <1>4, <1>7, <2>1 DEF Inv, Audits, AuditedOnceWhenChanged
  <2>3. \A d \in Confirmations : audit'[d] > 0 => ClosedNext(d)
    BY <1>3, <1>7 DEF Inv, Audits
  <2>4. execute'[r].at = "record_audit" =>
          /\ execute[r].at = "mark" /\ status[c] = "APPROVED" /\ audit[c] = 0 /\ ClosedNext(c)
          /\ \A q \in Executes \ {r} :
               execute[q].at = "record_audit" => execute[q].confirmation # c
    <3> SUFFICES ASSUME execute'[r].at = "record_audit"
                 PROVE  /\ execute[r].at = "mark" /\ status[c] = "APPROVED" /\ audit[c] = 0
                        /\ ClosedNext(c)
                        /\ \A q \in Executes \ {r} :
                             execute[q].at = "record_audit" => execute[q].confirmation # c
      OBVIOUS
    <3>1. execute[r].at = "mark"
      BY <1>2 DEF Follows
    <3>3. status[c] = "APPROVED" /\ status' = [status EXCEPT ![c] = "EXECUTED"]
      BY <3>1, MarkedWhenApproved
    <3>4. audit[c] \in Nat /\ ~Closed(c) /\ ClosedNext(c)
      BY <1>1, <3>1, <3>3 DEF ClosedNext, Closed, Inv, TypeOK
    <3> QED
      BY <1>1, <3>1, <3>3, <3>4 DEF Inv, Audits
  <2>5. \A q \in Executes :
          /\ execute'[q].at \in {"mark", "record_audit"} => changes'[execute'[q].confirmation] > 0
          /\ execute'[q].at = "record_audit" =>
               ClosedNext(execute'[q].confirmation) /\ audit'[execute'[q].confirmation] = 0
    <3>1. ASSUME NEW q \in Executes \ {r}
          PROVE  /\ execute'[q].at \in {"mark", "record_audit"} => changes'[execute'[q].confirmation] > 0
                 /\ execute'[q].at = "record_audit" =>
                      ClosedNext(execute'[q].confirmation) /\ audit'[execute'[q].confirmation] = 0
      BY <1>2, <1>3, <1>5, <1>7 DEF Inv, Audits, Closed, ClosedNext
    <3>2. /\ execute'[r].at \in {"mark", "record_audit"} => changes'[execute'[r].confirmation] > 0
          /\ execute'[r].at = "record_audit" =>
               ClosedNext(execute'[r].confirmation) /\ audit'[execute'[r].confirmation] = 0
      <4>1. execute'[r].at = "mark" => changes'[c] > 0
        BY <1>4
      <4>2. execute'[r].at = "record_audit" => changes'[c] > 0 /\ ClosedNext(c) /\ audit'[c] = 0
        BY <1>5, <1>7, <2>4
      <4> QED
        BY <1>2, <4>1, <4>2
    <3> QED
      BY <3>1, <3>2
  <2>6. \A p, q \in Executes :
          /\ execute'[p].at = "record_audit" /\ execute'[q].at = "record_audit"
          /\ execute'[p].confirmation = execute'[q].confirmation
          => p = q
    BY <1>2, <2>4 DEF Inv, Audits
  <2> QED
    BY <2>2, <2>3, <2>5, <2>6 DEF Audits, Closed, ClosedNext
<1> QED
  BY <1>6, <1>7, HandlerEffects DEF Inv

-----------------------------------------------------------------------------
(* Applied as often as races and crashes explain *)

LEMMA HandlerSets ==
  ASSUME NEW c
  PROVE  /\ IsFiniteSet(Marking(c)) /\ Cardinality(Marking(c)) \in Nat
         /\ IsFiniteSet(Executes \ Applying(c)) /\ Cardinality(Executes \ Applying(c)) \in Nat
         /\ Marking(c) \subseteq Executes \ Applying(c)
<1>1. Marking(c) \in SUBSET Executes /\ Executes \ Applying(c) \in SUBSET Executes
  BY DEF Marking
<1>2. Marking(c) \subseteq Executes \ Applying(c)
  BY DEF Marking, Applying, DefaultPoints, AliasPoints
<1> QED
  BY <1>1, <1>2, Finite

LEMMA OutsideCounts ==
  ASSUME Inv, Outside
  PROVE  ChangesCounted'
<1>1. UNCHANGED <<execute, changes, crashes>>
  BY OutsideFrame
<1>2. \A c \in Confirmations : ~ClosedNext(c) => ~Closed(c)
  BY StatusKept
<1>3. \A c \in Confirmations : Marking(c)' = Marking(c) /\ Applying(c)' = Applying(c)
  BY <1>1 DEF Marking, Applying
<1> QED
  BY <1>1, <1>2, <1>3 DEF Inv, ChangesCounted, Closed, ClosedNext

LEMMA HandlerCounts ==
  ASSUME Inv, NEW r \in Executes, ExecuteNext(r)
  PROVE  ChangesCounted'
<1> SUFFICES ASSUME NEW c \in Confirmations
             PROVE  /\ ~ClosedNext(c) => changes'[c] <= crashes'[c] + Cardinality(Marking(c)')
                    /\ changes'[c] <= crashes'[c] + Cardinality(Executes \ Applying(c)')
  BY DEF ChangesCounted, Closed, ClosedNext
<1>1. /\ \A q \in Executes \ {r} : execute'[q] = execute[q]
      /\ Follows(execute[r].at, execute'[r].at)
      /\ execute[r].at # "idle" /\ execute'[r].at # "idle" =>
           execute'[r].confirmation = execute[r].confirmation
      /\ UNCHANGED approvedAt
  BY HandlerStep DEF HandlerMoves, Inv
<1>2. /\ ~Closed(c) => changes[c] <= crashes[c] + Cardinality(Marking(c))
      /\ changes[c] <= crashes[c] + Cardinality(Executes \ Applying(c))
      /\ changes[c] \in Nat /\ crashes[c] \in Nat
      /\ Closed(c) => ClosedNext(c)
  BY StatusKept DEF Inv, ChangesCounted, TypeOK
<1>3. /\ IsFiniteSet(Marking(c)) /\ Cardinality(Marking(c)) \in Nat
      /\ IsFiniteSet(Executes \ Applying(c)) /\ Cardinality(Executes \ Applying(c)) \in Nat
      /\ IsFiniteSet(Marking(c)') /\ Cardinality(Marking(c)') \in Nat
      /\ IsFiniteSet(Executes \ Applying(c)') /\ Cardinality(Executes \ Applying(c)') \in Nat
      /\ Marking(c)' \subseteq Executes \ Applying(c)'
  <2>1. /\ Marking(c)' \in SUBSET Executes /\ Executes \ Applying(c)' \in SUBSET Executes
        /\ Marking(c)' \subseteq Executes \ Applying(c)'
    BY DEF Marking, Applying, DefaultPoints, AliasPoints
  <2> QED
    BY <2>1, HandlerSets, Finite
<1>4. CASE execute[r].at = "idle" \/ execute[r].confirmation # c
  <2>1. execute[r].at = "idle" => execute'[r].at = "load"
    BY <1>1 DEF Follows
  <2>2. Marking(c)' = Marking(c) /\ Applying(c)' = Applying(c)
    BY <1>1, <1>4, <2>1 DEF Marking, Applying, DefaultPoints, AliasPoints
  <2>3. changes'[c] = changes[c] /\ crashes'[c] = crashes[c]
    BY <1>4, <2>1, HandlerEffects, HandlerFields DEF Inv, TypeOK
  <2> QED
    BY <1>2, <2>2, <2>3
<1>5. CASE execute[r].at # "idle" /\ execute[r].confirmation = c
  <2>1. CASE execute'[r].at = "mark"
    <3>1. execute[r].at \in {"write_alias", "set_default"} /\ execute'[r].confirmation = c
      BY <1>1, <1>5, <2>1 DEF Follows
    <3>2. changes'[c] = changes[c] + 1 /\ crashes'[c] = crashes[c]
      BY <1>5, <2>1, <3>1, HandlerEffects DEF Inv, TypeOK
    <3>3. Marking(c)' = Marking(c) \cup {r} /\ r \notin Marking(c)
      BY <1>1, <2>1, <3>1 DEF Marking
    <3>4. /\ Executes \ Applying(c)' = (Executes \ Applying(c)) \cup {r}
          /\ r \notin Executes \ Applying(c)
      BY <1>1, <1>5, <2>1, <3>1 DEF Applying, DefaultPoints, AliasPoints
    <3>5. /\ Cardinality(Marking(c)') = Cardinality(Marking(c)) + 1
          /\ Cardinality(Executes \ Applying(c)') = Cardinality(Executes \ Applying(c)) + 1
      BY <1>3, <3>3, <3>4, OneMoreElement
    <3> QED
      BY <1>2, <1>3, <3>2, <3>5
  <2>2. CASE execute[r].at = "mark"
    <3>1. Applying(c)' = Applying(c) /\ execute'[r].at \in {"idle", "record_audit"}
      BY <1>1, <2>2 DEF Applying, Follows, DefaultPoints, AliasPoints
    <3>2. changes'[c] = changes[c]
      BY <3>1, HandlerEffects DEF Inv
    <3>3. CASE crashes' = [crashes EXCEPT ![c] = @ + 1]
      <4>1. crashes'[c] = crashes[c] + 1
        BY <3>3 DEF Inv, TypeOK
      <4>2. Marking(c) = Marking(c)' \cup {r} /\ r \notin Marking(c)'
        BY <1>1, <1>5, <2>2, <3>1 DEF Marking
      <4>3. Cardinality(Marking(c)) = Cardinality(Marking(c)') + 1
        BY <1>3, <4>2, OneMoreElement
      <4> QED
        BY <1>2, <1>3, <3>1, <3>2, <4>1, <4>3
    <3>4. CASE UNCHANGED crashes
      <4>1. ClosedNext(c)
        <5>1. CASE execute'[r].at = "record_audit"
          BY <1>5, <2>2, <5>1, MarkedWhenApproved DEF ClosedNext, Inv, TypeOK
        <5>2. CASE execute'[r].at = "idle"
          <6>1. CASE status[c] # "APPROVED"
            <7>1. c \in approvedAt
              BY <1>5, <2>2 DEF Inv, Approvals
            <7>2. Closed(c)
              BY <6>1, <7>1 DEF Inv, Approvals, Closed
            <7> QED
              BY <1>2, <7>2
          <6>2. CASE crashes' = [crashes EXCEPT ![c] = @ + 1]
            BY <1>2, <3>4, <6>2 DEF Inv, TypeOK
          <6> QED
            BY <1>5, <2>2, <5>2, <6>1, <6>2, HandlerEffects DEF Inv
        <5> QED
          BY <3>1, <5>1, <5>2
      <4> QED
        BY <1>2, <3>1, <3>2, <3>4, <4>1
    <3> QED
      BY <1>5, <3>3, <3>4, HandlerEffects DEF Inv
  <2>3. CASE execute[r].at # "mark" /\ execute'[r].at # "mark"
    <3>1. changes' = changes /\ crashes' = crashes
      BY <2>3, HandlerEffects DEF Inv
    <3>2. Marking(c)' = Marking(c)
      BY <1>1, <2>3 DEF Marking
    <3>3. CASE execute'[r].at = "read_account"
      <4>1. LoadConfirmation(r)
        <5>1. execute[r].at = "load"
          BY <1>1, <3>3 DEF Follows
        <5> QED
          BY <3>3, <5>1, IdleTyped DEF ExecuteNext, Begin, ReadAccount, CheckAlias, WriteAlias,
             FindDefault, ClearDefault, SetDefault, MarkExecuted, RecordAudit, Invalidate,
             ExecuteFails, Inv
      <4>2. ~Closed(c)
        BY <1>5, <4>1 DEF LoadConfirmation, Closed
      <4>3. Cardinality(Marking(c)') <= Cardinality(Executes \ Applying(c)')
        BY <1>3, Smaller
      <4> QED
        BY <1>2, <1>3, <3>1, <3>2, <4>2, <4>3
    <3>4. CASE execute'[r].at # "read_account"
      <4>1. Executes \ Applying(c) \subseteq Executes \ Applying(c)'
        BY <1>1, <1>5, <3>4 DEF Applying, Follows, DefaultPoints, AliasPoints
      <4>2. Cardinality(Executes \ Applying(c)) <= Cardinality(Executes \ Applying(c)')
        BY <1>3, <4>1, Smaller
      <4> QED
        BY <1>2, <1>3, <3>1, <3>2, <4>2
    <3> QED
      BY <3>3, <3>4
  <2> QED
    BY <2>1, <2>2, <2>3
<1> QED
  BY <1>4, <1>5

-----------------------------------------------------------------------------
(* As many defaults as handlers *)

\* The same after the step.
ChangingNext == {r \in Executes : execute'[r].at \in {"clear_default", "set_default"}}

ClearsNext(r) ==
  IF execute'[r].at = "clear_default" THEN execute'[r].found ELSE execute'[r].cleared

\* A handler enters the transaction with all defaults found, keeps those that
\* still are default, and leaves it with one account set for those cleared.
LEMMA DefaultSteps ==
  ASSUME Inv, NEW r \in Executes, ExecuteNext(r)
  PROVE  /\ \A q \in Executes \ {r} : /\ ClearsNext(q) = Clears(q)
                                      /\ q \in ChangingNext <=> q \in Changing
         /\ \/ r \notin Changing /\ ClearsNext(r) = isDefault /\ UNCHANGED isDefault
            \/ /\ r \in Changing /\ UNCHANGED isDefault
               /\ isDefault \cap Clears(r) \subseteq ClearsNext(r)
            \/ /\ r \in Changing /\ r \notin ChangingNext
               /\ \E a \in Accounts : isDefault' = (isDefault \ Clears(r)) \cup {a}
            \/ r \notin ChangingNext /\ UNCHANGED isDefault
<1>1. HandlerMoves(r) /\ TypeOK /\ Approvals
  BY HandlerStep DEF Inv
<1>2. \A q \in Executes \ {r} : /\ ClearsNext(q) = Clears(q)
                                /\ q \in ChangingNext <=> q \in Changing
  BY <1>1 DEF HandlerMoves, ClearsNext, Clears, ChangingNext, Changing
<1>3. execute[r].at # "idle" => execute[r] \in Running /\ execute \in [Executes -> {Idle} \cup Running]
  BY <1>1, HandlerFields DEF TypeOK
<1>4. CASE FindDefault(r)
  <2>1. execute'[r].at = "clear_default" /\ execute'[r].found = isDefault
    BY <1>3, <1>4 DEF FindDefault, Running
  <2> QED
    BY <1>2, <1>4, <2>1 DEF FindDefault, accountVars, Changing, ClearsNext
<1>5. CASE ClearDefault(r)
  <2>1. execute'[r].at = "set_default" /\ execute'[r].cleared = execute[r].found \cap isDefault
    BY <1>3, <1>5 DEF ClearDefault, Running
  <2> QED
    BY <1>2, <1>5, <2>1 DEF ClearDefault, accountVars, Changing, Clears, ClearsNext
<1>6. CASE SetDefault(r)
  <2>1. execute'[r].at = "mark"
    BY <1>3, <1>6 DEF SetDefault, Running
  <2>2. TheChange(r).account \in Accounts
    BY <1>1, <1>6, ApprovedChange DEF SetDefault
  <2> QED
    BY <1>2, <1>6, <2>1, <2>2 DEF SetDefault, Changing, ChangingNext, Clears
<1>7. CASE ~(FindDefault(r) \/ ClearDefault(r) \/ SetDefault(r))
  <2>1. UNCHANGED isDefault
    BY <1>7 DEF ExecuteNext, Begin, LoadConfirmation, ReadAccount, CheckAlias, WriteAlias,
       MarkExecuted, RecordAudit, Invalidate, ExecuteFails, accountVars
  <2>2. r \notin ChangingNext
    <3>1. execute[r].at \in {"find_default", "clear_default"} => execute'[r].at = "idle"
      BY <1>1, <1>7, IdleTyped DEF ExecuteNext, Begin, LoadConfirmation, ReadAccount, CheckAlias, WriteAlias,
         MarkExecuted, RecordAudit, Invalidate, ExecuteFails
    <3> QED
      BY <1>1, <3>1 DEF HandlerMoves, Follows, ChangingNext
  <2> QED
    BY <1>2, <2>1, <2>2
<1> QED
  BY <1>4, <1>5, <1>6, <1>7

LEMMA OutsideDefaults ==
  ASSUME Inv, Outside
  PROVE  DefaultsCounted'
<1>1. UNCHANGED <<execute, isDefault>>
  BY OutsideFrame
<1>2. Changing' = Changing /\ \A r \in Executes : Clears(r)' = Clears(r)
  BY <1>1 DEF Changing, Clears
<1>3. \A Q \in SUBSET Changing :
        UNION {Clears(r)' : r \in Q} = UNION {Clears(r) : r \in Q}
  BY <1>2 DEF Changing
<1> QED
  BY <1>1, <1>2, <1>3 DEF Inv, DefaultsCounted

LEMMA HandlerDefaults ==
  ASSUME Inv, NEW r \in Executes, ExecuteNext(r)
  PROVE  DefaultsCounted'
<1> SUFFICES ASSUME NEW Q \in SUBSET ChangingNext
             PROVE  Cardinality(isDefault' \ UNION {ClearsNext(q) : q \in Q}) + Cardinality(Q)
                      <= MostDefaults
  BY DEF DefaultsCounted, Changing, ChangingNext, Clears, ClearsNext
<1> DEFINE left == isDefault' \ UNION {ClearsNext(q) : q \in Q}
<1>1. \A q \in Executes \ {r} : ClearsNext(q) = Clears(q) /\ (q \in ChangingNext <=> q \in Changing)
  BY DefaultSteps
<1>2. Q \in SUBSET Executes /\ isDefault \in SUBSET Accounts
  BY DEF ChangingNext, Inv, TypeOK
<1>3. IsFiniteSet(Q) /\ Cardinality(Q) \in Nat /\ Cardinality(Q) <= MostDefaults
  BY <1>2, Finite, MostDefaultsType
<1>4. \A P \in SUBSET Changing :
        LET was == isDefault \ UNION {Clears(q) : q \in P} IN
        /\ IsFiniteSet(was) /\ Cardinality(was) \in Nat /\ IsFiniteSet(P) /\ Cardinality(P) \in Nat
        /\ Cardinality(was) + Cardinality(P) <= MostDefaults
  <2> SUFFICES ASSUME NEW P \in SUBSET Changing
               PROVE  LET was == isDefault \ UNION {Clears(q) : q \in P} IN
                      /\ IsFiniteSet(was) /\ Cardinality(was) \in Nat
                      /\ IsFiniteSet(P) /\ Cardinality(P) \in Nat
                      /\ Cardinality(was) + Cardinality(P) <= MostDefaults
    OBVIOUS
  <2>1. isDefault \ UNION {Clears(q) : q \in P} \in SUBSET Accounts /\ P \in SUBSET Executes
    BY <1>2 DEF Changing
  <2> QED
    BY <2>1, Finite DEF Inv, DefaultsCounted
<1>5. CASE ClearsNext(r) = isDefault /\ UNCHANGED isDefault /\ r \in Q
  <2>1. left = {}
    BY <1>5
  <2> QED
    BY <1>3, <2>1, FS_EmptySet, MostDefaultsType
<1>6. CASE r \notin Q /\ UNCHANGED isDefault
  <2>1. Q \subseteq Changing /\ left = isDefault \ UNION {Clears(q) : q \in Q}
    BY <1>1, <1>2, <1>6
  <2> QED
    BY <1>4, <2>1
<1>7. CASE /\ r \in Changing /\ UNCHANGED isDefault
           /\ isDefault \cap Clears(r) \subseteq ClearsNext(r)
  <2>1. Q \subseteq Changing
    BY <1>1, <1>2, <1>7
  <2>2. left \subseteq isDefault \ UNION {Clears(q) : q \in Q}
    BY <1>1, <1>2, <1>7
  <2>0. IsFiniteSet(isDefault \ UNION {Clears(q) : q \in Q})
        /\ Cardinality(isDefault \ UNION {Clears(q) : q \in Q}) \in Nat
    BY <1>4, <2>1
  <2> HIDE DEF left
  <2>3. Cardinality(left) \in Nat
        /\ Cardinality(left) <= Cardinality(isDefault \ UNION {Clears(q) : q \in Q})
    BY <2>0, <2>2, Smaller
  <2>4. Cardinality(left) + Cardinality(Q) <= MostDefaults
    BY <1>3, <1>4, <2>0, <2>1, <2>3, MostDefaultsType
  <2> QED
    BY <2>4 DEF left
<1>8. ASSUME NEW a \in Accounts, r \in Changing, r \notin ChangingNext,
             isDefault' = (isDefault \ Clears(r)) \cup {a}
      PROVE  Cardinality(left) + Cardinality(Q) <= MostDefaults
  <2> DEFINE P == Q \cup {r}
             was == isDefault \ UNION {Clears(q) : q \in P}
  <2>1. r \notin Q /\ P \in SUBSET Changing
    BY <1>1, <1>2, <1>8
  <2>2. left \subseteq was \cup {a}
    BY <1>1, <1>2, <1>8
  <2>3. Cardinality(P) = Cardinality(Q) + 1
    BY <1>3, <2>1, OneMoreElement
  <2>4. IsFiniteSet(was) /\ Cardinality(was) + Cardinality(P) <= MostDefaults
    BY <1>4, <2>1
  <2> HIDE DEF was, left, P
  <2>5. Cardinality(left) <= Cardinality(was) + 1 /\ Cardinality(left) \in Nat
        /\ Cardinality(was) \in Nat
    BY <2>2, <2>4, OneMore
  <2> QED
    BY <1>3, <2>3, <2>4, <2>5, MostDefaultsType
<1> QED
  BY <1>5, <1>6, <1>7, <1>8, DefaultSteps

-----------------------------------------------------------------------------
(* As many accounts of one name as handlers *)

TheChangeNext(r) == fixed'[execute'[r].confirmation]

NamingNext(n) == {r \in Executes : execute'[r].at = "write_alias" /\ TheChangeNext(r).alias = n}

HoldersNext(n) == {a \in Accounts : alias'[a] = n}

LEMMA OutsideNames ==
  ASSUME Inv, Outside
  PROVE  NamesCounted'
<1>1. UNCHANGED <<execute, alias>>
  BY OutsideFrame
<1>2. \A r \in Executes : execute[r].at = "write_alias" => TheChangeNext(r) = TheChange(r)
  <2>1. \A c \in approvedAt : fixed'[c] = fixed[c]
    <3>1. \A c \in approvedAt : c \in Confirmations /\ status[c] # "absent"
      BY DEF Inv, TypeOK, Approvals
    <3>2. ASSUME NEW c \in Confirmations, NEW f \in Change, Prepare(c, f)
          PROVE  \A d \in approvedAt : fixed'[d] = fixed[d]
      BY <3>1, <3>2 DEF Prepare, Inv, TypeOK
    <3> QED
      BY <3>2 DEF Outside, Decide, ConfirmationExpires, Deactivate, confirmationVars
  <2> QED
    BY <1>1, <2>1 DEF Inv, Approvals, TheChange, TheChangeNext
<1> SUFFICES ASSUME NEW n \in Aliases, NEW Q \in SUBSET NamingNext(n)
             PROVE  Cardinality(HoldersNext(n) \ {TheChangeNext(q).account : q \in Q}) + Cardinality(Q)
                      <= Cardinality(Executes)
  BY DEF NamesCounted, Naming, NamingNext, Holders, HoldersNext, TheChange, TheChangeNext
<1>3. Q \in SUBSET Naming(n) /\ HoldersNext(n) = Holders(n)
  BY <1>1, <1>2 DEF Naming, NamingNext, Holders, HoldersNext
<1>4. {TheChangeNext(q).account : q \in Q} = {TheChange(q).account : q \in Q}
  BY <1>2, <1>3 DEF Naming
<1> QED
  BY <1>3, <1>4 DEF Inv, NamesCounted

\* A handler that is about to write a name has found it free; one that has
\* written it names its account and no other.
LEMMA NameSteps ==
  ASSUME Inv, NEW r \in Executes, ExecuteNext(r), NEW n \in Aliases
  PROVE  /\ \A q \in Executes \ {r} : /\ TheChangeNext(q) = TheChange(q)
                                      /\ q \in NamingNext(n) <=> q \in Naming(n)
         /\ \/ /\ r \in NamingNext(n) /\ UNCHANGED alias
               /\ Holders(n) \subseteq {TheChangeNext(r).account}
            \/ /\ r \in Naming(n) /\ r \notin NamingNext(n)
               /\ HoldersNext(n) \subseteq Holders(n) \cup {TheChange(r).account}
            \/ r \notin NamingNext(n) /\ HoldersNext(n) \subseteq Holders(n)
<1>1. HandlerMoves(r) /\ TypeOK /\ Approvals
  BY HandlerStep DEF Inv
<1>2. \A q \in Executes \ {r} : /\ TheChangeNext(q) = TheChange(q)
                                /\ q \in NamingNext(n) <=> q \in Naming(n)
  BY <1>1 DEF HandlerMoves, TheChange, TheChangeNext, Naming, NamingNext
<1>3. CASE r \in NamingNext(n)
  <2>1. execute[r].at = "check_alias" /\ execute'[r].at = "write_alias"
    BY <1>1, <1>3 DEF NamingNext, HandlerMoves, Follows
  <2>2. CheckAlias(r)
    BY <1>1, <2>1, IdleTyped DEF ExecuteNext, Begin, LoadConfirmation, ReadAccount, WriteAlias,
       FindDefault, ClearDefault, SetDefault, MarkExecuted, RecordAudit, Invalidate, ExecuteFails
  <2>3. TheChangeNext(r) = TheChange(r) /\ TheChange(r).alias = n
    BY <1>1, <1>3, <2>1 DEF HandlerMoves, TheChange, TheChangeNext, NamingNext
  <2>4. ~TakenByAnother(TheChange(r))
    <3>1. CASE TakenByAnother(TheChange(r))
      <4>1. execute'[r].at = "invalidate"
        BY <1>1, <2>1, <2>2, <3>1, GotoTyped DEF CheckAlias, Point
      <4> QED
        BY <2>1, <4>1
    <3> QED
      BY <3>1
  <2>5. Holders(n) \subseteq {TheChange(r).account}
    BY <2>3, <2>4 DEF TakenByAnother, Holders
  <2> QED
    BY <1>2, <1>3, <2>2, <2>3, <2>5 DEF CheckAlias, accountVars
<1>4. CASE r \notin NamingNext(n) /\ UNCHANGED alias
  BY <1>2, <1>4 DEF Holders, HoldersNext
<1>5. CASE /\ r \notin NamingNext(n)
           /\ execute[r].at = "write_alias" /\ execute'[r].at = "mark"
           /\ alias' = [alias EXCEPT ![TheChange(r).account] = TheChange(r).alias]
  <2>1. TheChange(r).account \in Accounts
    BY <1>1, <1>5, ApprovedChange
  <2>2. CASE TheChange(r).alias = n
    BY <1>1, <1>2, <1>5, <2>1, <2>2 DEF Naming, Holders, HoldersNext, TypeOK
  <2>3. CASE TheChange(r).alias # n
    BY <1>1, <1>2, <1>5, <2>1, <2>3 DEF Holders, HoldersNext, TypeOK
  <2> QED
    BY <2>2, <2>3
<1> QED
  BY <1>1, <1>3, <1>4, <1>5, HandlerEffects

LEMMA HandlerNames ==
  ASSUME Inv, NEW r \in Executes, ExecuteNext(r)
  PROVE  NamesCounted'
<1> SUFFICES ASSUME NEW n \in Aliases, NEW Q \in SUBSET NamingNext(n)
             PROVE  Cardinality(HoldersNext(n) \ {TheChangeNext(q).account : q \in Q}) + Cardinality(Q)
                      <= Cardinality(Executes)
  BY DEF NamesCounted, Naming, NamingNext, Holders, HoldersNext, TheChange, TheChangeNext
<1> DEFINE left == HoldersNext(n) \ {TheChangeNext(q).account : q \in Q}
<1>1. \A q \in Executes \ {r} : /\ TheChangeNext(q) = TheChange(q)
                                /\ q \in NamingNext(n) <=> q \in Naming(n)
  BY NameSteps
<1>2. Q \in SUBSET Executes /\ IsFiniteSet(Q) /\ Cardinality(Q) \in Nat
      /\ Cardinality(Q) <= Cardinality(Executes) /\ Cardinality(Executes) \in Nat
  <2>1. Q \in SUBSET Executes
    BY DEF NamingNext
  <2> QED
    BY <2>1, Finite
<1>3. \A P \in SUBSET Naming(n) :
        LET was == Holders(n) \ {TheChange(q).account : q \in P} IN
        /\ IsFiniteSet(was) /\ Cardinality(was) \in Nat /\ IsFiniteSet(P) /\ Cardinality(P) \in Nat
        /\ Cardinality(was) + Cardinality(P) <= Cardinality(Executes)
  <2> SUFFICES ASSUME NEW P \in SUBSET Naming(n)
               PROVE  LET was == Holders(n) \ {TheChange(q).account : q \in P} IN
                      /\ IsFiniteSet(was) /\ Cardinality(was) \in Nat
                      /\ IsFiniteSet(P) /\ Cardinality(P) \in Nat
                      /\ Cardinality(was) + Cardinality(P) <= Cardinality(Executes)
    OBVIOUS
  <2>1. Holders(n) \ {TheChange(q).account : q \in P} \in SUBSET Accounts /\ P \in SUBSET Executes
    BY DEF Naming, Holders
  <2> QED
    BY <2>1, Finite DEF Inv, NamesCounted
<1>4. CASE r \in NamingNext(n) /\ UNCHANGED alias /\ Holders(n) \subseteq {TheChangeNext(r).account}
  <2>0. HoldersNext(n) = Holders(n)
    BY <1>4 DEF Holders, HoldersNext
  <2>1. CASE r \in Q
    <3>1. left = {}
      BY <1>4, <2>0, <2>1
    <3>2. Cardinality(left) = 0
      BY <3>1, FS_EmptySet
    <3> QED
      BY <1>2, <3>2
  <2>2. CASE r \notin Q
    <3>1. Q \in SUBSET Naming(n) /\ {TheChangeNext(q).account : q \in Q} = {TheChange(q).account : q \in Q}
      BY <1>1, <1>2, <2>2
    <3> QED
      BY <1>3, <2>0, <3>1
  <2> QED
    BY <2>1, <2>2
<1>5. CASE /\ r \in Naming(n) /\ r \notin NamingNext(n)
           /\ HoldersNext(n) \subseteq Holders(n) \cup {TheChange(r).account}
  <2> DEFINE P == Q \cup {r}
             was == Holders(n) \ {TheChange(q).account : q \in P}
             a == TheChange(r).account
  <2>1. r \notin Q /\ P \in SUBSET Naming(n)
    BY <1>1, <1>2, <1>5
  <2>2. left \subseteq was \cup {a}
    BY <1>1, <1>2, <1>5, <2>1
  <2>3. Cardinality(P) = Cardinality(Q) + 1
    BY <1>2, <2>1, OneMoreElement
  <2>4. IsFiniteSet(was) /\ Cardinality(was) + Cardinality(P) <= Cardinality(Executes)
    BY <1>3, <2>1
  <2> HIDE DEF was, left, P, a
  <2>5. Cardinality(left) <= Cardinality(was) + 1 /\ Cardinality(left) \in Nat
        /\ Cardinality(was) \in Nat
    BY <2>2, <2>4, OneMore
  <2> QED
    BY <1>2, <2>3, <2>4, <2>5 DEF left
<1>6. CASE r \notin NamingNext(n) /\ HoldersNext(n) \subseteq Holders(n)
  <2> DEFINE was == Holders(n) \ {TheChange(q).account : q \in Q}
  <2>1. Q \in SUBSET Naming(n)
    BY <1>1, <1>2, <1>6
  <2>2. left \subseteq was
    BY <1>1, <1>2, <1>6
  <2>3. IsFiniteSet(was) /\ Cardinality(was) \in Nat
        /\ Cardinality(was) + Cardinality(Q) <= Cardinality(Executes)
    BY <1>3, <2>1
  <2> HIDE DEF was, left
  <2>4. Cardinality(left) <= Cardinality(was) /\ Cardinality(left) \in Nat
    BY <2>2, <2>3, Smaller
  <2> QED
    BY <1>2, <2>3, <2>4 DEF left
<1> QED
  BY <1>4, <1>5, <1>6, NameSteps

-----------------------------------------------------------------------------
(* The theorems *)

LEMMA InvStep == Inv /\ [Next]_vars => Inv'
<1> SUFFICES ASSUME Inv, [Next]_vars
             PROVE  Inv'
  OBVIOUS
<1>1. CASE Outside
  <2>1. TypeOK' /\ Approvals'
    BY <1>1, OutsideTyped, OutsideApprovals DEF Inv
  <2> QED
    BY <1>1, <2>1, OutsideChangesAsApproved, OutsideAudits, OutsideCounts, OutsideDefaults,
       OutsideNames DEF Inv
<1>2. ASSUME NEW r \in Executes, ExecuteNext(r)
      PROVE  Inv'
  <2>1. TypeOK' /\ Approvals'
    <3>1. TypeOK /\ Approvals
      BY DEF Inv
    <3>2. TypeOK'
      BY <1>2, <3>1, HandlerTyped
    <3> QED
      BY <1>2, <3>1, <3>2, HandlerApprovals
  <2> QED
    BY <1>2, <2>1, HandlerChangesAsApproved, HandlerAudits, HandlerCounts, HandlerDefaults,
       HandlerNames DEF Inv
<1>3. CASE UNCHANGED vars
  <2>1. TypeOK' /\ ChangedAsApproved'
    BY <1>3 DEF vars, Inv, TypeOK, ChangedAsApproved
  <2>2. Approvals' /\ Audits'
    BY <1>3 DEF vars, Inv, Approvals, Audits, AuditedOnceWhenChanged, Closed, TheChange
  <2>3. ChangesCounted'
    BY <1>3 DEF vars, Inv, ChangesCounted, Closed, Marking, Applying
  <2>4. DefaultsCounted'
    BY <1>3 DEF vars, Inv, DefaultsCounted, Changing, Clears
  <2>5. NamesCounted'
    BY <1>3 DEF vars, Inv, NamesCounted, Naming, Holders, TheChange
  <2> QED
    BY <2>1, <2>2, <2>3, <2>4, <2>5 DEF Inv
<1> QED
  BY <1>1, <1>2, <1>3 DEF Next, Outside

LEMMA Invariance == Spec => []Inv
BY InitInv, InvStep, PTL DEF Spec

\* Every column and every handler keeps its type: what the two Execute
\* operations write is always an account or a name of the user.
THEOREM SettingTypeCorrect == Spec => []TypeOK
<1>1. Inv => TypeOK
  BY DEF Inv
<1> QED
  BY <1>1, Invariance, PTL

\* Every default account and every name the user was not born with was fixed
\* for this very account in a confirmation the user approved: whatever the
\* Execute handlers interleave, none writes what another one had approved.
THEOREM SettingsChangedAsApproved == Spec => []ChangedAsApproved
<1>1. Inv => ChangedAsApproved
  BY DEF Inv
<1> QED
  BY <1>1, Invariance, PTL

\* mark_executed_if_approved picks one handler to report a confirmation, and
\* that one reports a change that was committed.
THEOREM SettingAuditedOnce == Spec => []AuditedOnceWhenChanged
<1>1. Inv => AuditedOnceWhenChanged
  BY DEF Inv, Audits
<1> QED
  BY <1>1, Invariance, PTL

\* An Execute that finds its confirmation closed applies nothing: a change is
\* committed at most once per handler that runs beside the others, and once
\* more per handler that died between the commit and the mark.
THEOREM ReappliedByRacesAndCrashes == Spec => []ReappliedOnlyAfterCrash
<1>1. Inv => ReappliedOnlyAfterCrash
  <2> SUFFICES ASSUME Inv, NEW c \in Confirmations
               PROVE  changes[c] <= Cardinality(Executes) + crashes[c]
    BY DEF ReappliedOnlyAfterCrash
  <2>1. /\ changes[c] <= crashes[c] + Cardinality(Executes \ Applying(c))
        /\ changes[c] \in Nat /\ crashes[c] \in Nat
    BY DEF Inv, ChangesCounted, TypeOK
  <2>2. /\ Cardinality(Executes \ Applying(c)) <= Cardinality(Executes)
        /\ Cardinality(Executes \ Applying(c)) \in Nat /\ Cardinality(Executes) \in Nat
    BY Finite
  <2> QED
    BY <2>1, <2>2
<1> QED
  BY <1>1, Invariance, PTL

\* set_default_account leaves several default accounts only to handlers that
\* ran together: there are never more defaults than handlers, although no
\* constraint of the schema counts them.
THEOREM DefaultsBoundedByHandlers == Spec => []DefaultsFromRacersOnly
<1>1. Inv => DefaultsFromRacersOnly
  <2> SUFFICES ASSUME Inv
               PROVE  Cardinality(isDefault) <= MostDefaults
    BY DEF DefaultsFromRacersOnly, MostDefaults
  <2>1. Cardinality(isDefault \ UNION {Clears(r) : r \in {}}) + Cardinality({}) <= MostDefaults
    BY DEF Inv, DefaultsCounted
  <2>2. isDefault \ UNION {Clears(r) : r \in {}} = isDefault
    OBVIOUS
  <2>3. Cardinality(isDefault) \in Nat
    BY Finite DEF Inv, TypeOK
  <2> QED
    BY <2>1, <2>2, <2>3, FS_EmptySet
<1> QED
  BY <1>1, Invariance, PTL

\* Execute asks again whether another account has the name: only handlers that
\* asked together give one name to several accounts, one account each.
THEOREM NamesBoundedByHandlers == Spec => []NamesSharedByRacersOnly
<1>1. Inv => NamesSharedByRacersOnly
  <2> SUFFICES ASSUME Inv, NEW n \in Aliases
               PROVE  Cardinality(Holders(n)) <= Cardinality(Executes)
    BY DEF NamesSharedByRacersOnly, Holders
  <2>1. Cardinality(Holders(n) \ {TheChange(r).account : r \in {}}) + Cardinality({})
          <= Cardinality(Executes)
    BY DEF Inv, NamesCounted
  <2>2. Holders(n) \ {TheChange(r).account : r \in {}} = Holders(n)
    OBVIOUS
  <2>3. Cardinality(Holders(n)) \in Nat
    <3>1. Holders(n) \in SUBSET Accounts
      BY DEF Holders
    <3> QED
      BY <3>1, Finite
  <2> QED
    BY <2>1, <2>2, <2>3, FS_EmptySet
<1> QED
  BY <1>1, Invariance, PTL

\* No step takes a user's last default account away: the transaction that
\* clears the old one sets the new one, or neither is seen.
THEOREM DefaultNeverLost == Spec => DefaultKept
<1>1. Inv /\ [Next]_vars => [isDefault # {} => isDefault' # {}]_vars
  <2> SUFFICES ASSUME Inv, Next
               PROVE  isDefault # {} => isDefault' # {}
    OBVIOUS
  <2>1. CASE Outside
    BY <2>1, OutsideFrame
  <2>2. ASSUME NEW r \in Executes, ExecuteNext(r)
        PROVE  isDefault # {} => isDefault' # {}
    BY <2>2, HandlerEffects DEF Inv
  <2> QED
    BY <2>1, <2>2 DEF Next, Outside
<1> QED
  BY <1>1, Invariance, PTL DEF Spec, DefaultKept
=============================================================================
