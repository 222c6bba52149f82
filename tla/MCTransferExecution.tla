------------------------ MODULE MCTransferExecution ------------------------
(* Small instances of TransferExecution for TLC. *)
EXTENDS TransferExecution, TLC

CONSTANTS checking, savings

\* All the money is in one account, so that the transfers compete for it.
Balances == checking :> 2 @@ savings :> 0

RichBalances == checking :> 6 @@ savings :> 0

Interchangeable == Permutations(Executes) \cup Permutations(Keys)
                   \cup Permutations(Channels) \cup Permutations(AuthContexts)
                   \cup Permutations(Confirmations) \cup Permutations(LedgerThreads)

(***************************************************************************)
(* A later starting point: every confirmation has been prepared, approved  *)
(* and authenticated, in an attempt of its own; Prepare judged each before *)
(* any was executed. From there the Agent executes each confirmation with  *)
(* the key it derives from it, and no time-to-live elapses.                *)
(***************************************************************************)
OneToOne(S, T) == CHOOSE f \in [S -> T] : \A x, y \in S : x # y => f[x] # f[y]

AttemptOf == OneToOne(Confirmations, AuthContexts)

KeyOf == OneToOne(Confirmations, Keys)

ApprovedInit ==
  /\ fixed \in [Confirmations -> {[from |-> checking, to |-> savings, amount |-> n] :
                                    n \in Amounts}]
  /\ status = [c \in Confirmations |-> "APPROVED"]
  /\ approvedAt = Confirmations /\ overdue = {}
  /\ auth = [a \in AuthContexts |->
                [status |-> "VERIFIED",
                 confirmation |-> CHOOSE c \in Confirmations : AttemptOf[c] = a]]
  /\ verifiedAt = AuthContexts /\ authOverdue = {}
  /\ idempotency = [k \in Keys |-> NoRecord]
  /\ execute = [r \in Executes |-> IdleExecute]
  /\ channel = [h \in Channels |-> IdleChannel]
  /\ sent = {} /\ posted = <<>>
  /\ serving = [w \in LedgerThreads |-> IdleThread]
  /\ balance = InitialBalance
  /\ audit = [c \in Confirmations |-> 0]

ApprovedNext ==
  \/ \E r \in Executes, c \in Confirmations : BeginExecute(r, KeyOf[c], c, AttemptOf[c])
  \/ \E r \in Executes : ExecuteStep(r) \/ ExecuteFails(r)
  \/ LedgerNext

ApprovedSpec == ApprovedInit /\ [][ApprovedNext]_vars

-----------------------------------------------------------------------------
\* The system with confirmations whose time-to-live is too long to elapse, for the
\* instances in which several compete. That of an authentication attempt elapses.
LastingNext ==
  \/ UserNext
  \/ AgentNext
  \/ \E r \in Executes : ExecuteStep(r) \/ ExecuteFails(r)
  \/ \E a \in AuthContexts : AuthExpires(a)
  \/ LedgerNext

LastingSpec == Init /\ [][LastingNext]_vars
=============================================================================
