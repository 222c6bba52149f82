----------------------------- MODULE Conversation -----------------------------
(***************************************************************************)
(* The turns of one chat session: the Backend Gateway (chat_service, the   *)
(* Agent client with its retries, pending_input_service, the webhook API)  *)
(* and the Agent (AgentRuntime, the webhook client), each of which knows   *)
(* half of what is going on, joined by calls and webhooks that arrive      *)
(* late, twice or never, or whose reply is lost.  What a graph does        *)
(* between two pauses is the subject of Workflow.                          *)
(*                                                                         *)
(* A timeout leaves open whether the request, or only its reply, is lost,  *)
(* and whether the receiver is still at work on it.                        *)
(***************************************************************************)
EXTENDS AgentRuntime

CONSTANTS
  MaxFaults,  \* bound: timeouts and restarts
  MaxHooks    \* attempts of a webhook that may be repeated (max_retries + 1)

\* MAX_RETRY_ATTEMPTS: Copies are the attempts of a call to the Agent, and
\* Resumes the submissions of the user, each numbered from 1.
ASSUME ConversationAssumption ==
  /\ MaxFaults \in Nat /\ MaxHooks \in Nat \ {0}
  /\ Copies \subseteq Nat \ {0} /\ Resumes \subseteq Nat \ {0}

VARIABLES
  turn,        \* start_chat_turn: "idle", "calling", "linked", "failed"
  linked,      \* agent_thread_id of the turn's execution context
  submission,  \* an answer of the user: "idle", "read", "calling", "accepted", "refused"
  answer,      \* the pause it answers, and how
  call,        \* of each start and resume: attempts made, copies in flight, the reply
  row,         \* of each pause: its pending input or its confirmation
  hooks,       \* webhooks the Backend handles, and the point it has reached
  posting,     \* of each thread: the webhook the Agent waits for
  shown,       \* of each pause: how often it has been put on the stream
  ends,        \* of each thread: terminal events on the stream
  unreported,  \* threads whose last webhook was given up
  faults

bridge == <<turn, linked, submission, answer, call, row, hooks, posting, shown, ends,
            unreported, faults>>
vars == <<agent, bridge>>

Attempts == Cardinality(Copies)

NoCall == [attempts |-> 0, copies |-> {}, reply |-> None]

FirstAttempt == [attempts |-> 1, copies |-> {1}, reply |-> None]

NoPost == [event |-> None, attempt |-> 0]

\* Events of the Agent: an interrupt that asks for an input or for a decision
\* (an approval or an authentication), and the four that end a turn.
PauseEvents == {"need_input", "need_decision"}
EndEvents == {"done", "error", "blocked", "workflow_error"}

ConversationInit ==
  /\ RuntimeInit
  /\ turn = [s \in Starts |-> "idle"] /\ linked = [s \in Starts |-> None]
  /\ submission = [r \in Resumes |-> "idle"]
  /\ answer = [r \in Resumes |-> None]
  /\ call = [x \in Starts \cup Resumes |-> NoCall]
  /\ row = [p \in Pauses |-> "none"]
  /\ hooks = {} /\ posting = [k \in Threads |-> NoPost]
  /\ shown = [p \in Pauses |-> 0] /\ ends = [k \in Threads |-> 0]
  /\ unreported = {} /\ faults = 0

\* Attempt c has been answered; only the current one is listened to.
Replies(x, c, reply) ==
  call' = [call EXCEPT ![x].copies = @ \ {c},
                       ![x].reply = IF c = call[x].attempts THEN reply ELSE @]

\* Nothing that could still bring a reply is under way.
Lost(x) ==
  /\ call[x].reply = None /\ call[x].attempts \notin call[x].copies
  /\ <<x, call[x].attempts>> \notin validated

\* The current attempt times out: with a fault of the network, or because
\* the Agent restarted under it.
TimesOut(x) ==
  IF Lost(x) THEN UNCHANGED faults ELSE faults < MaxFaults /\ faults' = faults + 1

\* The attempt may be lost, or still arrive.
Repeat(x) ==
  /\ call[x].attempts < Attempts
  /\ LET n == call[x].attempts + 1 IN
     \E late \in SUBSET (call[x].copies \cap {call[x].attempts}) :
       call' = [call EXCEPT ![x] =
                  [attempts |-> n, reply |-> None,
                   copies |-> ((@.copies \ {@.attempts}) \cup late) \cup {n}]]

-----------------------------------------------------------------------------
(* start_chat_turn *)

StartTurn(s) ==
  /\ turn[s] = "idle"
  /\ turn' = [turn EXCEPT ![s] = "calling"]
  /\ call' = [call EXCEPT ![s] = FirstAttempt]
  /\ UNCHANGED <<agent, linked, submission, answer, row, hooks, posting, shown, ends,
                 unreported, faults>>

\* The Agent serves an attempt of the call.
StartArrives(s, c) ==
  /\ c \in call[s].copies
  /\ AcceptStart(s)
  /\ Replies(s, c, thread'[s])
  /\ UNCHANGED <<turn, linked, submission, answer, row, hooks, posting, shown, ends,
                 unreported, faults>>

\* The thread id is stored when the reply arrives; the graph may have been
\* running for a while.
LinkThread(s) ==
  /\ turn[s] = "calling" /\ call[s].reply # None
  /\ linked' = [linked EXCEPT ![s] = call[s].reply]
  /\ turn' = [turn EXCEPT ![s] = "linked"]
  /\ UNCHANGED <<agent, submission, answer, call, row, hooks, posting, shown, ends,
                 unreported, faults>>

\* call_with_retry; after the last attempt the user gets an error.
StartTimesOut(s) ==
  /\ turn[s] = "calling" /\ TimesOut(s)
  /\ \/ Repeat(s) /\ UNCHANGED turn
     \/ /\ call[s].attempts = Attempts /\ UNCHANGED call
        /\ turn' = [turn EXCEPT ![s] = "failed"]
  /\ UNCHANGED <<agent, linked, submission, answer, row, hooks, posting, shown, ends, unreported>>

-----------------------------------------------------------------------------
(* The user's answers: resume_after_input, resume_after_approval,          *)
(* authenticate_and_resume                                                 *)

\* An answer takes the run on, cancels it, or cancels an input the workflow may
\* return to the approval from (_is_return_capable_cancel).
Choices == {"go_on", "cancel", "return"}

\* Submissions are numbered in the order they are made.
NextSubmission(r) ==
  /\ submission[r] = "idle"
  /\ \A q \in Resumes : q < r => submission[q] # "idle"

TurnOf(p) == record[p[1]].start

\* _resolve_agent_thread_id and the call: without a linked thread the handler
\* ends in an error, though the row is used up.
Resume(r, p) ==
  LET k == linked[TurnOf(p)] IN
  IF k = None
  THEN /\ submission' = [submission EXCEPT ![r] = "refused"]
       /\ UNCHANGED <<agent, call>>
  ELSE /\ submission' = [submission EXCEPT ![r] = "calling"]
       /\ Ask(r, k, p)
       /\ call' = [call EXCEPT ![r] = FirstAttempt]

\* mark_pending_input_consumed
Consumable_Any(p) == row[p] # "none"

Consumable(p) == row[p] = "active"

\* The pending input is consumed in one conditional update.
SubmitInput(r, p, choice) ==
  /\ NextSubmission(r) /\ shown[p] > 0 /\ Consumable(p)
  /\ row' = [row EXCEPT ![p] = "consumed"]
  /\ answer' = [answer EXCEPT ![r] = [pause |-> p, choice |-> choice]]
  /\ Resume(r, p)
  /\ UNCHANGED <<turn, linked, hooks, posting, shown, ends, unreported, faults>>

\* A decision is checked first,
ReadDecision(r, p, choice) ==
  /\ NextSubmission(r) /\ shown[p] > 0 /\ row[p] = "pending" /\ choice # "return"
  /\ answer' = [answer EXCEPT ![r] = [pause |-> p, choice |-> choice]]
  /\ submission' = [submission EXCEPT ![r] = "read"]
  /\ UNCHANGED <<agent, turn, linked, call, row, hooks, posting, shown, ends, unreported, faults>>

\* and written later, whatever the row has become.
WriteDecision(r) ==
  /\ submission[r] = "read"
  /\ row' = [row EXCEPT ![answer[r].pause] = "decided"]
  /\ Resume(r, answer[r].pause)
  /\ UNCHANGED <<turn, linked, answer, hooks, posting, shown, ends, unreported, faults>>

\* The Agent serves an attempt: a known request is replayed, one that does
\* not fit is refused, the others are validated and accepted.
ResumeArrives(r, c) ==
  /\ c \in call[r].copies
  /\ \/ /\ Validate(r, c)
        /\ call' = [call EXCEPT ![r].copies = @ \ {c}]
     \/ /\ ~(Waiting(r) /\ IdentifierMatches(r))
        /\ Replies(r, c, IF Replayed(r) THEN "accepted" ELSE "refused")
        /\ UNCHANGED agent
  /\ UNCHANGED <<turn, linked, submission, answer, row, hooks, posting, shown, ends,
                 unreported, faults>>

ResumeAccepted(r, c) ==
  /\ AcceptResume(r, c)
  /\ Replies(r, c, IF StillWaiting(r) \/ Replayed(r) THEN "accepted" ELSE "refused")
  /\ UNCHANGED <<turn, linked, submission, answer, row, hooks, posting, shown, ends,
                 unreported, faults>>

Ends(k) == ends' = [ends EXCEPT ![k] = IF @ < 2 THEN @ + 1 ELSE @]

\* has_confirmation_for_execution_context
HasConfirmation(k) == \E p \in Pauses : p[1] = k /\ row[p] \in {"pending", "decided"}

\* The Backend itself publishes done for a cancellation, once the Agent has it,
\* except when the workflow may return to an approval it has already shown.
CancelCloses_Never(r) == FALSE

CancelCloses(r) ==
  \/ answer[r].choice = "cancel"
  \/ answer[r].choice = "return" /\ ~HasConfirmation(request[r].thread)

EndSubmission(r) ==
  /\ submission[r] = "calling" /\ call[r].reply # None
  /\ submission' = [submission EXCEPT ![r] = call[r].reply]
  /\ IF call[r].reply = "accepted" /\ CancelCloses(r)
     THEN Ends(request[r].thread) ELSE UNCHANGED ends
  /\ UNCHANGED <<agent, turn, linked, answer, call, row, hooks, posting, shown, unreported, faults>>

ResumeTimesOut(r) ==
  /\ submission[r] = "calling" /\ TimesOut(r)
  /\ \/ Repeat(r) /\ UNCHANGED submission
     \/ /\ call[r].attempts = Attempts /\ UNCHANGED call
        /\ submission' = [submission EXCEPT ![r] = "refused"]
  /\ UNCHANGED <<agent, turn, linked, answer, row, hooks, posting, shown, ends, unreported>>

-----------------------------------------------------------------------------
(* The Agent's job and its webhooks *)

Hook(k, event, attempt, point) ==
  [thread |-> k, pause |-> record'[k].pause, event |-> event, attempt |-> attempt, point |-> point]

\* Attempt n of the webhook; late is what remains of the ones before.
Post(k, event, n, late) ==
  /\ posting' = [posting EXCEPT ![k] = [event |-> event, attempt |-> n]]
  /\ hooks' = late \cup {Hook(k, event, n, "sent")}

Posting(k) == posting[k].attempt > 0

StopsPosting(k) == posting' = [posting EXCEPT ![k] = NoPost]

\* The run has been resumed with a cancellation and may end without another word;
Cancelled(k) == record[k].active # None /\ answer[record[k].active].choice # "go_on"

\* it must, unless the workflow has an approval to return to.
GoesOn(k) ==
  Cancelled(k) => answer[record[k].active].choice = "return" /\ HasConfirmation(k)

UnchangedBackend == UNCHANGED <<turn, linked, submission, answer, call, shown, ends>>

AgentBegins(x) == Begin(x) /\ UNCHANGED bridge

\* need_input: the row is made when the webhook arrives; a decision has its
\* row from Prepare or create_auth on.
AgentPauses(k, event) ==
  /\ ~Posting(k) /\ GoesOn(k) /\ event \in PauseEvents
  /\ GraphInterrupts(k)
  /\ Post(k, event, 1, hooks)
  /\ row' = IF event = "need_decision" THEN [row EXCEPT ![<<k, record'[k].pause>>] = "pending"]
            ELSE row
  /\ UNCHANGED <<unreported, faults>> /\ UnchangedBackend

AgentCompletes(k) ==
  /\ ~Posting(k) /\ GoesOn(k)
  /\ GraphCompletes(k)
  /\ Post(k, "done", 1, hooks)
  /\ UNCHANGED <<row, unreported, faults>> /\ UnchangedBackend

\* A step of the graph publishes the end itself.
AgentEmits(k, event) ==
  /\ job[k] = "graph" /\ ~Posting(k) /\ GoesOn(k)
  /\ event \in {"blocked", "workflow_error"}
  /\ UNCHANGED <<agent, row, unreported, faults>> /\ UnchangedBackend
  /\ Post(k, event, 1, hooks)

AgentEndsCancelled(k) ==
  /\ Cancelled(k) /\ GraphEnds(k, "completed")
  /\ UNCHANGED bridge

\* The runtime reports an exception of the graph.
AgentFails(k) ==
  /\ job[k] = "graph" /\ ~Posting(k) /\ Raises(k)
  /\ Post(k, "error", 1, hooks)
  /\ UNCHANGED <<row, unreported, faults>> /\ UnchangedBackend

\* What follows the webhook of the job.
AfterPost(k) ==
  \/ job[k] = "pausing" /\ Published(k)
  \/ job[k] \in {"completing", "failing"} /\ Reported(k)
  \/ posting[k].event = "blocked" /\ GraphEnds(k, "completed")
  \/ posting[k].event = "workflow_error" /\ GraphEnds(k, "failed")

\* The Backend's reply to the attempt the Agent waits for.
PostReplied(k) ==
  /\ Posting(k)
  /\ \E h \in hooks :
       /\ h.thread = k /\ h.event = posting[k].event /\ h.attempt = posting[k].attempt
       /\ h.point = "published"
       /\ hooks' = hooks \ {h}
  /\ AfterPost(k) /\ StopsPosting(k)
  /\ UNCHANGED <<row, unreported, faults>> /\ UnchangedBackend

\* RETRYABLE_EVENT_TYPES
Retryable_All(event) == TRUE

Retryable(event) == event \in {"done", "error", "workflow_error"}

\* A webhook that times out: repeated if its event may be, otherwise an
\* exception in the graph or the runtime, or logged and forgotten.
PostTimesOut(k) ==
  /\ Posting(k) /\ faults < MaxFaults /\ faults' = faults + 1
  /\ LET current == {h \in hooks : /\ h.thread = k /\ h.event = posting[k].event
                                   /\ h.attempt = posting[k].attempt}
         working == {h \in current : h.point # "published"}
     IN \E late \in {hooks \ current, (hooks \ current) \cup working} :
          \/ /\ Retryable(posting[k].event) /\ posting[k].attempt < MaxHooks
             /\ UNCHANGED <<agent, unreported>>
             /\ Post(k, posting[k].event, posting[k].attempt + 1, late)
          \/ /\ Retryable(posting[k].event) => posting[k].attempt = MaxHooks
             /\ job[k] \in {"graph", "pausing"} /\ Raises(k)
             /\ Post(k, "error", 1, late) /\ UNCHANGED unreported
          \/ /\ posting[k].attempt = MaxHooks
             /\ Reported(k) /\ StopsPosting(k) /\ hooks' = late
             /\ unreported' = unreported \cup {k}
  /\ UNCHANGED <<turn, linked, submission, answer, call, row, shown, ends>>

AgentRestarts ==
  /\ Restart
  /\ faults < MaxFaults /\ faults' = faults + 1
  /\ posting' = [k \in Threads |-> NoPost]
  /\ hooks' = {h \in hooks : h.point # "published"}
  /\ UNCHANGED <<row, unreported>> /\ UnchangedBackend

-----------------------------------------------------------------------------
(* receive_agent_webhook *)

Advance(h, point) == hooks' = (hooks \ {h}) \cup {[h EXCEPT !.point = point]}

UnchangedByHook == UNCHANGED <<agent, turn, linked, submission, answer, call, posting,
                               unreported, faults>>

\* register_pending_input: the active inputs of the session are cancelled,
CancelActiveInputs(h) ==
  /\ h.event = "need_input" /\ h.point = "sent"
  /\ row' = [p \in Pauses |-> IF row[p] = "active" THEN "cancelled" ELSE row[p]]
  /\ Advance(h, "cleared")
  /\ UNCHANGED <<shown, ends>> /\ UnchangedByHook

\* then the new one is created,
CreatePendingInput(h) ==
  /\ h.event = "need_input" /\ h.point = "cleared"
  /\ row' = [row EXCEPT ![<<h.thread, h.pause>>] = "active"]
  /\ Advance(h, "registered")
  /\ UNCHANGED <<shown, ends>> /\ UnchangedByHook

\* and the event is put on the stream; a reply nobody waits for is dropped.
PublishEvent(h) ==
  /\ h.point = IF h.event = "need_input" THEN "registered" ELSE "sent"
  /\ IF h.event \in PauseEvents
     THEN shown' = [shown EXCEPT ![<<h.thread, h.pause>>] = @ + 1] /\ UNCHANGED ends
     ELSE Ends(h.thread) /\ UNCHANGED shown
  /\ IF posting[h.thread] = [event |-> h.event, attempt |-> h.attempt]
     THEN Advance(h, "published") ELSE hooks' = hooks \ {h}
  /\ UNCHANGED row /\ UnchangedByHook

-----------------------------------------------------------------------------
(* Specification *)

\* What Agent and Backend do by themselves.
Progress ==
  \/ \E s \in Starts :
       \/ LinkThread(s)
       \/ \E c \in Copies : StartArrives(s, c)
  \/ \E r \in Resumes :
       \/ WriteDecision(r) \/ EndSubmission(r)
       \/ Lost(r) /\ ResumeTimesOut(r)
       \/ \E c \in Copies : ResumeArrives(r, c) \/ ResumeAccepted(r, c)
  \/ \E x \in queued : AgentBegins(x)
  \/ \E k \in Threads :
       \/ AgentCompletes(k) \/ AgentEndsCancelled(k) \/ AgentFails(k)
       \/ PostReplied(k)
       \/ \E event \in PauseEvents : AgentPauses(k, event)
       \/ \E event \in EndEvents : AgentEmits(k, event)
  \/ \E h \in hooks : CancelActiveInputs(h) \/ CreatePendingInput(h) \/ PublishEvent(h)

User ==
  \/ \E s \in Starts : StartTurn(s)
  \/ \E r \in Resumes, p \in Pauses, choice \in Choices :
       SubmitInput(r, p, choice) \/ ReadDecision(r, p, choice)

Faults ==
  \/ \E s \in Starts : StartTimesOut(s)
  \/ \E r \in Resumes : ~Lost(r) /\ ResumeTimesOut(r)
  \/ \E k \in Threads : PostTimesOut(k)
  \/ AgentRestarts

ConversationNext == Progress \/ User \/ Faults

\* Event loops run what is ready, handlers in progress end, a message that
\* is not lost arrives; nobody has to answer, and nothing has to fail.
Spec == ConversationInit /\ [][ConversationNext]_vars /\ WF_vars(Progress)

-----------------------------------------------------------------------------
(* Properties that hold *)

\* A pause is put on the stream at most once, whatever is repeated or late.
ShownOnce == \A p \in Pauses : shown[p] <= 1

\* Of all submissions to one pending input, with whatever value and from however
\* many tabs, one takes the row and is passed on; and a pause whose answer has
\* resumed the graph cannot be answered again.
AnsweredOnce ==
  /\ \A q, r \in Resumes :
       /\ answer[q] # None /\ answer[r] # None /\ answer[q].pause = answer[r].pause
       /\ row[answer[r].pause] \in {"active", "consumed", "cancelled"}
       => q = r
  /\ \A k \in Threads : \A r \in record[k].requests :
       row[answer[r].pause] \in {"consumed", "decided"}

\* No thread stays accepted or running: it waits, ends or is lost.
RuntimeSettles ==
  \A k \in Threads :
    (record[k].status \in {"accepted", "running"})
       ~> (record[k].status \notin {"accepted", "running"})

\* The user can go on: the turn failed before his eyes, it has ended on the
\* stream, or it shows a pause that the Agent waits at and the Backend takes
\* an answer for.
CanGoOn(s) ==
  \/ turn[s] = "failed"
  \/ \E k \in Threads :
       /\ record[k].start = s
       /\ \/ ends[k] > 0
          \/ LET p == <<k, record[k].pause>> IN
             record[k].status = "waiting" /\ shown[p] > 0 /\ row[p] \in {"active", "pending"}

\* A decision has resumed the run although the same pause had been answered by
\* another one: it was validated before that, and accepted at a later pause.
Overtaken(k, r) ==
  \E q \in record[k].requests \ {r} : answer[q].pause = answer[r].pause

\* The ways a turn is given up without a word on the stream: the Agent was
\* restarted; its last webhook failed in every attempt; an answer was used up
\* whose call the Agent refused, because it was still publishing the pause, or
\* never answered; such an answer has resumed the run at a later pause; or a
\* cancelled input was taken by the Backend for a return to the approval, while
\* the run has ended.
GivenUp(s) ==
  \E k \in Threads :
    /\ record[k].start = s
    /\ \/ record[k].status = "lost" \/ k \in unreported
       \/ \E r \in Resumes : /\ submission[r] = "refused"
                             /\ answer[r].pause = <<k, record[k].pause>>
       \/ \E r \in record[k].requests : submission[r] = "refused" /\ Overtaken(k, r)
       \/ /\ record[k].status = "completed" /\ HasConfirmation(k)
          /\ \E r \in record[k].requests : /\ answer[r].choice = "return"
                                           /\ answer[r].pause = <<k, record[k].pause>>

\* There is no other way for a turn to hang.
TurnGoesOn == \A s \in Starts : (turn[s] # "idle") ~> (CanGoOn(s) \/ GivenUp(s))
=============================================================================
