----------------------------- MODULE EventStream -----------------------------
(***************************************************************************)
(* The event stream of one chat session, from the Redis stream the Backend *)
(* writes to the list of events the browser shows: relay_agent_stream, the *)
(* one-time ticket of a connection, and the hook useAgentStream, which     *)
(* reconnects by itself. Connections are lost at any moment with whatever  *)
(* is in flight, tickets are refused or run out, the Agent publishes while *)
(* nobody listens, and a terminal event may be published once more (a      *)
(* delivery repeated by the Agent, or the done of a cancellation).  The    *)
(* call that sends a message may fail although the Agent takes the turn.   *)
(*                                                                         *)
(* A session begins with the first call that succeeds: the browser does    *)
(* not know the session of one that failed before that.                    *)
(*                                                                         *)
(* Left out: the trimming of the stream and its time-to-live, both far     *)
(* above what a session writes, and the keep-alive comments.               *)
(***************************************************************************)
EXTENDS Naturals, Sequences

CONSTANTS
  MaxTurns,     \* bound: messages the user sends
  MaxProgress,  \* bound: events of a turn before its terminal one
  MaxRetries,   \* maxRetries of the hook
  MaxFaults,    \* bound: lost connections, refused tickets, failed calls
  MaxRepeats    \* bound: terminal events published once more

ASSUME ConstantsAssumption ==
  {MaxTurns, MaxProgress, MaxRetries, MaxFaults, MaxRepeats} \subseteq Nat

VARIABLES
  stream,    \* agent:stream:{session}: the position of an event is its id
  turn,      \* the messages sent so far, each the beginning of a turn
  accepted,  \* the turns the Agent has taken
  running,   \* the turns the Agent is still working on
  sending,   \* sendMutation.isPending: the call for the last message is under way
  failed,    \* the turns whose call has failed
  current,   \* the turn the hook was last started for
  ticket,    \* the ticket the client holds is in Redis
  relay,     \* the relay of the connection: up or not, its last_id
  wire,      \* what the relay has sent and the browser has not handled
  client,    \* the hook: where it is, lastEventIdRef, retryRef
  received,  \* the events the hook has enqueued, by id
  faults,    \* faults so far
  repeats,   \* repeated terminal events so far
  gaveUp     \* history: the hook has run out of retries in this session

messageVars == <<turn, sending, failed, current>>

agentVars == <<stream, accepted, running, repeats>>

vars == <<agentVars, messageVars, ticket, relay, wire, client, received, faults, gaveUp>>

-----------------------------------------------------------------------------
Kinds == {"progress", "done", "error", "blocked"}

Terminal == {"done", "error", "blocked"}

Event(t, kind) == [turn |-> t, kind |-> kind]

\* The raw "[DONE]", sent as a done event without an id.
Sentinel == 0

Down == [up |-> FALSE, last |-> 0]

Init ==
  /\ stream = <<>> /\ accepted = {} /\ running = {}
  /\ turn = 0 /\ sending = FALSE /\ failed = {} /\ current = 0
  /\ ticket = FALSE /\ relay = Down /\ wire = <<>>
  /\ client = [at |-> "idle", cursor |-> 0, retries |-> 0]
  /\ received = <<>>
  /\ faults = 0 /\ repeats = 0 /\ gaveUp = FALSE

-----------------------------------------------------------------------------
(* The Agent and the publishers: publish_agent_event, publish_cancellation_done *)

\* start_chat_turn has called the Agent, which takes the turn at once, later or
\* never: what reaches the browser is another matter.
Accept(t) ==
  /\ t \notin accepted
  /\ accepted' = accepted \cup {t} /\ running' = running \cup {t}
  /\ UNCHANGED <<stream, repeats, messageVars, ticket, relay, wire, client, received, faults,
                 gaveUp>>

Publish(t, kind) ==
  /\ t \in running
  /\ kind = "progress" =>
       Len(SelectSeq(stream, LAMBDA e : e = Event(t, "progress"))) < MaxProgress
  /\ stream' = Append(stream, Event(t, kind))
  /\ running' = IF kind = "progress" THEN running ELSE running \ {t}
  /\ UNCHANGED <<accepted, repeats, messageVars, ticket, relay, wire, client, received, faults,
                 gaveUp>>

PublishAgain(t) ==
  /\ t \in accepted \ running /\ repeats < MaxRepeats
  /\ stream' = Append(stream, Event(t, "done"))
  /\ repeats' = repeats + 1
  /\ UNCHANGED <<accepted, running, messageVars, ticket, relay, wire, client, received, faults,
                 gaveUp>>

-----------------------------------------------------------------------------
(* The relay *)

\* The next event after last_id, with its id. A terminal event is followed by
\* the sentinel, and the relay ends.
RelayNext ==
  /\ relay.up /\ relay.last < Len(stream)
  /\ LET id == relay.last + 1
         over == stream[id].kind \in Terminal
     IN /\ wire' = wire \o IF over THEN <<id, Sentinel>> ELSE <<id>>
        /\ relay' = IF over THEN Down ELSE [relay EXCEPT !.last = id]
  /\ UNCHANGED <<agentVars, messageVars, ticket, client, received, faults, gaveUp>>

-----------------------------------------------------------------------------
(* The browser: useChatRuntime.onNew and useAgentStream *)

\* The composer sends when the hook is not running and no call is under way,
\* whatever the Agent does.
SendMessage ==
  /\ client.at \in {"idle", "done", "error"} /\ ~sending /\ turn < MaxTurns
  /\ turn' = turn + 1 /\ sending' = TRUE
  /\ UNCHANGED <<agentVars, failed, current, ticket, relay, wire, client, received, faults, gaveUp>>

\* The call is answered, which it is once the Agent has the turn: start, then
\* connect. The retries are counted anew, the cursor stays.
Start ==
  /\ sending /\ turn \in accepted
  /\ sending' = FALSE /\ current' = turn
  /\ client' = [client EXCEPT !.at = "ticketing", !.retries = 0]
  /\ UNCHANGED <<agentVars, turn, failed, ticket, relay, wire, received, faults, gaveUp>>

\* The call ends in an error: the bubble fails and the hook is not started,
\* though the Agent may have the turn, or get it later.
SendFails ==
  /\ sending /\ current # 0 /\ faults < MaxFaults
  /\ sending' = FALSE /\ failed' = failed \cup {turn} /\ faults' = faults + 1
  /\ UNCHANGED <<agentVars, turn, current, ticket, relay, wire, client, received, gaveUp>>

GetTicket ==
  /\ client.at = "ticketing"
  /\ ticket' = TRUE
  /\ client' = [client EXCEPT !.at = "opening"]
  /\ UNCHANGED <<agentVars, messageVars, relay, wire, received, faults, gaveUp>>

ResumePoint_FromNow == Len(stream)

ResumePoint_FromStart == 0

ResumePoint_Inclusive == IF client.cursor = 0 THEN 0 ELSE client.cursor - 1

\* last_event_id, or the start of the stream.
ResumePoint == client.cursor

\* connect_sse: the ticket is taken out of Redis, the relay starts.
Connect ==
  /\ client.at = "opening" /\ ticket
  /\ ticket' = FALSE
  /\ relay' = [up |-> TRUE, last |-> ResumePoint]
  /\ client' = [client EXCEPT !.at = "streaming", !.retries = 0]
  /\ UNCHANGED <<agentVars, messageVars, wire, received, faults, gaveUp>>

Enqueue_WaitForSentinel(c, id) ==
  /\ received' = Append(received, id)
  /\ client' = [c EXCEPT !.cursor = id]

Enqueue(c, id) ==
  /\ received' = Append(received, id)
  /\ client' = [c EXCEPT !.cursor = id,
                              !.at = IF stream[id].kind = "done" THEN "done" ELSE "streaming"]

\* scheduleReconnect
Reconnect(c) ==
  IF c.retries >= MaxRetries
  THEN client' = [c EXCEPT !.at = "error"] /\ gaveUp' = TRUE
  ELSE /\ client' = [c EXCEPT !.at = "waiting", !.retries = @ + 1]
       /\ UNCHANGED gaveUp

\* handleNamed: a done event, with or without an event in it, closes the
\* EventSource. Any other event is only enqueued; but an event named "error" is
\* also what es.onerror listens to, which drops the connection and reconnects.
Receive ==
  /\ client.at = "streaming" /\ wire # <<>>
  /\ LET id == Head(wire)
     IN \/ /\ id = Sentinel
           /\ client' = [client EXCEPT !.at = "done"]
           /\ UNCHANGED <<received, gaveUp>>
        \/ /\ id # Sentinel /\ stream[id].kind # "error"
           /\ Enqueue(client, id)
           /\ UNCHANGED gaveUp
        \/ /\ id # Sentinel /\ stream[id].kind = "error"
           /\ received' = Append(received, id)
           /\ Reconnect([client EXCEPT !.cursor = id])
  /\ IF client'.at = "streaming"
     THEN wire' = Tail(wire) /\ UNCHANGED relay
     ELSE relay' = Down /\ wire' = <<>>
  /\ UNCHANGED <<agentVars, messageVars, ticket, faults>>

\* The timer of scheduleReconnect.
Retry ==
  /\ client.at = "waiting"
  /\ client' = [client EXCEPT !.at = "ticketing"]
  /\ UNCHANGED <<agentVars, messageVars, ticket, relay, wire, received, faults, gaveUp>>

\* No ticket is issued, the one issued has run out, or the connection breaks
\* (the network, the proxy, a Backend that restarts) with what is in flight.
Fault ==
  /\ client.at \in {"ticketing", "opening", "streaming"} /\ faults < MaxFaults
  /\ faults' = faults + 1
  /\ ticket' = FALSE /\ relay' = Down /\ wire' = <<>>
  /\ Reconnect(client)
  /\ UNCHANGED <<agentVars, messageVars, received>>

-----------------------------------------------------------------------------
Next ==
  \/ \E t \in 1..turn : Accept(t) \/ PublishAgain(t) \/ \E kind \in Kinds : Publish(t, kind)
  \/ RelayNext
  \/ SendMessage \/ Start \/ SendFails \/ GetTicket \/ Connect \/ Receive \/ Retry
  \/ Fault

\* The event loops of the Backend and of the browser run what is ready, timers
\* fire, what is not lost arrives, and a call ends in one way or the other.
\* Nothing is assumed of the user, of the Agent or of the faults.
Fairness ==
  /\ WF_vars(RelayNext) /\ WF_vars(Receive)
  /\ WF_vars(Start \/ SendFails) /\ WF_vars(GetTicket) /\ WF_vars(Connect) /\ WF_vars(Retry)

Spec == Init /\ [][Next]_vars /\ Fairness

-----------------------------------------------------------------------------
(* Properties *)

\* Across lost connections and from turn to turn, the events the browser has
\* are the beginning of the stream: none is missing, repeated or out of order.
ShownInOrder == received = [i \in 1..client.cursor |-> i]

EndOf(t) == {i \in DOMAIN stream : stream[i].turn = t /\ stream[i].kind \in Terminal}

Seen(t) == \E i \in EndOf(t) : i <= client.cursor

\* Turns the Agent has taken, while the browser believes they were not sent.
Orphans == accepted \cap failed

\* When the hook says that the turn it was started for is done, the terminal
\* event of this turn is shown, however often the connection was lost; unless a
\* terminal event was published twice, an earlier turn of the session was given
\* up, or the Agent has a turn whose call failed (see the README).
DoneMeansThisTurnEnded ==
  client.at = "done" /\ repeats = 0 /\ ~gaveUp /\ Orphans = {} => Seen(current)

\* The end of a turn that was sent reaches the browser, unless the hook runs out
\* of retries, or one of the other two cases.
EndIsSeen ==
  \A t \in 1..MaxTurns :
    (turn = t /\ EndOf(t) # {}) ~> (Seen(t) \/ gaveUp \/ repeats > 0 \/ Orphans # {})

\* When all turns have ended and the last event is a done, the hook does not stay
\* running for ever. After an error it does, and after a blocked one when the
\* connection breaks before the sentinel (see the README).
DoneComesToRest ==
  (stream # <<>> /\ running = {} /\ stream[Len(stream)].kind = "done")
    ~> (client.at \in {"done", "error"} \/ running # {})
=============================================================================
