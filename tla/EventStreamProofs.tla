-------------------------- MODULE EventStreamProofs --------------------------
(***************************************************************************)
(* For any number of turns, events, retries, faults and repeats: what the  *)
(* browser shows is the beginning of the stream, and the hook says that a  *)
(* turn is done only when it has shown its end.                            *)
(*                                                                         *)
(* The first holds because what is in flight continues what is shown, and  *)
(* last_id what is in flight. The second is an argument over the turns: a  *)
(* turn starts when the ones before have been seen to their end, or the    *)
(* Agent never had them, and a turn ends once; so the next end beyond the  *)
(* cursor is that of the current turn.                                     *)
(***************************************************************************)
EXTENDS EventStream, SequenceTheorems, TLAPS

Points == {"idle", "ticketing", "opening", "streaming", "waiting", "done", "error"}

\* Every value keeps its type; the Agent works on turns that were sent.
TypeOK ==
  /\ stream \in Seq([turn : Nat, kind : Kinds])
  /\ turn \in Nat /\ accepted \subseteq 1..turn /\ running \subseteq accepted
  /\ sending \in BOOLEAN /\ failed \subseteq 1..turn /\ current \in 0..turn
  /\ ticket \in BOOLEAN
  /\ relay \in [up : BOOLEAN, last : Nat]
  /\ wire \in Seq(Nat)
  /\ client \in [at : Points, cursor : Nat, retries : Nat]
  /\ received \in Seq(Nat)
  /\ faults \in Nat /\ repeats \in Nat /\ gaveUp \in BOOLEAN

\* Nothing is in flight but to a hook that listens.
Listening == client.at # "streaming" => ~relay.up /\ wire = <<>>

\* The ids in flight continue what is shown, up to the last_id of the relay; a
\* sentinel is the last thing the relay sends.
Continued ==
  /\ client.cursor <= Len(stream)
  /\ \A i \in 1..Len(wire) :
       IF wire[i] = Sentinel THEN i = Len(wire) /\ ~relay.up
       ELSE wire[i] = client.cursor + i /\ wire[i] <= Len(stream)
  /\ relay.up => relay.last = client.cursor + Len(wire) /\ relay.last <= Len(stream)

IsEnd(i) == stream[i].kind \in Terminal

\* No terminal event has been published again: a turn ends once, and then the
\* Agent is through with it.
EndsOnce ==
  repeats = 0 =>
    /\ \A i \in DOMAIN stream : IsEnd(i) => stream[i].turn \notin running
    /\ \A i, j \in DOMAIN stream :
         IsEnd(i) /\ IsEnd(j) /\ stream[i].turn = stream[j].turn => i = j

EventsOfTurns == \A i \in DOMAIN stream : stream[i].turn \in accepted

Quiet == repeats = 0 /\ ~gaveUp /\ Orphans = {}

\* The turn whose call is under way, and which the hook does not know of.
BeingSent(t) == sending /\ t = turn

\* The user goes on when the turn before is over; a turn is accepted, failed or
\* being sent; a sentinel follows the end of the current turn.
TurnByTurn ==
  /\ client.at = "idle" => current = 0
  /\ client.at = "error" => gaveUp
  /\ sending => client.at \in {"idle", "done", "error"}
  /\ \A t \in 1..turn : t \in accepted \/ t \in failed \/ BeingSent(t)
  /\ Quiet =>
       /\ \A t \in accepted : t = current \/ BeingSent(t) \/ Seen(t)
       /\ client.at = "done" => Seen(current)
       /\ \A i \in 1..Len(wire) : wire[i] = Sentinel =>
            \E j \in EndOf(current) : j < client.cursor + i

\* The inductive invariant.
Inv ==
  /\ TypeOK /\ ShownInOrder /\ Listening /\ Continued
  /\ EventsOfTurns /\ EndsOnce /\ TurnByTurn

-----------------------------------------------------------------------------
(* Sequences *)

LEMMA Counting ==
  ASSUME NEW n \in Nat
  PROVE  /\ [i \in 1..n |-> i] \in Seq(Nat)
         /\ Append([i \in 1..n |-> i], n + 1) = [i \in 1..(n + 1) |-> i]
<1> DEFINE up(m) == [i \in 1..m |-> i]
<1>1. \A m \in Nat : up(m) \in Seq(Nat) /\ Len(up(m)) = m
  <2> SUFFICES ASSUME NEW m \in Nat
               PROVE  up(m) \in Seq(Nat) /\ Len(up(m)) = m
    OBVIOUS
  <2>1. up(m) \in [1..m -> Nat]
    OBVIOUS
  <2>2. up(m) \in Seq(Nat)
    BY <2>1, SeqDef
  <2> QED
    BY <2>1, <2>2, LenProperties
<1>2. /\ Append(up(n), n + 1) \in Seq(Nat) /\ Len(Append(up(n), n + 1)) = n + 1
      /\ \A i \in 1..(n + 1) : Append(up(n), n + 1)[i] = i
  BY <1>1
<1>3. n + 1 \in Nat /\ \A i \in 1..(n + 1) : up(n + 1)[i] = i
  OBVIOUS
<1> HIDE DEF up
<1>4. Append(up(n), n + 1) = up(n + 1)
  BY <1>1, <1>2, <1>3, SeqEqual
<1> QED
  BY <1>1, <1>4 DEF up

LEMMA Appended ==
  ASSUME NEW S, NEW s \in Seq(S), NEW e \in S
  PROVE  /\ Append(s, e) \in Seq(S) /\ Len(Append(s, e)) = Len(s) + 1
         /\ DOMAIN s = 1..Len(s) /\ DOMAIN Append(s, e) = 1..(Len(s) + 1) /\ Len(s) \in Nat
         /\ \A i \in 1..Len(s) : Append(s, e)[i] = s[i]
         /\ Append(s, e)[Len(s) + 1] = e
  OBVIOUS

\* What the types say of the values used below.
LEMMA Types ==
  ASSUME TypeOK
  PROVE  /\ client \in [at : Points, cursor : Nat, retries : Nat] /\ client.cursor \in Nat
         /\ relay \in [up : BOOLEAN, last : Nat] /\ relay.last \in Nat
         /\ wire \in Seq(Nat) /\ Len(wire) \in Nat /\ (\A i \in 1..Len(wire) : wire[i] \in Nat)
         /\ Len(stream) \in Nat /\ DOMAIN stream = 1..Len(stream)
         /\ turn \in Nat /\ faults \in Nat /\ repeats \in Nat
         /\ ticket \in BOOLEAN /\ gaveUp \in BOOLEAN
         /\ \A t : \A j \in EndOf(t) : j \in Nat
<1>1. Len(stream) \in Nat /\ DOMAIN stream = 1..Len(stream)
  BY DEF TypeOK
<1>2. \A t : \A j \in EndOf(t) : j \in Nat
  BY <1>1 DEF EndOf
<1>3. wire \in Seq(Nat) /\ Len(wire) \in Nat /\ \A i \in 1..Len(wire) : wire[i] \in Nat
  BY DEF TypeOK
<1> QED
  BY <1>1, <1>2, <1>3 DEF TypeOK

-----------------------------------------------------------------------------
(* Initially *)

LEMMA InitInv == Init => Inv
<1> SUFFICES ASSUME Init
             PROVE  Inv
  OBVIOUS
<1>1. TypeOK
  <2>1. /\ stream \in Seq([turn : Nat, kind : Kinds])
        /\ wire \in Seq(Nat) /\ received \in Seq(Nat)
    BY EmptySeq DEF Init
  <2>2. /\ relay \in [up : BOOLEAN, last : Nat]
        /\ client \in [at : Points, cursor : Nat, retries : Nat]
    BY DEF Init, Down, Points
  <2>3. /\ turn \in Nat /\ accepted \subseteq 1..turn /\ running \subseteq accepted
        /\ sending \in BOOLEAN /\ failed \subseteq 1..turn /\ current \in 0..turn
        /\ ticket \in BOOLEAN /\ faults \in Nat /\ repeats \in Nat /\ gaveUp \in BOOLEAN
    <3>1. turn = 0 /\ current = 0 /\ accepted = {} /\ running = {} /\ failed = {}
      BY DEF Init
    <3>2. faults = 0 /\ repeats = 0
      BY DEF Init
    <3>3. sending = FALSE /\ ticket = FALSE /\ gaveUp = FALSE
      BY DEF Init
    <3>4. sending \in BOOLEAN /\ ticket \in BOOLEAN /\ gaveUp \in BOOLEAN
      BY <3>3, Zenon
    <3>5. turn \in Nat /\ current \in 0..turn /\ faults \in Nat /\ repeats \in Nat
      BY <3>1, <3>2
    <3>6. accepted \subseteq 1..turn /\ running \subseteq accepted /\ failed \subseteq 1..turn
      BY <3>1, Zenon
    <3> QED
      BY <3>4, <3>5, <3>6
  <2> QED
    BY <2>1, <2>2, <2>3 DEF TypeOK
<1>2. ShownInOrder
  <2>1. 1..client.cursor = {}
    BY DEF Init
  <2>2. [i \in {} |-> i] = <<>>
    OBVIOUS
  <2> QED
    BY <2>1, <2>2 DEF ShownInOrder, Init
<1>3. Listening /\ Continued
  BY DEF Init, Listening, Continued, Down
<1>4. EventsOfTurns /\ EndsOnce /\ TurnByTurn
  BY DEF Init, EventsOfTurns, EndsOnce, TurnByTurn, BeingSent
<1> QED
  BY <1>1, <1>2, <1>3, <1>4 DEF Inv

\* While the hook listens, the end of a turn beyond the cursor is that of the
\* current one.
LEMMA NextEnd ==
  ASSUME Inv, Quiet, client.at = "streaming",
         NEW i \in DOMAIN stream, i > client.cursor, IsEnd(i)
  PROVE  i \in EndOf(current)
<1>1. stream[i].turn \in accepted /\ ~BeingSent(stream[i].turn)
  BY DEF Inv, EventsOfTurns, TurnByTurn, BeingSent
<1>2. CASE stream[i].turn # current
  <2>1. PICK j \in EndOf(stream[i].turn) : j <= client.cursor
    BY <1>1, <1>2 DEF Inv, TurnByTurn, Seen
  <2>2. j = i
    BY <2>1 DEF Inv, EndsOnce, Quiet, EndOf, IsEnd
  <2> QED
    BY <2>1, <2>2 DEF Inv, TypeOK
<1> QED
  BY <1>2 DEF EndOf, IsEnd

-----------------------------------------------------------------------------
(* The publishers *)

\* One more event of a turn that the Agent has, after all others.
LEMMA StreamGrows ==
  ASSUME Inv, NEW t \in accepted, NEW kind \in Kinds,
         stream' = Append(stream, Event(t, kind)),
         running' \subseteq running, repeats' \in Nat, repeats' >= repeats,
         repeats' = 0 =>
           t \in running /\ (kind \in Terminal => t \notin running'),
         UNCHANGED <<accepted, messageVars, ticket, relay, wire, client, received, faults, gaveUp>>
  PROVE  Inv'
<1>0. UNCHANGED <<turn, sending, failed, current>>
  BY DEF messageVars
<1> DEFINE e == Event(t, kind)
           n == Len(stream)
<1>1. t \in Nat /\ e \in [turn : Nat, kind : Kinds] /\ e.turn = t /\ e.kind = kind
  BY DEF Inv, TypeOK, Event
<1>2. /\ stream' \in Seq([turn : Nat, kind : Kinds]) /\ n \in Nat
      /\ Len(stream') = n + 1 /\ DOMAIN stream = 1..n /\ DOMAIN stream' = 1..(n + 1)
      /\ \A i \in 1..n : stream'[i] = stream[i]
      /\ stream'[n + 1] = e
  BY <1>1, Appended DEF Inv, TypeOK
<1> HIDE DEF e, n
<1>3. TypeOK'
  BY <1>0, <1>2 DEF Inv, TypeOK
<1>4. ShownInOrder' /\ Listening'
  BY DEF Inv, ShownInOrder, Listening
<1>5. Continued'
  <2>1. client.cursor <= Len(stream') /\ (relay.up => relay.last <= Len(stream'))
    BY <1>2 DEF Inv, TypeOK, Continued, n
  <2>2. \A i \in 1..Len(wire) : wire[i] # Sentinel => wire[i] <= Len(stream')
    <3> SUFFICES ASSUME NEW i \in 1..Len(wire), wire[i] # Sentinel
                 PROVE  wire[i] <= Len(stream')
      OBVIOUS
    <3>1. wire[i] \in Nat /\ wire[i] <= n
      BY Types DEF Inv, Continued, n
    <3> QED
      BY <1>2, <3>1
  <2> QED
    BY <2>1, <2>2 DEF Inv, Continued
<1>6. EventsOfTurns'
  BY <1>1, <1>2 DEF Inv, EventsOfTurns
<1>7. EndsOnce'
  <2> SUFFICES ASSUME repeats' = 0
               PROVE  /\ \A i \in DOMAIN stream' :
                           stream'[i].kind \in Terminal => stream'[i].turn \notin running'
                      /\ \A i, j \in DOMAIN stream' :
                           /\ stream'[i].kind \in Terminal /\ stream'[j].kind \in Terminal
                           /\ stream'[i].turn = stream'[j].turn
                           => i = j
    BY DEF EndsOnce, IsEnd
  <2>1. repeats = 0
    BY DEF Inv, TypeOK
  <2>2. /\ \A i \in 1..n : stream[i].kind \in Terminal => stream[i].turn \notin running
        /\ \A i, j \in 1..n :
             /\ stream[i].kind \in Terminal /\ stream[j].kind \in Terminal
             /\ stream[i].turn = stream[j].turn
             => i = j
    BY <1>2, <2>1 DEF Inv, EndsOnce, IsEnd
  <2>3. \A i \in 1..n : stream[i].kind \in Terminal => stream[i].turn # t
    BY <2>2
  <2>4. \A i \in DOMAIN stream' : i \in 1..n \/ i = n + 1
    BY <1>2
  <2> QED
    BY <1>1, <1>2, <2>2, <2>3, <2>4
<1>8. TurnByTurn'
  <2>1. \A u \in Nat : EndOf(u) \subseteq EndOf(u)'
    BY <1>2 DEF EndOf
  <2>2. Quiet' => Quiet
    BY <1>0 DEF Quiet, Orphans, Inv, TypeOK
  <2>3. current \in Nat /\ accepted \subseteq Nat
    BY DEF Inv, TypeOK
  <2> QED
    BY <1>0, <2>1, <2>2, <2>3 DEF Inv, TurnByTurn, Seen, BeingSent
<1> QED
  BY <1>3, <1>4, <1>5, <1>6, <1>7, <1>8 DEF Inv

LEMMA InvPublish ==
  ASSUME Inv, NEW t \in 1..turn, NEW kind \in Kinds, Publish(t, kind)
  PROVE  Inv'
<1>1. /\ t \in running /\ stream' = Append(stream, Event(t, kind))
      /\ running' = IF kind = "progress" THEN running ELSE running \ {t}
      /\ UNCHANGED <<accepted, repeats, messageVars, ticket, relay, wire, client, received,
                     faults, gaveUp>>
  BY DEF Publish
<1>2. t \in accepted /\ repeats \in Nat
  BY <1>1 DEF Inv, TypeOK
<1>3. repeats' \in Nat /\ repeats' >= repeats
  BY <1>1, <1>2
<1>4. running' \subseteq running
  BY <1>1
<1>5. kind \in Terminal => t \notin running'
  BY <1>1 DEF Terminal
<1>6. UNCHANGED <<accepted, messageVars, ticket, relay, wire, client, received, faults, gaveUp>>
  BY <1>1
<1> QED
  BY <1>1, <1>2, <1>3, <1>4, <1>5, <1>6, StreamGrows, Zenon

LEMMA InvPublishAgain ==
  ASSUME Inv, NEW t \in 1..turn, PublishAgain(t)
  PROVE  Inv'
<1>1. /\ t \in accepted /\ t \notin running /\ stream' = Append(stream, Event(t, "done"))
      /\ repeats' = repeats + 1 /\ running' = running
      /\ UNCHANGED <<accepted, messageVars, ticket, relay, wire, client, received, faults, gaveUp>>
  BY DEF PublishAgain
<1>2. repeats \in Nat
  BY DEF Inv, TypeOK
<1>3. repeats' \in Nat /\ repeats' >= repeats /\ repeats' # 0
  BY <1>1, <1>2
<1>4. "done" \in Kinds
  BY DEF Kinds
<1>5. running' \subseteq running
  BY <1>1
<1> QED
  BY <1>1, <1>3, <1>4, <1>5, StreamGrows, Zenon

\* A turn that the Agent takes is being sent, or its call has failed.
LEMMA InvAccept ==
  ASSUME Inv, NEW t \in 1..turn, Accept(t)
  PROVE  Inv'
<1>1. /\ t \notin accepted /\ accepted' = accepted \cup {t} /\ running' = running \cup {t}
      /\ UNCHANGED <<stream, repeats, turn, sending, failed, current, ticket, relay, wire, client,
                     received, faults, gaveUp>>
  BY DEF Accept, messageVars
<1>2. TypeOK' /\ ShownInOrder' /\ Listening' /\ Continued' /\ EventsOfTurns'
  BY <1>1 DEF Inv, TypeOK, ShownInOrder, Listening, Continued, EventsOfTurns
<1>3. EndsOnce'
  BY <1>1 DEF Inv, EndsOnce, EventsOfTurns, IsEnd
<1>4. TurnByTurn'
  <2>1. Quiet' => Quiet /\ BeingSent(t)
    BY <1>1 DEF Quiet, Orphans, Inv, TurnByTurn
  <2> QED
    BY <1>1, <2>1 DEF Inv, TurnByTurn, BeingSent, Seen, EndOf
<1> QED
  BY <1>2, <1>3, <1>4 DEF Inv

-----------------------------------------------------------------------------
(* The relay *)

\* What the relay has sent after a step that sends one id, or an id and the
\* sentinel.
LEMMA Sent ==
  ASSUME NEW w \in Seq(Nat), NEW more \in Seq(Nat)
  PROVE  /\ w \o more \in Seq(Nat) /\ Len(w \o more) = Len(w) + Len(more)
         /\ \A i \in 1..Len(w) : (w \o more)[i] = w[i]
         /\ Len(more) >= 1 => (w \o more)[Len(w) + 1] = more[1]
         /\ Len(more) >= 2 => (w \o more)[Len(w) + 2] = more[2]
<1>1. Len(w) \in Nat /\ Len(more) \in Nat
  OBVIOUS
<1>2. /\ w \o more \in Seq(Nat) /\ Len(w \o more) = Len(w) + Len(more)
      /\ \A i \in 1..(Len(w) + Len(more)) :
           (w \o more)[i] = IF i <= Len(w) THEN w[i] ELSE more[i - Len(w)]
  BY ConcatProperties
<1> QED
  BY <1>1, <1>2

LEMMA InvRelayNext ==
  ASSUME Inv, RelayNext
  PROVE  Inv'
<1> DEFINE id == relay.last + 1
           over == stream[id].kind \in Terminal
           n == Len(wire)
<1>1. /\ relay.up /\ relay.last < Len(stream)
      /\ wire' = wire \o (IF over THEN <<id, Sentinel>> ELSE <<id>>)
      /\ relay' = IF over THEN Down ELSE [relay EXCEPT !.last = id]
      /\ UNCHANGED <<stream, accepted, running, repeats, turn, sending, failed, current, ticket,
                     client, received, faults, gaveUp>>
  BY DEF RelayNext, agentVars, messageVars
<1>2. /\ wire \in Seq(Nat) /\ relay \in [up : BOOLEAN, last : Nat] /\ over \in BOOLEAN
      /\ DOMAIN stream = 1..Len(stream)
  BY Types DEF Inv
<1>3. n \in Nat /\ relay.last \in Nat /\ id \in Nat /\ client.cursor \in Nat /\ Len(stream) \in Nat
  BY Types DEF Inv
<1>4. relay.last = client.cursor + n
  BY <1>1 DEF Inv, Continued
<1>5. id = client.cursor + n + 1 /\ id <= Len(stream) /\ id > client.cursor /\ id >= 1
  BY <1>1, <1>3, <1>4
<1>6. /\ wire' \in Seq(Nat)
      /\ over => Len(wire') = n + 2 /\ wire'[n + 2] = Sentinel
      /\ ~over => Len(wire') = n + 1
      /\ wire'[n + 1] = id /\ \A i \in 1..n : wire'[i] = wire[i]
  <2> DEFINE more == IF over THEN <<id, Sentinel>> ELSE <<id>>
  <2>1. /\ more \in Seq(Nat) /\ more[1] = id /\ Len(more) >= 1
        /\ over => Len(more) = 2 /\ more[2] = Sentinel
        /\ ~over => Len(more) = 1
    <3>1. CASE over
      BY <1>3, <3>1 DEF Sentinel
    <3>2. CASE ~over
      BY <1>3, <3>2
    <3> QED
      BY <3>1, <3>2
  <2>2. wire' = wire \o more
    BY <1>1
  <2> HIDE DEF more
  <2>3. /\ wire' \in Seq(Nat) /\ Len(wire') = n + Len(more)
        /\ \A i \in 1..n : wire'[i] = wire[i]
        /\ Len(more) >= 1 => wire'[n + 1] = more[1]
        /\ Len(more) >= 2 => wire'[n + 2] = more[2]
    <3>1. wire \in Seq(Nat) /\ more \in Seq(Nat)
      BY <1>2, <2>1
    <3> QED
      BY <2>2, <3>1, Sent
  <2>4. wire'[n + 1] = id
    <3>1. wire'[n + 1] = more[1]
      BY <2>1, <2>3
    <3> QED
      BY <2>1, <3>1
  <2>5. ASSUME over PROVE Len(wire') = n + 2 /\ wire'[n + 2] = Sentinel
    <3>1. Len(more) = 2 /\ more[2] = Sentinel
      BY <2>1, <2>5
    <3>2. wire'[n + 2] = more[2]
      BY <2>3, <3>1
    <3> QED
      BY <2>3, <3>1, <3>2
  <2>6. ASSUME ~over PROVE Len(wire') = n + 1
    BY <2>1, <2>3, <2>6
  <2> QED
    BY <2>3, <2>4, <2>5, <2>6
<1>7. relay' \in [up : BOOLEAN, last : Nat] /\ (relay'.up => ~over /\ relay'.last = id)
      /\ (over => ~relay'.up)
  BY <1>1, <1>2, <1>3 DEF Down
<1>8. id \in DOMAIN stream
  BY <1>2, <1>3, <1>5
<1>9. \A i \in 1..n : wire[i] # Sentinel /\ wire[i] = client.cursor + i /\ wire[i] <= Len(stream)
  BY <1>1 DEF Inv, Continued, n
<1>10. \A t : id \in EndOf(t) <=> over /\ stream[id].turn = t
  BY <1>8 DEF EndOf
<1>11. Quiet /\ over => id \in EndOf(current)
  <2>1. client.at = "streaming"
    BY <1>1 DEF Inv, Listening
  <2> QED
    BY <1>5, <1>8, <2>1, NextEnd DEF IsEnd
<1> HIDE DEF id, over, n
<1>12. TypeOK'
  BY <1>1, <1>6, <1>7 DEF Inv, TypeOK
<1>13. client.at = "streaming"
  BY <1>1 DEF Inv, Listening
<1>14. ASSUME NEW i \in 1..Len(wire')
       PROVE  i \in 1..n \/ i = n + 1 \/ (over /\ i = n + 2)
  <2>1. CASE over
    <3>1. Len(wire') = n + 2
      BY <1>6, <2>1
    <3> QED
      BY <1>3, <2>1, <3>1
  <2>2. CASE ~over
    <3>1. Len(wire') = n + 1
      BY <1>6, <2>2
    <3> QED
      BY <1>3, <3>1
  <2> QED
    BY <2>1, <2>2
<1>15. Continued'
  <2>1. id # Sentinel
    BY <1>5 DEF Sentinel
  <2>2. ASSUME NEW i \in 1..Len(wire')
        PROVE  IF wire'[i] = Sentinel THEN i = Len(wire') /\ ~relay'.up
               ELSE wire'[i] = client.cursor + i /\ wire'[i] <= Len(stream)
    <3>1. CASE i \in 1..n
      <4>1. wire'[i] = wire[i] /\ wire[i] # Sentinel /\ wire[i] = client.cursor + i
            /\ wire[i] <= Len(stream)
        BY <1>6, <1>9, <3>1
      <4> QED
        BY <4>1
    <3>2. CASE i = n + 1
      <4>1. wire'[i] = id /\ id = client.cursor + i
        BY <1>3, <1>5, <1>6, <3>2
      <4> QED
        BY <1>5, <2>1, <4>1
    <3>3. CASE over /\ i = n + 2
      <4>1. wire'[i] = Sentinel /\ i = Len(wire') /\ ~relay'.up
        BY <1>6, <1>7, <3>3
      <4> QED
        BY <4>1
    <3> QED
      BY <1>14, <3>1, <3>2, <3>3
  <2>3. ASSUME relay'.up
        PROVE  relay'.last = client.cursor + Len(wire') /\ relay'.last <= Len(stream)
    <3>1. relay'.last = id /\ Len(wire') = n + 1
      BY <1>6, <1>7, <2>3
    <3> QED
      BY <1>3, <1>5, <3>1
  <2> QED
    BY <1>1, <2>2, <2>3 DEF Inv, Continued
<1>16. TurnByTurn'
  <2>1. ASSUME Quiet, NEW i \in 1..Len(wire'), wire'[i] = Sentinel
        PROVE  \E j \in EndOf(current) : j < client.cursor + i
    <3>1. i \notin 1..n
      BY <1>6, <1>9, <2>1
    <3>2. i # n + 1
      BY <1>5, <1>6, <2>1 DEF Sentinel
    <3>3. over /\ i = n + 2
      BY <1>14, <2>1, <3>1, <3>2
    <3>4. id \in EndOf(current) /\ id < client.cursor + i
      BY <1>3, <1>5, <1>11, <2>1, <3>3
    <3> QED
      BY <3>4
  <2> QED
    BY <1>1, <2>1 DEF Inv, TurnByTurn, Quiet, Orphans, BeingSent, Seen, EndOf
<1> QED
  BY <1>1, <1>12, <1>13, <1>15, <1>16
  DEF Inv, ShownInOrder, Listening, EventsOfTurns, EndsOnce, IsEnd

-----------------------------------------------------------------------------
(* The browser *)

\* A step of the hook between two connections.
LEMMA HookMoves ==
  ASSUME Inv, client.at \in {"ticketing", "waiting"}, NEW point \in {"ticketing", "opening"},
         NEW n \in Nat, client' = [client EXCEPT !.at = point, !.retries = n], ticket' \in BOOLEAN,
         UNCHANGED <<agentVars, messageVars, relay, wire, received, faults, gaveUp>>
  PROVE  Inv'
<1>0. UNCHANGED <<stream, accepted, running, repeats, turn, sending, failed, current>>
  BY DEF agentVars, messageVars
<1>1. /\ client' \in [at : Points, cursor : Nat, retries : Nat]
      /\ client'.at = point /\ client'.cursor = client.cursor
  BY DEF Inv, TypeOK, Points
<1>2. TypeOK' /\ ShownInOrder' /\ EventsOfTurns' /\ EndsOnce'
  BY <1>0, <1>1 DEF Inv, TypeOK, ShownInOrder, EventsOfTurns, EndsOnce, IsEnd
<1>3. Listening' /\ Continued'
  BY <1>0, <1>1 DEF Inv, Listening, Continued
<1>4. TurnByTurn'
  BY <1>0, <1>1 DEF Inv, TurnByTurn, Quiet, Orphans, BeingSent, Seen, EndOf
<1> QED
  BY <1>2, <1>3, <1>4 DEF Inv

LEMMA InvHook ==
  ASSUME Inv, GetTicket \/ Retry
  PROVE  Inv'
<1>1. client \in [at : Points, cursor : Nat, retries : Nat] /\ ticket \in BOOLEAN
  BY DEF Inv, TypeOK
<1>2. CASE GetTicket
  <2>1. client' = [client EXCEPT !.at = "opening", !.retries = client.retries]
    BY <1>1, <1>2 DEF GetTicket
  <2> QED
    BY <1>1, <1>2, <2>1, HookMoves DEF GetTicket
<1>3. CASE Retry
  <2>1. client' = [client EXCEPT !.at = "ticketing", !.retries = client.retries]
    BY <1>1, <1>3 DEF Retry
  <2> QED
    BY <1>1, <1>3, <2>1, HookMoves DEF Retry
<1> QED
  BY <1>2, <1>3

\* A message is sent, or its call fails: the hook knows nothing of it.
LEMMA InvSend ==
  ASSUME Inv, SendMessage \/ SendFails
  PROVE  Inv'
<1>1. /\ UNCHANGED <<stream, accepted, running, repeats, current, ticket, relay, wire, client,
                     received, gaveUp>>
      /\ turn \in Nat /\ turn' \in {turn, turn + 1} /\ faults' \in Nat
  BY DEF SendMessage, SendFails, agentVars, Inv, TypeOK
<1>2. TypeOK'
  <2>1. 1..turn \subseteq 1..turn' /\ 0..turn \subseteq 0..turn'
    BY <1>1
  <2>2. sending' \in BOOLEAN /\ failed' \subseteq 1..turn'
    <3>1. CASE SendMessage
      BY <2>1, <3>1 DEF SendMessage, Inv, TypeOK
    <3>2. CASE SendFails
      <4>1. /\ current # 0 /\ sending' = FALSE /\ failed' = failed \cup {turn} /\ turn' = turn
        BY <3>2 DEF SendFails
      <4>2. current \in 0..turn /\ failed \subseteq 1..turn
        BY DEF Inv, TypeOK
      <4>3. turn \in 1..turn
        BY <1>1, <4>1, <4>2
      <4>4. sending' \in BOOLEAN
        BY <4>1, Zenon
      <4>5. failed' \subseteq 1..turn'
        BY <4>1, <4>2, <4>3, Zenon
      <4> QED
        BY <4>4, <4>5
    <3> QED
      BY <3>1, <3>2
  <2> QED
    BY <1>1, <2>1, <2>2 DEF Inv, TypeOK
<1>3. ShownInOrder' /\ Listening' /\ Continued' /\ EventsOfTurns' /\ EndsOnce'
  BY <1>1 DEF Inv, ShownInOrder, Listening, Continued, EventsOfTurns, EndsOnce, IsEnd
<1>4. TurnByTurn'
  <2>1. CASE SendMessage
    <3>1. /\ client.at \in {"idle", "done", "error"} /\ ~sending /\ sending' = TRUE
          /\ turn' = turn + 1 /\ UNCHANGED failed
      BY <2>1 DEF SendMessage
    <3>2. \A t \in 1..turn' : t \in 1..turn \/ t = turn'
      BY <1>1, <3>1
    <3> QED
      BY <1>1, <3>1, <3>2 DEF Inv, TurnByTurn, BeingSent, Quiet, Orphans, Seen, EndOf
  <2>2. CASE SendFails
    <3>1. sending /\ sending' = FALSE /\ failed' = failed \cup {turn} /\ UNCHANGED turn
      BY <2>2 DEF SendFails
    <3>2. Quiet' => Quiet /\ turn \notin accepted
      BY <1>1, <3>1 DEF Quiet, Orphans
    <3> QED
      BY <1>1, <3>1, <3>2 DEF Inv, TurnByTurn, BeingSent, Seen, EndOf
  <2> QED
    BY <2>1, <2>2
<1> QED
  BY <1>2, <1>3, <1>4 DEF Inv

\* The hook is started for a turn when the one before has been seen.
LEMMA InvStart ==
  ASSUME Inv, Start
  PROVE  Inv'
<1>1. /\ sending /\ turn \in accepted /\ sending' = FALSE /\ current' = turn
      /\ client' = [client EXCEPT !.at = "ticketing", !.retries = 0]
      /\ UNCHANGED <<stream, accepted, running, repeats, turn, failed, ticket, relay, wire,
                     received, faults, gaveUp>>
  BY DEF Start, agentVars
<1>2. /\ client' \in [at : Points, cursor : Nat, retries : Nat]
      /\ client'.at = "ticketing" /\ client'.cursor = client.cursor
      /\ turn \in Nat /\ accepted \subseteq 1..turn
  BY <1>1 DEF Inv, TypeOK, Points
<1>3. client.at \in {"idle", "done", "error"} /\ wire = <<>> /\ ~relay.up
  BY <1>1 DEF Inv, TurnByTurn, Listening
<1>4. TypeOK'
  <2>1. turn \in 0..turn
    BY <1>2
  <2> QED
    BY <1>1, <1>2, <2>1 DEF Inv, TypeOK
<1>5. ShownInOrder' /\ Listening' /\ Continued' /\ EventsOfTurns' /\ EndsOnce'
  BY <1>1, <1>2, <1>3 DEF Inv, ShownInOrder, Listening, Continued, EventsOfTurns, EndsOnce, IsEnd
<1>6. TurnByTurn'
  <2>1. \A t \in 1..turn : t \in accepted \/ t \in failed
    BY <1>1 DEF Inv, TurnByTurn, BeingSent
  <2>2. ASSUME Quiet, NEW t \in accepted, t # turn
        PROVE  Seen(t)
    <3>1. t # 0 /\ ~BeingSent(t)
      BY <1>2, <2>2 DEF BeingSent
    <3> QED
      BY <1>3, <2>2, <3>1 DEF Inv, TurnByTurn, Quiet
  <2>3. Quiet' => Quiet
    BY <1>1 DEF Quiet, Orphans
  <2>4. \A t : Seen(t)' <=> Seen(t)
    BY <1>1, <1>2 DEF Seen, EndOf
  <2> QED
    BY <1>1, <1>2, <1>3, <2>1, <2>2, <2>3, <2>4 DEF TurnByTurn
<1> QED
  BY <1>4, <1>5, <1>6 DEF Inv

\* The relay starts where the browser is.
LEMMA InvConnect ==
  ASSUME Inv, Connect
  PROVE  Inv'
<1>1. /\ client.at = "opening" /\ ticket' = FALSE
      /\ relay' = [up |-> TRUE, last |-> client.cursor]
      /\ client' = [client EXCEPT !.at = "streaming", !.retries = 0]
      /\ UNCHANGED <<stream, accepted, running, repeats, turn, sending, failed, current, wire,
                     received, faults, gaveUp>>
  BY DEF Connect, agentVars, messageVars, ResumePoint
<1>2. /\ client' \in [at : Points, cursor : Nat, retries : Nat]
      /\ client'.at = "streaming" /\ client'.cursor = client.cursor /\ client.cursor \in Nat
      /\ relay' \in [up : BOOLEAN, last : Nat] /\ relay'.up /\ relay'.last = client.cursor
  BY <1>1 DEF Inv, TypeOK, Points
<1>3. wire = <<>>
  BY <1>1 DEF Inv, Listening
<1>4. TypeOK' /\ ShownInOrder' /\ EventsOfTurns' /\ EndsOnce' /\ Listening'
  BY <1>1, <1>2 DEF Inv, TypeOK, ShownInOrder, EventsOfTurns, EndsOnce, IsEnd, Listening
<1>5. Continued'
  BY <1>1, <1>2, <1>3 DEF Inv, Continued
<1>6. TurnByTurn'
  BY <1>1, <1>2, <1>3 DEF Inv, TurnByTurn, Quiet, Orphans, BeingSent, Seen, EndOf
<1> QED
  BY <1>4, <1>5, <1>6 DEF Inv

\* The hook drops its connection, with at most one event more than before.
LEMMA Dropped ==
  ASSUME Inv, relay' = Down, wire' = <<>>, ticket' \in BOOLEAN, faults' \in Nat, gaveUp' \in BOOLEAN,
         client' \in [at : Points, cursor : Nat, retries : Nat],
         client'.at \in {"waiting", "error", "done"},
         client'.cursor >= client.cursor, client'.cursor <= Len(stream),
         received' = [i \in 1..client'.cursor |-> i],
         gaveUp => gaveUp', client'.at = "error" => gaveUp',
         client'.at = "done" /\ Quiet => \E j \in EndOf(current) : j <= client'.cursor,
         client.at \in {"ticketing", "opening", "streaming"}, UNCHANGED <<agentVars, messageVars>>
  PROVE  Inv'
<1>0. UNCHANGED <<stream, accepted, running, repeats, turn, sending, failed, current>>
  BY DEF agentVars, messageVars
<1>1. client.cursor \in Nat /\ client'.cursor \in Nat /\ Down \in [up : BOOLEAN, last : Nat]
      /\ ~Down.up
  BY DEF Inv, TypeOK, Down
<1>2. received' \in Seq(Nat)
  BY <1>1, Counting
<1>3. TypeOK'
  BY <1>0, <1>1, <1>2 DEF Inv, TypeOK
<1>4. ShownInOrder' /\ EventsOfTurns' /\ EndsOnce' /\ Listening' /\ Continued'
  BY <1>0, <1>1 DEF Inv, ShownInOrder, EventsOfTurns, EndsOnce, IsEnd, Listening, Continued
<1>5. TurnByTurn'
  <2>1. Quiet' => Quiet
    BY <1>0 DEF Quiet, Orphans
  <2>2. \A t \in accepted : Seen(t) => \E j \in EndOf(t) : j <= client'.cursor
    <3> SUFFICES ASSUME NEW t \in accepted, Seen(t)
                 PROVE  \E j \in EndOf(t) : j <= client'.cursor
      OBVIOUS
    <3>1. PICK j \in EndOf(t) : j <= client.cursor
      BY DEF Seen
    <3>2. j \in Nat
      BY <3>1, Types DEF Inv
    <3> QED
      BY <1>1, <3>1, <3>2
  <2>3. Quiet => \A t \in accepted :
          t = current \/ BeingSent(t) \/ \E j \in EndOf(t) : j <= client'.cursor
    BY <2>2 DEF Inv, TurnByTurn
  <2>4. ~sending /\ \A t \in 1..turn : t \in accepted \/ t \in failed \/ BeingSent(t)
    BY DEF Inv, TurnByTurn
  <2> QED
    BY <1>0, <2>1, <2>3, <2>4 DEF TurnByTurn, BeingSent, Seen, EndOf
<1> QED
  BY <1>3, <1>4, <1>5 DEF Inv

\* scheduleReconnect waits or gives up.
LEMMA Reconnects ==
  ASSUME Inv, NEW c \in [at : Points, cursor : Nat, retries : Nat], Reconnect(c)
  PROVE  /\ client' \in [at : Points, cursor : Nat, retries : Nat]
         /\ client'.at \in {"waiting", "error"} /\ client'.cursor = c.cursor
         /\ gaveUp' \in BOOLEAN /\ (gaveUp => gaveUp') /\ (client'.at = "error" => gaveUp')
<1>1. gaveUp \in BOOLEAN
  BY Types DEF Inv
<1>2. CASE c.retries >= MaxRetries
  BY <1>1, <1>2 DEF Reconnect, Points
<1>3. CASE ~(c.retries >= MaxRetries)
  <2>1. client' = [c EXCEPT !.at = "waiting", !.retries = c.retries + 1] /\ UNCHANGED gaveUp
    BY <1>3 DEF Reconnect
  <2>2. client' \in [at : Points, cursor : Nat, retries : Nat] /\ client'.at = "waiting"
        /\ client'.cursor = c.cursor
    <3>1. c.retries + 1 \in Nat /\ "waiting" \in Points
      BY DEF Points
    <3> HIDE DEF Points
    <3> QED
      BY <2>1, <3>1
  <2> QED
    BY <1>1, <2>1, <2>2
<1> QED
  BY <1>2, <1>3

LEMMA InvFault ==
  ASSUME Inv, Fault
  PROVE  Inv'
<1>1. /\ client \in [at : Points, cursor : Nat, retries : Nat] /\ faults \in Nat
      /\ client.cursor <= Len(stream) /\ received = [i \in 1..client.cursor |-> i]
  BY DEF Inv, TypeOK, Continued, ShownInOrder
<1>2. /\ faults' = faults + 1 /\ ticket' = FALSE /\ relay' = Down /\ wire' = <<>>
      /\ Reconnect(client) /\ UNCHANGED <<agentVars, messageVars, received>>
      /\ client.at \in {"ticketing", "opening", "streaming"}
  BY DEF Fault
<1>3. /\ client' \in [at : Points, cursor : Nat, retries : Nat]
      /\ client'.at \in {"waiting", "error"} /\ client'.cursor = client.cursor
      /\ gaveUp' \in BOOLEAN /\ (gaveUp => gaveUp') /\ (client'.at = "error" => gaveUp')
  BY <1>1, <1>2, Reconnects
<1> QED
  <2>1. /\ ticket' \in BOOLEAN /\ faults' \in Nat
        /\ client'.cursor >= client.cursor /\ client'.cursor <= Len(stream)
        /\ received' = [i \in 1..client'.cursor |-> i] /\ client'.at # "done"
    <3>1. client.cursor \in Nat /\ client'.cursor = client.cursor
      BY <1>1, <1>3
    <3>2. received' = [i \in 1..client'.cursor |-> i]
      BY <1>1, <1>2, <3>1
    <3>3. client'.cursor >= client.cursor /\ client'.cursor <= Len(stream)
      <4>1. client.cursor <= Len(stream)
        BY <1>1
      <4> QED
        BY <3>1, <4>1
    <3>4. ticket' \in BOOLEAN /\ faults' \in Nat
      <4>1. faults \in Nat
        BY <1>1
      <4>2. ticket' = FALSE /\ faults' = faults + 1
        BY <1>2
      <4>3. ticket' \in BOOLEAN
        BY <4>2, Zenon
      <4> QED
        BY <4>1, <4>2, <4>3
    <3>5. client'.at # "done"
      BY <1>3
    <3> QED
      BY <3>2, <3>3, <3>4, <3>5
  <2> QED
    BY <1>2, <1>3, <2>1, Dropped

LEMMA NextPlace ==
  ASSUME NEW a \in Nat, NEW b, b = a + 1, NEW i \in Nat
  PROVE  b + i = a + (i + 1)
OBVIOUS

\* An event after which the hook goes on listening.
LEMMA Streams ==
  ASSUME Inv, client.at = "streaming", wire # <<>>, Head(wire) = client.cursor + 1,
         client' = [client EXCEPT !.cursor = client.cursor + 1, !.at = "streaming"],
         received' = [i \in 1..(client.cursor + 1) |-> i], client.cursor + 1 <= Len(stream),
         wire' = Tail(wire),
         UNCHANGED <<agentVars, messageVars, ticket, relay, faults, gaveUp>>
  PROVE  Inv'
<1>0. UNCHANGED <<stream, accepted, running, repeats, turn, sending, failed, current>>
  BY DEF agentVars, messageVars
<1>1. /\ client.cursor \in Nat /\ Len(stream) \in Nat /\ wire \in Seq(Nat) /\ Len(wire) \in Nat
      /\ client' \in [at : Points, cursor : Nat, retries : Nat]
      /\ client'.at = "streaming" /\ client'.cursor = client.cursor + 1
  <2>1. client \in [at : Points, cursor : Nat, retries : Nat] /\ client.cursor + 1 \in Nat
    BY Types DEF Inv
  <2>2. client' \in [at : Points, cursor : Nat, retries : Nat]
        /\ client'.at = "streaming" /\ client'.cursor = client.cursor + 1
    BY <2>1 DEF Points
  <2> QED
    BY <2>2, Types DEF Inv
<1>2. /\ wire' \in Seq(Nat) /\ Len(wire') = Len(wire) - 1 /\ Len(wire) >= 1
      /\ \A i \in 1..Len(wire') : wire'[i] = wire[i + 1] /\ i + 1 \in 1..Len(wire)
  BY <1>1, HeadTailProperties, EmptySeq
<1>3. TypeOK'
  BY <1>0, <1>1, <1>2, Counting DEF Inv, TypeOK
<1>4. ShownInOrder' /\ EventsOfTurns' /\ EndsOnce' /\ Listening'
  BY <1>0, <1>1 DEF Inv, ShownInOrder, EventsOfTurns, EndsOnce, IsEnd, Listening
<1>5. Continued'
  <2>1. ASSUME NEW i \in 1..Len(wire')
        PROVE  IF wire'[i] = Sentinel THEN i = Len(wire') /\ ~relay.up
               ELSE wire'[i] = client'.cursor + i /\ wire'[i] <= Len(stream)
    <3>1. IF wire[i + 1] = Sentinel THEN i + 1 = Len(wire) /\ ~relay.up
          ELSE wire[i + 1] = client.cursor + (i + 1) /\ wire[i + 1] <= Len(stream)
      <4>1. i + 1 \in 1..Len(wire)
        BY <1>2
      <4> QED
        BY <4>1 DEF Inv, Continued
    <3>2. i \in Nat /\ wire'[i] = wire[i + 1] /\ Len(wire') = Len(wire) - 1
      BY <1>2
    <3>3. client'.cursor = client.cursor + 1 /\ client.cursor \in Nat /\ Len(wire) \in Nat
      BY <1>1
    <3>4. CASE wire[i + 1] = Sentinel
      BY <3>1, <3>2, <3>3, <3>4
    <3>5. CASE wire[i + 1] # Sentinel
      <4>1. i \in Nat
        BY <3>2
      <4>2. client'.cursor + i = client.cursor + (i + 1)
        BY <3>3, <4>1, NextPlace, Zenon
      <4>3. wire[i + 1] = client.cursor + (i + 1) /\ wire[i + 1] <= Len(stream)
        BY <3>1, <3>5
      <4>4. wire'[i] = wire[i + 1]
        BY <3>2
      <4>5. wire'[i] # Sentinel
        BY <3>5, <4>4, Zenon
      <4>6. wire'[i] = client'.cursor + i
        BY <4>2, <4>3, <4>4, Zenon
      <4>7. wire'[i] <= Len(stream)
        BY <4>3, <4>4, Zenon
      <4> QED
        BY <4>5, <4>6, <4>7, Zenon
    <3> QED
      BY <3>4, <3>5
  <2>2. relay.up => relay.last = client'.cursor + Len(wire') /\ relay.last <= Len(stream)
    BY <1>1, <1>2 DEF Inv, Continued
  <2> QED
    BY <1>0, <1>1, <2>1, <2>2 DEF Continued
<1>6. TurnByTurn'
  <2>1. \A t \in accepted : Seen(t) => \E j \in EndOf(t) : j <= client'.cursor
    <3> SUFFICES ASSUME NEW t \in accepted, Seen(t)
                 PROVE  \E j \in EndOf(t) : j <= client'.cursor
      OBVIOUS
    <3>1. PICK j \in EndOf(t) : j <= client.cursor
      BY DEF Seen
    <3>2. j \in Nat
      BY <3>1, Types DEF Inv
    <3> QED
      BY <1>1, <3>1, <3>2
  <2>2. ASSUME Quiet, NEW i \in 1..Len(wire'), wire'[i] = Sentinel
        PROVE  \E j \in EndOf(current) : j < client'.cursor + i
    <3>1. \E j \in EndOf(current) : j < client.cursor + (i + 1)
      BY <1>2, <2>2 DEF Inv, TurnByTurn
    <3> QED
      BY <1>1, <1>2, <3>1
  <2>3. Quiet => \A t \in accepted :
          t = current \/ BeingSent(t) \/ \E j \in EndOf(t) : j <= client'.cursor
    BY <2>1 DEF Inv, TurnByTurn
  <2>4. ~sending /\ \A t \in 1..turn : t \in accepted \/ t \in failed \/ BeingSent(t)
    BY DEF Inv, TurnByTurn
  <2> QED
    BY <1>0, <1>1, <2>2, <2>3, <2>4 DEF TurnByTurn, Quiet, Orphans, BeingSent, Seen, EndOf
<1> QED
  BY <1>3, <1>4, <1>5, <1>6 DEF Inv

LEMMA InvReceive ==
  ASSUME Inv, Receive
  PROVE  Inv'
<1> DEFINE id == Head(wire)
<1>1. /\ client.at = "streaming" /\ wire # <<>>
      /\ UNCHANGED <<agentVars, messageVars, stream, ticket, faults>>
      /\ IF client'.at = "streaming"
         THEN wire' = Tail(wire) /\ UNCHANGED relay
         ELSE relay' = Down /\ wire' = <<>>
  BY DEF Receive, agentVars
<1>2. /\ client \in [at : Points, cursor : Nat, retries : Nat] /\ client.cursor \in Nat
      /\ received = [i \in 1..client.cursor |-> i] /\ client.cursor <= Len(stream)
      /\ faults \in Nat /\ ticket \in BOOLEAN /\ gaveUp \in BOOLEAN /\ Len(stream) \in Nat
      /\ DOMAIN stream = 1..Len(stream)
  BY DEF Inv, TypeOK, ShownInOrder, Continued
<1>3. 1 \in 1..Len(wire) /\ id = wire[1]
  BY <1>1 DEF Inv, TypeOK
<1>4. id # Sentinel => id = client.cursor + 1 /\ id <= Len(stream) /\ id \in DOMAIN stream
  BY <1>2, <1>3 DEF Inv, Continued
<1>5. id # Sentinel => Append(received, id) = [i \in 1..(client.cursor + 1) |-> i]
  BY <1>2, <1>4, Counting
<1> HIDE DEF id
<1>6. CASE id = Sentinel /\ client' = [client EXCEPT !.at = "done"] /\ UNCHANGED <<received, gaveUp>>
  <2>1. /\ client' \in [at : Points, cursor : Nat, retries : Nat]
        /\ client'.at = "done" /\ client'.cursor = client.cursor
    BY <1>2, <1>6 DEF Points
  <2>2. Quiet => \E j \in EndOf(current) : j <= client.cursor
    <3> SUFFICES ASSUME Quiet
                 PROVE  \E j \in EndOf(current) : j <= client.cursor
      OBVIOUS
    <3>1. PICK j \in EndOf(current) : j < client.cursor + 1
      BY <1>3, <1>6 DEF Inv, TurnByTurn
    <3>2. j \in Nat
      BY <3>1, Types DEF Inv
    <3> QED
      BY <1>2, <3>1, <3>2
  <2> QED
    BY <1>1, <1>2, <1>6, <2>1, <2>2, Dropped
<1>7. CASE id # Sentinel /\ stream[id].kind # "error" /\ Enqueue(client, id) /\ UNCHANGED gaveUp
  <2>1. CASE stream[id].kind = "done"
    <3>1. /\ client' \in [at : Points, cursor : Nat, retries : Nat]
          /\ client'.at = "done" /\ client'.cursor = client.cursor + 1
          /\ received' = [i \in 1..(client.cursor + 1) |-> i]
      <4>1. /\ client' = [client EXCEPT !.cursor = client.cursor + 1, !.at = "done"]
            /\ received' = [i \in 1..(client.cursor + 1) |-> i]
        BY <1>4, <1>5, <1>7, <2>1 DEF Enqueue
      <4>2. client.cursor + 1 \in Nat /\ "done" \in Points
        BY <1>2 DEF Points
      <4>3. client' \in [at : Points, cursor : Nat, retries : Nat]
            /\ client'.at = "done" /\ client'.cursor = client.cursor + 1
        BY <1>2, <4>1, <4>2
      <4> QED
        BY <4>1, <4>3
    <3>2. Quiet => id \in EndOf(current)
      BY <1>1, <1>2, <1>4, <1>7, <2>1, NextEnd DEF IsEnd, Terminal
    <3>3. Quiet => \E j \in EndOf(current) : j <= client'.cursor
      BY <1>2, <1>4, <1>7, <3>1, <3>2
    <3> QED
      BY <1>1, <1>2, <1>4, <1>7, <3>1, <3>3, Dropped
  <2>2. CASE stream[id].kind # "done"
    <3>1. /\ client' = [client EXCEPT !.cursor = client.cursor + 1, !.at = "streaming"]
          /\ received' = [i \in 1..(client.cursor + 1) |-> i]
      BY <1>4, <1>5, <1>7, <2>2 DEF Enqueue
    <3>2. client'.at = "streaming"
      BY <1>2, <3>1
    <3> QED
      BY <1>1, <1>4, <1>7, <3>1, <3>2, Streams DEF id
  <2> QED
    BY <2>1, <2>2
<1>8. CASE /\ id # Sentinel /\ received' = Append(received, id)
           /\ Reconnect([client EXCEPT !.cursor = id])
  <2> DEFINE c == [client EXCEPT !.cursor = id]
  <2>1. c \in [at : Points, cursor : Nat, retries : Nat] /\ c.cursor = client.cursor + 1
    BY <1>2, <1>4, <1>8
  <2> HIDE DEF c
  <2>2. Reconnect(c)
    BY <1>8 DEF c
  <2>3. /\ client' \in [at : Points, cursor : Nat, retries : Nat]
        /\ client'.at \in {"waiting", "error"} /\ client'.cursor = client.cursor + 1
        /\ gaveUp' \in BOOLEAN /\ (gaveUp => gaveUp') /\ (client'.at = "error" => gaveUp')
    BY <2>1, <2>2, Reconnects
  <2> QED
    BY <1>1, <1>2, <1>4, <1>5, <1>8, <2>3, Dropped
<1> QED
  BY <1>6, <1>7, <1>8 DEF Receive, id

-----------------------------------------------------------------------------
(* The theorems *)

LEMMA InvStep == Inv /\ [Next]_vars => Inv'
<1> SUFFICES ASSUME Inv, [Next]_vars
             PROVE  Inv'
  OBVIOUS
<1>1. CASE \E t \in 1..turn :
             Accept(t) \/ PublishAgain(t) \/ \E kind \in Kinds : Publish(t, kind)
  BY <1>1, InvAccept, InvPublish, InvPublishAgain
<1>2. CASE RelayNext \/ SendMessage \/ SendFails \/ Start \/ Connect \/ Receive \/ Fault
  BY <1>2, InvRelayNext, InvSend, InvStart, InvConnect, InvReceive, InvFault
<1>3. CASE GetTicket \/ Retry
  BY <1>3, InvHook
<1>4. CASE UNCHANGED vars
  <2>1. TypeOK' /\ ShownInOrder' /\ Listening' /\ Continued'
    BY <1>4 DEF vars, agentVars, messageVars, Inv, TypeOK, ShownInOrder, Listening, Continued
  <2>2. EventsOfTurns' /\ EndsOnce' /\ TurnByTurn'
    BY <1>4 DEF vars, agentVars, messageVars, Inv, EventsOfTurns, EndsOnce, TurnByTurn, IsEnd,
                Quiet, Orphans, BeingSent, Seen, EndOf
  <2> QED
    BY <2>1, <2>2 DEF Inv
<1> QED
  BY <1>1, <1>2, <1>3, <1>4 DEF Next

LEMMA Invariance == Spec => []Inv
BY InitInv, InvStep, PTL DEF Spec

\* The stream, the relay, what is in flight and the hook keep their types: the
\* Agent never works on a turn that was not sent.
THEOREM StreamTypeCorrect == Spec => []TypeOK
<1>1. Inv => TypeOK
  BY DEF Inv
<1> QED
  BY <1>1, Invariance, PTL

\* relay_agent_stream resumes after last_event_id and the hook moves it with
\* each event it enqueues: over any number of lost connections and turns the
\* browser has the beginning of the stream, nothing missing, twice or swapped.
THEOREM EventsShownInOrder == Spec => []ShownInOrder
<1>1. Inv => ShownInOrder
  BY DEF Inv
<1> QED
  BY <1>1, Invariance, PTL

\* The done of the hook, set by a done event or by the sentinel, is that of the
\* turn it was started for: it never takes the end of another turn for it, not
\* even after calls that failed, unless a terminal event was repeated, the hook
\* gave up before, or the Agent has a turn whose call failed.
THEOREM DoneIsOfThisTurn == Spec => []DoneMeansThisTurnEnded
<1>1. Inv => DoneMeansThisTurnEnded
  BY DEF Inv, TurnByTurn, Quiet, DoneMeansThisTurnEnded
<1> QED
  BY <1>1, Invariance, PTL
=============================================================================
