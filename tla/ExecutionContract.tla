-------------------------- MODULE ExecutionContract --------------------------
(***************************************************************************)
(* What the Agent promises a Backend that repeats its calls: the graph of  *)
(* a thread is started once, it pauses for one answer at a time, a pause   *)
(* is answered once, by a request for this thread that has been checked    *)
(* against a pause of it, and no request is used twice.                    *)
(*                                                                         *)
(* The check and the answer are two moments: a request that was checked in *)
(* time may answer the pause after the one it was made for.                *)
(***************************************************************************)
EXTENDS Integers

CONSTANTS
  Threads,  \* agent_thread_id
  Resumes,  \* request_id of a resume request
  MaxPauses, \* how often a thread pauses at most
  None

VARIABLES
  phase,    \* of each thread: "new", "running", "paused", "ended"
  pause,    \* how many times each thread has paused
  request,  \* of each resume request: its thread, and the pause it answers
  checked,  \* the resume requests that have been checked and not dropped
  answered  \* the resume requests that have resumed a graph

vars == <<phase, pause, request, checked, answered>>

Init ==
  /\ phase = [k \in Threads |-> "new"]
  /\ pause = [k \in Threads |-> 0]
  /\ request = [r \in Resumes |-> None]
  /\ checked = {} /\ answered = {}

Ask(r) ==
  /\ request[r] = None
  /\ \E k, of \in Threads, p \in 1 .. MaxPauses :
       request' = [request EXCEPT ![r] = [thread |-> k, pause |-> <<of, p>>]]
  /\ UNCHANGED <<phase, pause, checked, answered>>

Run(k) ==
  /\ phase[k] = "new"
  /\ phase' = [phase EXCEPT ![k] = "running"]
  /\ UNCHANGED <<pause, request, checked, answered>>

Pause(k) ==
  /\ phase[k] = "running"
  /\ phase' = [phase EXCEPT ![k] = "paused"]
  /\ pause' = [pause EXCEPT ![k] = @ + 1]
  /\ UNCHANGED <<request, checked, answered>>

\* A request is checked against the pause its thread is at.
Check(r) ==
  /\ request[r] # None
  /\ LET k == request[r].thread IN phase[k] = "paused" /\ request[r].pause = <<k, pause[k]>>
  /\ checked' = checked \cup {r}
  /\ UNCHANGED <<phase, pause, request, answered>>

Answer(k, r) ==
  /\ r \in checked /\ r \notin answered
  /\ request[r].thread = k /\ phase[k] = "paused"
  /\ phase' = [phase EXCEPT ![k] = "running"]
  /\ answered' = answered \cup {r}
  /\ checked' \in {checked, checked \ {r}}
  /\ UNCHANGED <<pause, request>>

\* A checked request that came too late is dropped.
Forget ==
  /\ checked' \in SUBSET checked
  /\ UNCHANGED <<phase, pause, request, answered>>

\* A pause the user never gets to see ends the thread, too.
Finish(k) ==
  /\ phase[k] \in {"running", "paused"}
  /\ phase' = [phase EXCEPT ![k] = "ended"]
  /\ UNCHANGED <<pause, request, checked, answered>>

\* The process ends and with it every thread that has begun; one that was
\* only accepted never begins.
Lose ==
  /\ \E ended \in SUBSET Threads :
       /\ \A k \in Threads : phase[k] # "new" => k \in ended
       /\ phase' = [k \in Threads |-> IF k \in ended THEN "ended" ELSE phase[k]]
  /\ checked' = {}
  /\ UNCHANGED <<pause, request, answered>>

Next ==
  \/ \E r \in Resumes : Ask(r) \/ Check(r)
  \/ \E k \in Threads : Run(k) \/ Pause(k) \/ Finish(k) \/ \E r \in Resumes : Answer(k, r)
  \/ Forget \/ Lose

Spec == Init /\ [][Next]_vars
=============================================================================
