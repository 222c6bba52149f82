----------------------------- MODULE AgentRuntime -----------------------------
(***************************************************************************)
(* The Agent's ExecutionRuntime: the record of every thread, the start and *)
(* resume requests that reach it, first or again, and the background job   *)
(* that runs the graph of a thread and reports where it stops.  An action  *)
(* is the code between two awaits.                                         *)
(*                                                                         *)
(* Here requests come from anywhere, and a report succeeds or fails;       *)
(* Conversation has the Backend that sends the ones and takes the others.  *)
(***************************************************************************)
EXTENDS Integers, FiniteSets

CONSTANTS
  Starts,       \* request_id of a start request
  Threads,      \* agent_thread_id, numbered in the order they are made
  Resumes,      \* request_id of a resume request
  Copies,       \* the attempts of one call, each of which may arrive
  MaxPauses,    \* bound: interrupts of one thread
  MaxRestarts,  \* bound: restarts of the Agent
  None

ASSUME RuntimeAssumption ==
  /\ Threads \subseteq Nat /\ MaxPauses \in Nat /\ MaxRestarts \in Nat
  /\ None \notin Starts \cup Threads \cup Resumes /\ Starts \cap Resumes = {}
  /\ None \notin [thread : Threads, pause : Threads \X (1 .. MaxPauses)]

VARIABLES
  thread,    \* _start_request_threads
  record,    \* _records
  queued,    \* BackgroundTasks: the requests whose run is scheduled
  job,       \* the run of each thread: what it is doing
  request,   \* of each resume request: its thread, and the identifier of a pause
  validated, \* copies of resume requests between the validation and the second lock
  restarts

agent == <<thread, record, queued, job, request, validated, restarts>>

Statuses == {"absent", "accepted", "running", "waiting", "completed", "failed", "lost"}

\* "graph": in graph.ainvoke; the others await a webhook: the interrupt, the
\* completion, the failure.
Jobs == {"idle", "graph", "pausing", "completing", "failing"}

\* status, the start request, the interrupts of the thread so far,
\* active_resume_request_id, the keys of resume_requests and
\* started_resume_request_ids.
Record == [status : Statuses, start : Starts \cup {None}, pause : 0 .. MaxPauses,
           active : Resumes \cup {None}, requests : SUBSET Resumes,
           started : SUBSET Resumes]

\* The identifier of a pause (input_request_id, confirmation_id or
\* auth_context_id) belongs to one interrupt of one thread.
Pauses == Threads \X (1 .. MaxPauses)

Requests == [thread : Threads, pause : Pauses]

NoRecord == [status |-> "absent", start |-> None, pause |-> 0, active |-> None,
             requests |-> {}, started |-> {}]

RuntimeInit ==
  /\ thread = [s \in Starts |-> None]
  /\ record = [k \in Threads |-> NoRecord]
  /\ queued = {} /\ job = [k \in Threads |-> "idle"]
  /\ request = [r \in Resumes |-> None]
  /\ validated = {}
  /\ restarts = 0

\* _get_record finds it.
Known(k) == record[k].status \notin {"absent", "lost"}

-----------------------------------------------------------------------------
(* Accepting requests *)

\* A repeated start request gets the thread of the first one; nothing is
\* scheduled for it.
Repeated(s) == UNCHANGED agent

AcceptStart(s) ==
  IF thread[s] # None THEN Repeated(s)
  ELSE \E k \in Threads :
         /\ record[k].status = "absent"
         /\ \A j \in Threads : j < k => record[j].status # "absent"
         /\ thread' = [thread EXCEPT ![s] = k]
         /\ record' = [record EXCEPT ![k].status = "accepted", ![k].start = s]
         /\ queued' = queued \cup {s}
         /\ UNCHANGED <<job, request, validated, restarts>>

\* A resume request is made.
Ask(r, k, p) ==
  /\ request[r] = None
  /\ request' = [request EXCEPT ![r] = [thread |-> k, pause |-> p]]
  /\ UNCHANGED <<thread, record, queued, job, validated, restarts>>

Replayed(r) == LET k == request[r].thread IN Known(k) /\ r \in record[k].requests

Waiting(r) == LET k == request[r].thread IN record[k].status = "waiting" /\ ~Replayed(r)

\* The identifier in the request is that of the current interrupt.
IdentifierMatches(r) ==
  LET k == request[r].thread IN request[r].pause = <<k, record[k].pause>>

\* accept_resume up to the second lock: the record waits for this answer. What
\* the checkpoint holds may be another pause by the time of the second lock.
Validate(r, c) ==
  /\ request[r] # None /\ Waiting(r) /\ IdentifierMatches(r)
  /\ validated' = validated \cup {<<r, c>>}
  /\ UNCHANGED <<thread, record, queued, job, request, restarts>>

\* The second lock asks again whether the record waits, since another request
\* may have been faster; it does not look at the identifier again.
StillWaiting_Unchecked(r) == ~Replayed(r)

StillWaiting(r) == Waiting(r)

AcceptResume(r, c) ==
  LET k == request[r].thread IN
  /\ <<r, c>> \in validated /\ validated' = validated \ {<<r, c>>}
  /\ IF StillWaiting(r)
     THEN /\ record' = [record EXCEPT ![k].status = "running", ![k].active = r,
                                      ![k].requests = @ \cup {r}]
          /\ queued' = queued \cup {r}
     ELSE UNCHANGED <<record, queued>>
  /\ UNCHANGED <<thread, job, request, restarts>>

-----------------------------------------------------------------------------
(* The background job of a thread *)

SetJob(k, j) == job' = [job EXCEPT ![k] = j]

SetStatus(k, status) ==
  record' = [record EXCEPT ![k].status = status, ![k].active = None]

ThreadOf(x) == IF x \in Starts THEN thread[x] ELSE request[x].thread

\* A resumed run is held to what run_accepted asks of a new one.
CanBegin_Accepted(x) == record[ThreadOf(x)].status = "accepted"

\* What run_accepted and run_accepted_resume ask of the record: a start begins
\* once, a resume while it is the active one and has not begun.
CanBegin(x) ==
  LET rec == record[ThreadOf(x)] IN
  IF x \in Starts THEN rec.status = "accepted"
  ELSE rec.active = x /\ x \notin rec.started

\* A scheduled request is taken up, to run the graph or to end at once.
Begin(x) ==
  LET k == ThreadOf(x) IN
  /\ x \in queued /\ queued' = queued \ {x}
  /\ IF CanBegin(x)
     THEN /\ SetJob(k, "graph")
          /\ record' = [record EXCEPT ![k].status = "running",
                                      ![k].started = @ \cup ({x} \cap Resumes)]
     ELSE UNCHANGED <<record, job>>
  /\ UNCHANGED <<thread, request, validated, restarts>>

\* The checkpoint holds the interrupt before it is published.
GraphInterrupts(k) ==
  /\ job[k] = "graph" /\ record[k].pause < MaxPauses
  /\ SetJob(k, "pausing") /\ record' = [record EXCEPT ![k].pause = @ + 1]
  /\ UNCHANGED <<thread, queued, request, validated, restarts>>

GraphCompletes(k) ==
  /\ job[k] = "graph"
  /\ SetJob(k, "completing")
  /\ UNCHANGED <<thread, record, queued, request, validated, restarts>>

\* A cancelled or blocked run has nothing to report, one that failed in a
\* workflow has reported it.
GraphEnds(k, status) ==
  /\ job[k] = "graph" /\ status \in {"completed", "failed"}
  /\ SetJob(k, "idle") /\ SetStatus(k, status)
  /\ UNCHANGED <<thread, queued, request, validated, restarts>>

\* An exception in the graph, or in publishing the interrupt.
Raises_Uncaught(k) ==
  /\ job[k] \in {"graph", "pausing"}
  /\ SetJob(k, "idle")
  /\ UNCHANGED <<thread, record, queued, request, validated, restarts>>

Raises(k) ==
  /\ job[k] \in {"graph", "pausing"}
  /\ SetJob(k, "failing") /\ SetStatus(k, "failed")
  /\ UNCHANGED <<thread, queued, request, validated, restarts>>

Published(k) ==
  /\ job[k] = "pausing"
  /\ SetJob(k, "idle") /\ SetStatus(k, "waiting")
  /\ UNCHANGED <<thread, queued, request, validated, restarts>>

\* Whether the report arrived or not: its errors are only logged.
Reported(k) ==
  /\ job[k] \in {"completing", "failing"}
  /\ SetJob(k, "idle")
  /\ SetStatus(k, IF job[k] = "completing" THEN "completed" ELSE "failed")
  /\ UNCHANGED <<thread, queued, request, validated, restarts>>

\* Everything the runtime knows is in memory.
Restart ==
  /\ restarts < MaxRestarts /\ restarts' = restarts + 1
  /\ thread' = [s \in Starts |-> None]
  /\ record' = [k \in Threads |->
                  IF Known(k) THEN [record[k] EXCEPT !.status = "lost", !.active = None]
                  ELSE record[k]]
  /\ queued' = {} /\ job' = [k \in Threads |-> "idle"]
  /\ validated' = {}
  /\ UNCHANGED request

RuntimeNext ==
  \/ \E s \in Starts : AcceptStart(s)
  \/ \E r \in Resumes, k \in Threads, p \in Pauses : Ask(r, k, p)
  \/ \E r \in Resumes, c \in Copies : Validate(r, c) \/ AcceptResume(r, c)
  \/ \E x \in queued : Begin(x)
  \/ \E k \in Threads :
       \/ GraphInterrupts(k) \/ GraphCompletes(k) \/ Raises(k)
       \/ Published(k) \/ Reported(k)
       \/ \E status \in {"completed", "failed"} : GraphEnds(k, status)
  \/ Restart

RuntimeSpec == RuntimeInit /\ [][RuntimeNext]_agent

-----------------------------------------------------------------------------
(* Properties *)

\* The records, runs and requests have the types of the code; a run is where
\* the status of its record says; and no record is accepted or running without
\* a run, or a scheduled request that can begin one.
RuntimeTypeOK ==
  /\ thread \in [Starts -> Threads \cup {None}]
  /\ record \in [Threads -> Record]
  /\ queued \subseteq Starts \cup Resumes /\ job \in [Threads -> Jobs]
  /\ request \in [Resumes -> Requests \cup {None}]
  /\ validated \subseteq Resumes \X Copies /\ restarts \in 0 .. MaxRestarts
  /\ \A k \in Threads :
       /\ job[k] \in {"graph", "pausing", "completing"} => record[k].status = "running"
       /\ job[k] = "failing" => record[k].status = "failed"
       /\ job[k] = "idle" /\ record[k].status \in {"accepted", "running"} =>
            \E x \in queued : ThreadOf(x) = k /\ CanBegin(x)

Phase(k) ==
  CASE record[k].status \in {"absent", "accepted"} -> "new"
    [] record[k].status = "waiting" \/ job[k] = "pausing" -> "paused"
    [] record[k].status = "running" /\ job[k] # "pausing" -> "running"
    [] record[k].status \in {"completed", "failed", "lost"} -> "ended"

Contract == INSTANCE ExecutionContract WITH
  phase <- [k \in Threads |-> Phase(k)],
  pause <- [k \in Threads |-> record[k].pause],
  checked <- {v[1] : v \in validated},
  answered <- UNION {record[k].requests : k \in Threads}

\* internal_execution_api and ExecutionRuntime keep the contract, whatever is
\* repeated, arrives late, is validated side by side or lost in a restart.
KeepsContract == Contract!Spec
=============================================================================
