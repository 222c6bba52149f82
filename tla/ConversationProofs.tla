-------------------------- MODULE ConversationProofs --------------------------
(***************************************************************************)
(* First the runtime of the Agent by itself: for any number of start       *)
(* requests, threads, resume requests, repeated attempts and restarts the  *)
(* records stay coherent with the runs, and the runtime implements         *)
(* ExecutionContract.                                                      *)
(*                                                                         *)
(* Then the runtime joined to the Backend: for any number of turns,        *)
(* submissions, attempts, timeouts and restarts it still keeps its         *)
(* contract, a pause is put on the stream at most once, and of the answers *)
(* to an input one is passed on. The argument rests on the number of a     *)
(* pause: a thread never counts back, the webhook of a pause is made with  *)
(* its number and never again, and the row of a pause is created by that   *)
(* one webhook.                                                            *)
(***************************************************************************)
EXTENDS Conversation, TLAPS

-----------------------------------------------------------------------------
(* The runtime *)

\* The run of a thread is where the status of its record says.
Coherent(r, j) ==
  /\ j \in {"graph", "pausing", "completing"} => r.status = "running"
  /\ j = "failing" => r.status = "failed"

\* A resume that has been accepted and not begun is all its thread does.
Active(r, j) ==
  /\ r.active # None => r.active \in r.requests
  /\ r.active # None /\ r.active \notin r.started => j = "idle" /\ r.status = "running"
  /\ r.started \subseteq r.requests

\* A request is only ever known to the record of its own thread.
Own ==
  \A k \in Threads :
    /\ \A r \in record[k].requests : request[r] # None /\ request[r].thread = k
    /\ Active(record[k], job[k])

\* What is scheduled has a thread, and what has been validated was asked.
Scheduled ==
  /\ \A x \in queued : IF x \in Starts THEN thread[x] \in Threads ELSE request[x] # None
  /\ \A v \in validated : request[v[1]] # None

\* The inductive invariant.
Inv == RuntimeTypeOK /\ Own /\ Scheduled

LEMMA InitInv == RuntimeInit => Inv
BY RuntimeAssumption
DEF RuntimeInit, Inv, RuntimeTypeOK, Own, Active, Scheduled, Record, NoRecord, Statuses, Jobs

LEMMA RequestFields ==
  ASSUME RuntimeTypeOK, NEW r \in Resumes, request[r] # None
  PROVE  request[r] \in Requests /\ request[r].thread \in Threads /\ request[r].pause \in Pauses
BY DEF RuntimeTypeOK, Requests

LEMMA RecordFields ==
  ASSUME RuntimeTypeOK, NEW k \in Threads
  PROVE  /\ record[k] \in Record /\ job[k] \in Jobs /\ record[k].status \in Statuses
         /\ record[k].start \in Starts \cup {None} /\ record[k].pause \in 0 .. MaxPauses
         /\ record[k].active \in Resumes \cup {None} /\ record[k].requests \in SUBSET Resumes
         /\ Coherent(record[k], job[k])
BY DEF RuntimeTypeOK, Record, Coherent

LEMMA TaskThread ==
  ASSUME Inv, NEW x \in queued
  PROVE  ThreadOf(x) \in Threads /\ (x \notin Starts => x \in Resumes)
BY RequestFields DEF Inv, RuntimeTypeOK, Scheduled, ThreadOf

-----------------------------------------------------------------------------
(* Steps of one thread *)

\* One thread gets a new record and job, nothing else of the runtime changes
\* but, perhaps, its scheduled request and the validations.
Moves(k, r, j) ==
  /\ record' = [record EXCEPT ![k] = r]
  /\ job' = [job EXCEPT ![k] = j]
  /\ UNCHANGED <<request, restarts>>

\* No request of another thread is scheduled or dropped.
Schedules(k) ==
  /\ thread' \in [Starts -> Threads \cup {None}]
  /\ queued' \subseteq Starts \cup Resumes
  /\ \A x \in queued' : IF x \in Starts THEN thread'[x] \in Threads ELSE request[x] # None
  /\ \A x \in queued :
       ThreadOf(x) # k => x \in queued' /\ (x \in Starts => thread'[x] = thread[x])

\* Such a step keeps the invariant if the new record is of its type, coherent
\* with the job, has a request to begin with when it is to run, and knows no
\* request of another thread.
LEMMA MoveKeepsInv ==
  ASSUME Inv, NEW k \in Threads, NEW r, NEW j, Moves(k, r, j), Schedules(k),
         r \in Record, j \in Jobs, Coherent(r, j), Active(r, j),
         validated' \subseteq validated,
         \A q \in r.requests : request[q] # None /\ request[q].thread = k,
         j = "idle" /\ r.status \in {"accepted", "running"} =>
           \E x \in queued' : ThreadOf(x)' = k /\ CanBegin(x)'
  PROVE  Inv'
<1>1. /\ record' \in [Threads -> Record] /\ job' \in [Threads -> Jobs]
      /\ record'[k] = r /\ job'[k] = j
      /\ \A i \in Threads \ {k} : record'[i] = record[i] /\ job'[i] = job[i]
  BY DEF Inv, RuntimeTypeOK, Moves
<1>2. \A i \in Threads : Coherent(record'[i], job'[i])
  BY <1>1, RecordFields DEF Inv
<1>3. ASSUME NEW i \in Threads, job'[i] = "idle", record'[i].status \in {"accepted", "running"}
      PROVE  \E x \in queued' : ThreadOf(x)' = i /\ CanBegin(x)'
  <2>1. CASE i = k
    BY <1>1, <1>3, <2>1
  <2>2. CASE i # k
    <3>1. PICK x \in queued : ThreadOf(x) = i /\ CanBegin(x)
      BY <1>1, <1>3, <2>2 DEF Inv, RuntimeTypeOK
    <3>2. x \in queued' /\ (x \in Starts => thread'[x] = thread[x]) /\ request' = request
      BY <2>2, <3>1 DEF Schedules, Moves
    <3>3. ThreadOf(x)' = i
      BY <3>1, <3>2 DEF ThreadOf
    <3>4. record'[i] = record[i]
      BY <1>1, <2>2
    <3>5. CanBegin(x)'
      BY <3>1, <3>3, <3>4 DEF CanBegin
    <3> QED
      BY <3>2, <3>3, <3>5
  <2> QED
    BY <2>1, <2>2
<1>4. RuntimeTypeOK'
  <2>1. /\ thread' \in [Starts -> Threads \cup {None}] /\ queued' \subseteq Starts \cup Resumes
        /\ request' \in [Resumes -> Requests \cup {None}]
        /\ validated' \subseteq Resumes \X Copies /\ restarts' \in 0 .. MaxRestarts
    BY DEF Inv, RuntimeTypeOK, Moves, Schedules
  <2> QED
    BY <1>1, <1>2, <1>3, <2>1 DEF RuntimeTypeOK, Coherent
<1>5. Own'
  <2> SUFFICES ASSUME NEW i \in Threads
               PROVE  /\ \A q \in record'[i].requests : request'[q] # None /\ request'[q].thread = i
                      /\ Active(record'[i], job'[i])
    BY DEF Own, Active
  <2>1. CASE i = k
    BY <1>1, <2>1 DEF Moves
  <2>2. CASE i # k
    BY <1>1, <2>2 DEF Moves, Inv, Own
  <2> QED
    BY <2>1, <2>2
<1>6. Scheduled'
  BY DEF Inv, Scheduled, Schedules, Moves
<1> QED
  BY <1>4, <1>5, <1>6 DEF Inv

\* The steps of a run, as moves of its thread.
RunSteps(k) ==
  \/ GraphInterrupts(k) \/ GraphCompletes(k) \/ Raises(k)
  \/ Published(k) \/ Reported(k) \/ \E s \in {"completed", "failed"} : GraphEnds(k, s)

LEMMA JobMoves ==
  ASSUME Inv, NEW k \in Threads, RunSteps(k)
  PROVE  /\ Moves(k, record'[k], job'[k])
         /\ record'[k] \in Record /\ job'[k] \in Jobs
         /\ Coherent(record'[k], job'[k]) /\ Active(record'[k], job'[k])
         /\ record'[k].requests = record[k].requests
         /\ UNCHANGED <<thread, queued, validated>>
         /\ job'[k] = "idle" => record'[k].status \notin {"accepted", "running"}
<1>1. /\ record[k] \in Record /\ Coherent(record[k], job[k]) /\ MaxPauses \in Nat
      /\ record \in [Threads -> Record] /\ job \in [Threads -> Jobs]
      /\ Active(record[k], job[k])
  BY RecordFields, RuntimeAssumption DEF Inv, RuntimeTypeOK, Own
<1>2. CASE GraphInterrupts(k)
  BY <1>1, <1>2 DEF GraphInterrupts, SetJob, Moves, Record, Statuses, Jobs, Coherent, Active
<1>3. CASE GraphCompletes(k)
  BY <1>1, <1>3 DEF GraphCompletes, SetJob, Moves, Record, Statuses, Jobs, Coherent, Active
<1>4. CASE Raises(k) \/ Published(k) \/ Reported(k)
           \/ \E s \in {"completed", "failed"} : GraphEnds(k, s)
  <2>1. PICK s \in {"failed", "waiting", "completed"}, j \in {"failing", "idle"} :
          /\ record' = [record EXCEPT ![k].status = s, ![k].active = None]
          /\ job' = [job EXCEPT ![k] = j] /\ (j = "failing" => s = "failed")
          /\ UNCHANGED <<thread, queued, request, validated, restarts>>
    BY <1>4 DEF Raises, Published, Reported, GraphEnds, SetJob, SetStatus
  <2> QED
    BY <1>1, <2>1 DEF Moves, Record, Statuses, Jobs, Coherent, Active
<1> QED
  BY <1>2, <1>3, <1>4 DEF RunSteps

\* A request that is taken up runs the graph of a thread that did nothing.
LEMMA BeginMoves ==
  ASSUME Inv, NEW x \in queued, Begin(x), CanBegin(x)
  PROVE  LET k == ThreadOf(x) IN
         /\ k \in Threads /\ job[k] = "idle" /\ record[k].status \in {"accepted", "running"}
         /\ Moves(k, record'[k], "graph") /\ record'[k] \in Record
         /\ record'[k].status = "running" /\ record'[k].pause = record[k].pause
         /\ record'[k].requests = record[k].requests /\ Active(record'[k], "graph")
         /\ record'[k].start = record[k].start
<1>1. PICK k \in Threads : k = ThreadOf(x)
  BY TaskThread
<1>2. /\ record[k] \in Record /\ Coherent(record[k], job[k]) /\ Active(record[k], job[k])
      /\ record \in [Threads -> Record] /\ job \in [Threads -> Jobs] /\ job[k] \in Jobs
  BY RecordFields DEF Inv, RuntimeTypeOK, Own
<1>3. PICK begun \in SUBSET Resumes :
        /\ begun = record[k].started \cup ({x} \cap Resumes)
        /\ record' = [record EXCEPT ![k].status = "running", ![k].started = begun]
        /\ job' = [job EXCEPT ![k] = "graph"]
        /\ UNCHANGED <<request, restarts>>
  BY <1>1, <1>2 DEF Begin, SetJob, Record
<1>4. \/ x \in Starts /\ record[k].status = "accepted"
      \/ x \in Resumes /\ record[k].active = x /\ x \notin record[k].started
  BY <1>1, TaskThread DEF CanBegin
<1>5. job[k] = "idle" /\ record[k].status \in {"accepted", "running"}
  <2>1. CASE x \in Starts /\ record[k].status = "accepted"
    BY <1>2, <2>1 DEF Coherent, Jobs
  <2>2. CASE x \in Resumes /\ record[k].active = x /\ x \notin record[k].started
    BY <1>2, <2>2, RuntimeAssumption DEF Active
  <2> QED
    BY <1>4, <2>1, <2>2
<1>6. record'[k] = [record[k] EXCEPT !.status = "running", !.started = begun]
      /\ record' = [record EXCEPT ![k] = record'[k]]
  BY <1>2, <1>3
<1>7. /\ record'[k] \in Record /\ record'[k].status = "running"
      /\ record'[k].pause = record[k].pause /\ record'[k].requests = record[k].requests
      /\ record'[k].active = record[k].active /\ record'[k].started = begun
      /\ record'[k].start = record[k].start
  BY <1>2, <1>6 DEF Record, Statuses
<1>8. record[k].active # None => record[k].active \in begun
  <2>1. CASE x \in Resumes /\ record[k].active = x
    BY <1>2, <1>3, <2>1, RuntimeAssumption DEF Active
  <2>2. CASE x \in Starts /\ record[k].status = "accepted"
    BY <1>2, <1>3, <2>2, RuntimeAssumption DEF Active
  <2> QED
    BY <1>4, <2>1, <2>2
<1>9. begun \subseteq record[k].requests
  BY <1>2, <1>3, <1>4, RuntimeAssumption DEF Active
<1>10. Active(record'[k], "graph")
  BY <1>2, <1>7, <1>8, <1>9 DEF Active
<1> QED
  BY <1>1, <1>3, <1>5, <1>6, <1>7, <1>10 DEF Moves

\* An accepted resume, as a move of its thread.
LEMMA ResumeMoves ==
  ASSUME Inv, NEW r \in Resumes, NEW c \in Copies, AcceptResume(r, c), StillWaiting(r)
  PROVE  LET k == request[r].thread IN
         /\ k \in Threads /\ request[r] # None
         /\ record[k].status = "waiting" /\ r \notin record[k].requests
         /\ job[k] = "idle" /\ Moves(k, record'[k], "idle")
         /\ record'[k] \in Record /\ record'[k].status = "running"
         /\ record'[k].pause = record[k].pause /\ Active(record'[k], "idle")
         /\ record'[k].requests = record[k].requests \cup {r}
         /\ record'[k].active = r /\ r \notin record'[k].started
         /\ record'[k].start = record[k].start
<1>1. <<r, c>> \in validated /\ request[r] # None
  BY DEF AcceptResume, Inv, Scheduled
<1>2. PICK k \in Threads : k = request[r].thread
  BY <1>1, RequestFields DEF Inv
<1>3. record[k].status = "waiting" /\ r \notin record[k].requests
  BY <1>2 DEF StillWaiting, Waiting, Replayed, Known
<1>4. PICK all \in SUBSET Resumes :
        /\ all = record[k].requests \cup {r}
        /\ record' = [record EXCEPT ![k].status = "running", ![k].active = r, ![k].requests = all]
        /\ UNCHANGED <<job, request, restarts>>
  <2>1. record[k].requests \cup {r} \in SUBSET Resumes
    BY <1>2, RecordFields DEF Inv
  <2>2. /\ record' = [record EXCEPT ![k].status = "running", ![k].active = r,
                                  ![k].requests = record[k].requests \cup {r}]
        /\ UNCHANGED <<job, request, restarts>>
    BY <1>2 DEF AcceptResume
  <2> QED
    BY <2>1, <2>2
<1>5. /\ record[k] \in Record /\ record \in [Threads -> Record] /\ job \in [Threads -> Jobs]
      /\ Coherent(record[k], job[k]) /\ Active(record[k], job[k])
  BY RecordFields DEF Inv, RuntimeTypeOK, Own
<1>6. job[k] = "idle"
  BY <1>3, <1>5 DEF Coherent, Jobs
<1>7. /\ record'[k] = [record[k] EXCEPT !.status = "running", !.active = r, !.requests = all]
      /\ record' = [record EXCEPT ![k] = record'[k]] /\ job' = [job EXCEPT ![k] = "idle"]
  BY <1>4, <1>5, <1>6
<1>8. /\ record'[k] \in Record /\ record'[k].status = "running"
      /\ record'[k].pause = record[k].pause /\ record'[k].requests = all
      /\ record'[k].active = r /\ record'[k].started = record[k].started
      /\ record'[k].start = record[k].start
  BY <1>5, <1>7 DEF Record, Statuses
<1>9. Active(record'[k], "idle") /\ r \notin record[k].started
  BY <1>3, <1>4, <1>5, <1>8 DEF Active
<1> QED
  BY <1>1, <1>2, <1>3, <1>4, <1>6, <1>7, <1>8, <1>9 DEF Moves

-----------------------------------------------------------------------------
(* Invariance *)

\* A new request, or a validation, schedules nothing.
LEMMA SameRuns ==
  ASSUME Inv, UNCHANGED <<thread, record, queued, job, restarts>>,
         request' \in [Resumes -> Requests \cup {None}],
         validated' \subseteq Resumes \X Copies,
         \A q \in Resumes : request[q] # None => request'[q] = request[q],
         \A v \in validated' : request'[v[1]] # None
  PROVE  Inv'
<1>1. \A x \in queued : ThreadOf(x)' = ThreadOf(x)
  BY TaskThread DEF ThreadOf, Inv, Scheduled
<1>2. \A x \in queued : CanBegin(x)' <=> CanBegin(x)
  BY <1>1 DEF CanBegin
<1>3. RuntimeTypeOK'
  BY <1>1, <1>2 DEF Inv, RuntimeTypeOK
<1>4. Own'
  <2>1. \A i \in Threads : record[i].requests \in SUBSET Resumes
    BY RecordFields DEF Inv
  <2> QED
    BY <2>1 DEF Inv, Own, Active
<1>5. Scheduled'
  BY TaskThread DEF Inv, Scheduled
<1> QED
  BY <1>3, <1>4, <1>5 DEF Inv

LEMMA InvStep == Inv /\ [RuntimeNext]_agent => Inv'
<1> SUFFICES ASSUME Inv, [RuntimeNext]_agent
             PROVE  Inv'
  OBVIOUS
<1>0. CASE UNCHANGED agent
  <2>1. UNCHANGED <<thread, record, queued, job, request, validated, restarts>>
    BY <1>0 DEF agent
  <2> QED
    BY <2>1, SameRuns DEF Inv, RuntimeTypeOK, Scheduled
<1>1. ASSUME NEW s \in Starts, AcceptStart(s) PROVE Inv'
  <2>1. CASE thread[s] # None
    BY <1>0, <1>1, <2>1 DEF AcceptStart, Repeated
  <2>2. CASE thread[s] = None
    <3>1. PICK k \in Threads :
            /\ record[k].status = "absent"
            /\ thread' = [thread EXCEPT ![s] = k]
            /\ record' = [record EXCEPT ![k].status = "accepted", ![k].start = s]
            /\ queued' = queued \cup {s}
            /\ UNCHANGED <<job, request, validated, restarts>>
      BY <1>1, <2>2 DEF AcceptStart
    <3>2. /\ record[k] \in Record /\ record \in [Threads -> Record] /\ job \in [Threads -> Jobs]
          /\ Coherent(record[k], job[k]) /\ Active(record[k], job[k])
      BY RecordFields DEF Inv, RuntimeTypeOK, Own
    <3>3. job[k] = "idle"
      BY <3>1, <3>2 DEF Coherent, Jobs
    <3>4. /\ record'[k] = [record[k] EXCEPT !.status = "accepted", !.start = s]
          /\ record' = [record EXCEPT ![k] = record'[k]] /\ job' = [job EXCEPT ![k] = "idle"]
      BY <3>1, <3>2, <3>3
    <3>5. /\ record'[k] \in Record /\ record'[k].status = "accepted"
          /\ record'[k].requests = record[k].requests /\ record'[k].active = record[k].active
          /\ record'[k].started = record[k].started
      BY <3>2, <3>4 DEF Record, Statuses
    <3>6. /\ Moves(k, record'[k], "idle") /\ Coherent(record'[k], "idle") /\ "idle" \in Jobs
          /\ Active(record'[k], "idle")
      BY <3>1, <3>2, <3>4, <3>5 DEF Moves, Coherent, Active, Jobs
    <3>7. thread'[s] = k /\ thread' \in [Starts -> Threads \cup {None}]
          /\ \A x \in Starts : thread[x] # None => thread'[x] = thread[x]
      BY <2>2, <3>1 DEF Inv, RuntimeTypeOK
    <3>8. \A x \in queued : x \in Starts => thread[x] \in Threads /\ thread[x] # None
      BY RuntimeAssumption DEF Inv, Scheduled
    <3>9. Schedules(k)
      BY <3>1, <3>7, <3>8 DEF Schedules, Inv, RuntimeTypeOK, Scheduled
    <3>10. s \in queued' /\ ThreadOf(s)' = k /\ CanBegin(s)'
      BY <3>1, <3>5, <3>7 DEF ThreadOf, CanBegin
    <3>11. \A q \in record'[k].requests : request[q] # None /\ request[q].thread = k
      BY <3>5 DEF Inv, Own
    <3> QED
      BY <3>1, <3>5, <3>6, <3>9, <3>10, <3>11, MoveKeepsInv
  <2> QED
    BY <2>1, <2>2
<1>2. ASSUME NEW r \in Resumes, NEW k \in Threads, NEW p \in Pauses, Ask(r, k, p)
      PROVE  Inv'
  <2>1. /\ request' = [request EXCEPT ![r] = [thread |-> k, pause |-> p]] /\ request[r] = None
        /\ UNCHANGED <<thread, record, queued, job, validated, restarts>>
    BY <1>2 DEF Ask
  <2>2. [thread |-> k, pause |-> p] \in Requests
    BY DEF Requests
  <2>3. /\ request' \in [Resumes -> Requests \cup {None}]
        /\ \A q \in Resumes : request[q] # None => request'[q] = request[q]
    BY <2>1, <2>2 DEF Inv, RuntimeTypeOK
  <2>4. \A v \in validated' : v[1] \in Resumes /\ request[v[1]] # None
    BY <2>1 DEF Inv, RuntimeTypeOK, Scheduled
  <2> QED
    BY <2>1, <2>3, <2>4, SameRuns DEF Inv, RuntimeTypeOK
<1>3. ASSUME NEW r \in Resumes, NEW c \in Copies, Validate(r, c) PROVE Inv'
  <2>1. /\ validated' = validated \cup {<<r, c>>} /\ request[r] # None
        /\ UNCHANGED <<thread, record, queued, job, request, restarts>>
    BY <1>3 DEF Validate
  <2> QED
    BY <2>1, SameRuns DEF Inv, RuntimeTypeOK, Scheduled
<1>4. ASSUME NEW r \in Resumes, NEW c \in Copies, AcceptResume(r, c) PROVE Inv'
  <2>1. validated' \subseteq validated /\ UNCHANGED <<thread, job, request, restarts>>
    BY <1>4 DEF AcceptResume
  <2>2. CASE StillWaiting(r)
    <3>0. PICK k \in Threads : k = request[r].thread
      BY <1>4, <2>2, ResumeMoves
    <3>1. /\ request[r] # None /\ Moves(k, record'[k], "idle")
          /\ record'[k] \in Record /\ record'[k].status = "running"
          /\ record'[k].requests = record[k].requests \cup {r} /\ Active(record'[k], "idle")
          /\ record'[k].active = r /\ r \notin record'[k].started
          /\ queued' = queued \cup {r}
      BY <1>4, <2>2, <3>0, ResumeMoves DEF AcceptResume
    <3>2. Coherent(record'[k], "idle") /\ "idle" \in Jobs
      BY DEF Coherent, Jobs
    <3>3. \A q \in record'[k].requests : request[q] # None /\ request[q].thread = k
      BY <3>0, <3>1 DEF Inv, Own
    <3>4. r \notin Starts
      BY RuntimeAssumption
    <3>5. Schedules(k)
      BY <2>1, <3>1, <3>4 DEF Schedules, Inv, RuntimeTypeOK, Scheduled
    <3>6. ThreadOf(r)' = k /\ CanBegin(r)' /\ r \in queued'
      BY <2>1, <3>0, <3>1, <3>4 DEF ThreadOf, CanBegin
    <3> QED
      BY <2>1, <3>1, <3>2, <3>3, <3>5, <3>6, MoveKeepsInv
  <2>3. CASE ~StillWaiting(r)
    <3>1. UNCHANGED <<thread, record, queued, job, request, restarts>>
      BY <1>4, <2>1, <2>3 DEF AcceptResume
    <3> QED
      BY <2>1, <3>1, SameRuns DEF Inv, RuntimeTypeOK, Scheduled
  <2> QED
    BY <2>2, <2>3
<1>5. ASSUME NEW k \in Threads, RunSteps(k)
      PROVE  Inv'
  <2>1. /\ Moves(k, record'[k], job'[k]) /\ record'[k] \in Record /\ job'[k] \in Jobs
        /\ Coherent(record'[k], job'[k]) /\ Active(record'[k], job'[k])
        /\ record'[k].requests = record[k].requests
        /\ UNCHANGED <<thread, queued, validated>>
        /\ job'[k] = "idle" => record'[k].status \notin {"accepted", "running"}
    BY <1>5, JobMoves
  <2>2. \A q \in record'[k].requests : request[q] # None /\ request[q].thread = k
    BY <2>1 DEF Inv, Own
  <2>3. Schedules(k)
    BY <2>1 DEF Inv, RuntimeTypeOK, Scheduled, Schedules
  <2> QED
    BY <2>1, <2>2, <2>3, MoveKeepsInv
<1>6. ASSUME NEW x \in queued, Begin(x) PROVE Inv'
  <2>1. queued' = queued \ {x} /\ UNCHANGED <<thread, request, validated, restarts>>
    BY <1>6 DEF Begin
  <2>2. CASE CanBegin(x)
    <3>0. PICK k \in Threads : k = ThreadOf(x)
      BY TaskThread
    <3>1. /\ Moves(k, record'[k], "graph") /\ record'[k] \in Record
          /\ record'[k].status = "running" /\ record'[k].requests = record[k].requests
          /\ Active(record'[k], "graph")
      BY <1>6, <2>2, <3>0, BeginMoves
    <3>2. Coherent(record'[k], "graph") /\ "graph" \in Jobs
      BY <3>1 DEF Coherent, Jobs
    <3>3. \A q \in record'[k].requests : request[q] # None /\ request[q].thread = k
      BY <3>1 DEF Inv, Own
    <3>4. Schedules(k)
      BY <2>1, <3>0 DEF Schedules, Inv, RuntimeTypeOK, Scheduled
    <3> QED
      BY <2>1, <3>1, <3>2, <3>3, <3>4, MoveKeepsInv
  <2>3. CASE ~CanBegin(x)
    <3>1. UNCHANGED <<record, job>>
      BY <1>6, <2>3 DEF Begin
    <3>2. \A y \in queued : (ThreadOf(y)' = ThreadOf(y)) /\ (CanBegin(y)' <=> CanBegin(y))
      BY <2>1, <3>1 DEF ThreadOf, CanBegin
    <3>3. RuntimeTypeOK'
      BY <2>1, <2>3, <3>1, <3>2 DEF Inv, RuntimeTypeOK
    <3>4. Own' /\ Scheduled'
      BY <2>1, <3>1 DEF Inv, Own, Active, Scheduled
    <3> QED
      BY <3>3, <3>4 DEF Inv
  <2> QED
    BY <2>2, <2>3
<1>7. CASE Restart
  <2>1. /\ thread' = [s \in Starts |-> None] /\ job' = [k \in Threads |-> "idle"]
        /\ queued' = {} /\ validated' = {} /\ restarts < MaxRestarts /\ restarts' = restarts + 1
        /\ UNCHANGED request
    BY <1>7 DEF Restart
  <2>2. \A k \in Threads :
          /\ record'[k] \in Record /\ record'[k].requests = record[k].requests
          /\ record'[k].status \in {"absent", "lost"}
          /\ record'[k].started = record[k].started
          /\ record'[k].active = IF Known(k) THEN None ELSE record[k].active
    BY <1>7 DEF Restart, Inv, RuntimeTypeOK, Record, Statuses, Known
  <2>3. record' \in [Threads -> Record]
    BY <1>7, <2>2 DEF Restart
  <2>4. RuntimeTypeOK'
    BY <2>1, <2>2, <2>3, RuntimeAssumption DEF Inv, RuntimeTypeOK, Jobs
  <2>5. \A k \in Threads : Active(record'[k], "idle")
    <3>1. \A k \in Threads : Active(record[k], job[k]) /\ (~Known(k) => record[k].status # "running")
      BY DEF Inv, Own, Known
    <3> QED
      BY <2>2, <3>1 DEF Active
  <2>6. Own' /\ Scheduled'
    BY <2>1, <2>2, <2>5 DEF Inv, Own, Active, Scheduled
  <2> QED
    BY <2>4, <2>6 DEF Inv
<1> QED
  BY <1>0, <1>1, <1>2, <1>3, <1>4, <1>5, <1>6, <1>7 DEF RuntimeNext, RunSteps

LEMMA Invariance == RuntimeSpec => []Inv
BY InitInv, InvStep, PTL DEF RuntimeSpec

\* Records and runs stay coherent: no thread is left accepted or running without
\* a run, or a scheduled request that can begin one, whatever requests are
\* repeated and whatever is lost.
THEOREM TypeCorrect == RuntimeSpec => []RuntimeTypeOK
<1>1. Inv => RuntimeTypeOK
  BY DEF Inv
<1> QED
  BY <1>1, Invariance, PTL

-----------------------------------------------------------------------------
(* The contract *)

phases == [k \in Threads |-> Phase(k)]
pauses == [k \in Threads |-> record[k].pause]
answers == UNION {record[k].requests : k \in Threads}

checks == {v[1] : v \in validated}

\* What the contract sees.
seen == <<phases, pauses, request, checks, answers>>

LEMMA InitContract == RuntimeInit => Contract!Init
<1> SUFFICES ASSUME RuntimeInit
             PROVE  Contract!Init
  OBVIOUS
<1>1. \A k \in Threads : record[k] = NoRecord /\ job[k] = "idle"
  BY DEF RuntimeInit
<1>2. \A k \in Threads : Phase(k) = "new" /\ record[k].pause = 0 /\ record[k].requests = {}
  BY <1>1 DEF Phase, NoRecord
<1> QED
  BY <1>2 DEF Contract!Init, RuntimeInit

\* The cases of Phase.
LEMMA PhaseOf ==
  ASSUME Inv, NEW k \in Threads
  PROVE  /\ record[k].status \in {"absent", "accepted"} => Phase(k) = "new"
         /\ record[k].status = "waiting" => Phase(k) = "paused"
         /\ record[k].status = "running" =>
              Phase(k) = IF job[k] = "pausing" THEN "paused" ELSE "running"
         /\ record[k].status \in {"completed", "failed", "lost"} => Phase(k) = "ended"
<1>1. job[k] = "pausing" => record[k].status = "running"
  BY DEF Inv, RuntimeTypeOK
<1> QED
  BY <1>1 DEF Phase

\* A move of one thread changes what the contract sees of that thread only.
LEMMA MoveSeen ==
  ASSUME Inv, NEW k \in Threads, NEW r, NEW j, Moves(k, r, j)
  PROVE  /\ phases' = [phases EXCEPT ![k] = Phase(k)']
         /\ pauses' = [pauses EXCEPT ![k] = record'[k].pause]
         /\ record'[k].requests = record[k].requests => answers' = answers
         /\ UNCHANGED request
<1>1. \A i \in Threads \ {k} : record'[i] = record[i] /\ job'[i] = job[i]
  BY DEF Moves, Inv, RuntimeTypeOK
<1>2. \A i \in Threads \ {k} : Phase(i)' = Phase(i)
  BY <1>1 DEF Phase
<1>3. phases' = [phases EXCEPT ![k] = Phase(k)']
  BY <1>2 DEF phases
<1>4. pauses' = [pauses EXCEPT ![k] = record'[k].pause]
  BY <1>1 DEF pauses
<1>5. record'[k].requests = record[k].requests => answers' = answers
  BY <1>1 DEF answers
<1> QED
  BY <1>3, <1>4, <1>5 DEF Moves

LEMMA SameSeen ==
  UNCHANGED <<record, job, request>> =>
    UNCHANGED <<phases, pauses, request, answers>>
BY DEF phases, pauses, answers, Phase

LEMMA SeenStutter ==
  ASSUME Inv, NEW k \in Threads, NEW r, NEW j, Moves(k, r, j),
         Phase(k)' = Phase(k), record'[k].pause = record[k].pause,
         record'[k].requests = record[k].requests, UNCHANGED validated
  PROVE  UNCHANGED seen
<1>1. \A i \in Threads \ {k} : record'[i] = record[i] /\ job'[i] = job[i]
  BY DEF Moves, Inv, RuntimeTypeOK
<1>2. phases' = phases
  <2>1. \A i \in Threads : Phase(i)' = Phase(i)
    BY <1>1 DEF Phase
  <2> QED
    BY <2>1 DEF phases
<1>3. pauses' = pauses
  BY <1>1 DEF pauses
<1> QED
  BY <1>2, <1>3, MoveSeen DEF seen, checks

\* Every step of the runtime is a step of the contract or none.
LEMMA StepContract ==
  ASSUME Inv, Inv', [RuntimeNext]_agent
  PROVE  Contract!Next \/ UNCHANGED seen
<1>0. CASE UNCHANGED agent
  BY <1>0, SameSeen DEF agent, seen, checks
<1>1. ASSUME NEW s \in Starts, AcceptStart(s) PROVE UNCHANGED seen
  <2>1. CASE thread[s] # None
    BY <1>1, <2>1, SameSeen DEF AcceptStart, Repeated, agent, seen, checks
  <2>2. CASE thread[s] = None
    <3>1. PICK k \in Threads :
            /\ record[k].status = "absent"
            /\ record' = [record EXCEPT ![k].status = "accepted", ![k].start = s]
            /\ UNCHANGED <<job, request, restarts, validated>>
      BY <1>1, <2>2 DEF AcceptStart
    <3>2. record[k] \in Record /\ record \in [Threads -> Record] /\ job \in [Threads -> Jobs]
      BY DEF Inv, RuntimeTypeOK
    <3>3. /\ record'[k] = [record[k] EXCEPT !.status = "accepted", !.start = s]
          /\ record' = [record EXCEPT ![k] = record'[k]] /\ job' = [job EXCEPT ![k] = job[k]]
      BY <3>1, <3>2
    <3>4. /\ record'[k].status = "accepted" /\ record'[k].pause = record[k].pause
          /\ record'[k].requests = record[k].requests
      BY <3>2, <3>3 DEF Record
    <3>5. Moves(k, record'[k], job[k])
      BY <3>1, <3>3 DEF Moves
    <3>6. Phase(k) = "new" /\ Phase(k)' = "new"
      <4>1. job[k] # "pausing" /\ job'[k] # "pausing"
        BY <3>1 DEF Inv, RuntimeTypeOK
      <4> QED
        BY <3>1, <3>4, <4>1 DEF Phase
    <3> QED
      BY <3>1, <3>4, <3>5, <3>6, SeenStutter
  <2> QED
    BY <2>1, <2>2
<1>2. ASSUME NEW r \in Resumes, NEW k \in Threads, NEW p \in Pauses, Ask(r, k, p)
      PROVE  Contract!Next
  <2>1. UNCHANGED <<phases, pauses, checks, answers>>
    BY <1>2 DEF Ask, phases, pauses, checks, answers, Phase
  <2>2. PICK of \in Threads, n \in 1 .. MaxPauses : p = <<of, n>>
    BY DEF Pauses
  <2>3. Contract!Ask(r)
    BY <1>2, <2>1, <2>2 DEF Ask, Contract!Ask, phases, pauses, checks, answers
  <2> QED
    BY <2>3 DEF Contract!Next
<1>3. ASSUME NEW r \in Resumes, NEW c \in Copies, Validate(r, c) PROVE Contract!Next
  <2> DEFINE k == request[r].thread
  <2>1. /\ request[r] # None /\ record[k].status = "waiting" /\ k \in Threads
        /\ request[r].pause = <<k, record[k].pause>>
        /\ validated' = validated \cup {<<r, c>>} /\ UNCHANGED <<record, job, request>>
    BY <1>3, RequestFields DEF Validate, Waiting, IdentifierMatches, Inv
  <2>2. phases[k] = "paused" /\ pauses[k] = record[k].pause
    BY <2>1, PhaseOf DEF phases, pauses
  <2>3. checks' = checks \cup {r} /\ UNCHANGED <<phases, pauses, request, answers>>
    <3>1. <<r, c>>[1] = r
      OBVIOUS
    <3>2. checks' = checks \cup {r}
      BY <2>1, <3>1 DEF checks
    <3> QED
      BY <2>1, <3>2, SameSeen
  <2>4. Contract!Check(r)
    BY <2>1, <2>2, <2>3 DEF Contract!Check, phases, pauses, checks, answers
  <2> QED
    BY <2>4 DEF Contract!Next
<1>4. ASSUME NEW r \in Resumes, NEW c \in Copies, AcceptResume(r, c)
      PROVE  Contract!Next
  <2>0. r \in checks /\ checks' \in {checks, checks \ {r}}
    <3>1. <<r, c>> \in validated /\ validated' = validated \ {<<r, c>>}
      BY <1>4 DEF AcceptResume
    <3>2. \A v \in validated : v = <<v[1], v[2]>>
      BY DEF Inv, RuntimeTypeOK
    <3>3. \A v \in validated : v[1] # r => v \in validated'
      BY <3>1
    <3>4. validated' \subseteq validated
      BY <3>1
    <3>5. checks' \subseteq checks /\ checks \ {r} \subseteq checks'
      BY <3>3, <3>4 DEF checks
    <3>6. r \in checks
      BY <3>1 DEF checks
    <3> QED
      BY <3>5, <3>6
  <2>1. CASE StillWaiting(r)
    <3>0. PICK k \in Threads : k = request[r].thread
      BY <1>4, <2>1, ResumeMoves
    <3>1. /\ record[k].status = "waiting" /\ r \notin record[k].requests
          /\ Moves(k, record'[k], "idle")
          /\ record'[k].status = "running" /\ record'[k].pause = record[k].pause
          /\ record'[k].requests = record[k].requests \cup {r}
      BY <1>4, <2>1, <3>0, ResumeMoves
    <3>2. Phase(k) = "paused" /\ Phase(k)' = "running"
      <4>1. Phase(k) = "paused"
        BY <3>1, PhaseOf
      <4>2. job'[k] = "idle"
        BY <3>1 DEF Moves, Inv, RuntimeTypeOK
      <4> QED
        BY <3>1, <4>1, <4>2 DEF Phase
    <3>3. r \notin answers
      BY <3>0, <3>1 DEF answers, Inv, Own
    <3>4. answers' = answers \cup {r}
      <4>1. \A i \in Threads \ {k} : record'[i] = record[i]
        BY <3>1 DEF Moves, Inv, RuntimeTypeOK
      <4> QED
        BY <3>1, <4>1 DEF answers
    <3>5. phases' = [phases EXCEPT ![k] = "running"] /\ UNCHANGED request
      BY <3>1, <3>2, MoveSeen
    <3>6. pauses' = pauses
      <4>1. \A i \in Threads : record'[i].pause = record[i].pause
        BY <3>1 DEF Moves, Inv, RuntimeTypeOK
      <4> QED
        BY <4>1 DEF pauses
    <3>7. phases[k] = "paused"
      BY <3>1, <3>2 DEF phases
    <3>8. Contract!Answer(k, r)
      BY <2>0, <3>0, <3>3, <3>4, <3>5, <3>6, <3>7
      DEF Contract!Answer, phases, pauses, checks, answers
    <3> QED
      BY <3>8 DEF Contract!Next
  <2>2. CASE ~StillWaiting(r)
    <3>1. UNCHANGED <<record, job, request>>
      BY <1>4, <2>2 DEF AcceptResume
    <3>2. Contract!Forget
      BY <2>0, <3>1, SameSeen DEF Contract!Forget, phases, pauses, checks, answers
    <3> QED
      BY <3>2 DEF Contract!Next
  <2> QED
    BY <2>1, <2>2
<1>5. ASSUME NEW k \in Threads, RunSteps(k)
      PROVE  Contract!Next \/ UNCHANGED seen
  <2>1. /\ Moves(k, record'[k], job'[k]) /\ record'[k].requests = record[k].requests
        /\ UNCHANGED validated
    BY <1>5, JobMoves
  <2>2. /\ record[k] \in Record /\ Coherent(record[k], job[k]) /\ MaxPauses \in Nat
        /\ record \in [Threads -> Record] /\ job \in [Threads -> Jobs]
    BY RecordFields, RuntimeAssumption DEF Inv, RuntimeTypeOK
  <2>3. \/ /\ Phase(k) = "running" /\ Phase(k)' = "paused"
           /\ record'[k].pause = record[k].pause + 1
        \/ /\ Phase(k) \in {"running", "paused"} /\ Phase(k)' = "ended"
           /\ record'[k].pause = record[k].pause
        \/ Phase(k)' = Phase(k) /\ record'[k].pause = record[k].pause
    <3>1. CASE GraphInterrupts(k)
      BY <2>2, <3>1 DEF GraphInterrupts, SetJob, Record, Coherent, Phase
    <3>2. CASE GraphCompletes(k)
      BY <2>2, <3>2 DEF GraphCompletes, SetJob, Record, Coherent, Phase
    <3>3. CASE Raises(k)
      BY <2>2, <3>3 DEF Raises, SetJob, SetStatus, Record, Coherent, Phase
    <3>4. CASE Published(k)
      BY <2>2, <3>4 DEF Published, SetJob, SetStatus, Record, Coherent, Phase
    <3>5. CASE Reported(k)
      <4>1. PICK s \in {"completed", "failed"} :
              /\ record' = [record EXCEPT ![k].status = s, ![k].active = None]
              /\ job' = [job EXCEPT ![k] = "idle"]
              /\ job[k] \in {"completing", "failing"}
        BY <3>5 DEF Reported, SetJob, SetStatus
      <4> QED
        BY <2>2, <4>1 DEF Record, Coherent, Phase
    <3>6. CASE \E s \in {"completed", "failed"} : GraphEnds(k, s)
      <4>1. PICK s \in {"completed", "failed"} :
              /\ record' = [record EXCEPT ![k].status = s, ![k].active = None]
              /\ job' = [job EXCEPT ![k] = "idle"]
              /\ job[k] = "graph"
        BY <3>6 DEF GraphEnds, SetJob, SetStatus
      <4> QED
        BY <2>2, <4>1 DEF Record, Coherent, Phase
    <3> QED
      BY <1>5, <3>1, <3>2, <3>3, <3>4, <3>5, <3>6 DEF RunSteps
  <2>4. /\ phases' = [phases EXCEPT ![k] = Phase(k)']
        /\ pauses' = [pauses EXCEPT ![k] = record'[k].pause]
        /\ answers' = answers /\ checks' = checks /\ UNCHANGED request
        /\ phases[k] = Phase(k) /\ pauses[k] = record[k].pause
    BY <2>1, MoveSeen DEF phases, pauses, checks
  <2>5. CASE /\ Phase(k) = "running" /\ Phase(k)' = "paused"
             /\ record'[k].pause = record[k].pause + 1
    <3>1. Contract!Pause(k)
      BY <2>4, <2>5 DEF Contract!Pause, phases, pauses, checks, answers
    <3> QED
      BY <3>1 DEF Contract!Next
  <2>6. CASE /\ Phase(k) \in {"running", "paused"} /\ Phase(k)' = "ended"
             /\ record'[k].pause = record[k].pause
    <3>1. pauses' = pauses
      BY <2>4, <2>6 DEF pauses
    <3>2. Contract!Finish(k)
      BY <2>4, <2>6, <3>1 DEF Contract!Finish, phases, pauses, checks, answers
    <3> QED
      BY <3>2 DEF Contract!Next
  <2>7. CASE Phase(k)' = Phase(k) /\ record'[k].pause = record[k].pause
    BY <2>1, <2>7, SeenStutter
  <2> QED
    BY <2>3, <2>5, <2>6, <2>7
<1>6. ASSUME NEW x \in queued, Begin(x) PROVE Contract!Next \/ UNCHANGED seen
  <2>1. CASE CanBegin(x)
    <3>0. PICK k \in Threads : k = ThreadOf(x)
      BY TaskThread
    <3>1. /\ job[k] = "idle" /\ record[k].status \in {"accepted", "running"}
          /\ Moves(k, record'[k], "graph") /\ record'[k].status = "running"
          /\ record'[k].pause = record[k].pause /\ record'[k].requests = record[k].requests
          /\ UNCHANGED validated
      BY <1>6, <2>1, <3>0, BeginMoves DEF Begin
    <3>2. job'[k] = "graph"
      BY <3>1 DEF Moves, Inv, RuntimeTypeOK
    <3>3. Phase(k)' = "running"
      BY <3>1, <3>2 DEF Phase
    <3>4. CASE record[k].status = "accepted"
      <4>1. Phase(k) = "new" /\ phases[k] = "new"
        BY <3>1, <3>4, PhaseOf DEF phases
      <4>2. /\ phases' = [phases EXCEPT ![k] = "running"]
            /\ pauses' = [pauses EXCEPT ![k] = record[k].pause]
            /\ answers' = answers /\ checks' = checks /\ UNCHANGED request
        BY <3>1, <3>3, MoveSeen DEF checks
      <4>3. pauses' = pauses
        BY <4>2 DEF pauses
      <4>4. Contract!Run(k)
        BY <4>1, <4>2, <4>3 DEF Contract!Run, phases, pauses, checks, answers
      <4> QED
        BY <4>4 DEF Contract!Next
    <3>5. CASE record[k].status = "running"
      <4>1. Phase(k) = "running"
        BY <3>1, <3>5 DEF Phase
      <4> QED
        BY <3>1, <3>3, <4>1, SeenStutter
    <3> QED
      BY <3>1, <3>4, <3>5
  <2>2. CASE ~CanBegin(x)
    BY <1>6, <2>2, SameSeen DEF Begin, seen, checks
  <2> QED
    BY <2>1, <2>2
<1>7. CASE Restart
  <2>1. \A k \in Threads : record'[k].pause = record[k].pause
                           /\ record'[k].requests = record[k].requests
    BY <1>7, RecordFields DEF Restart, Inv, Record
  <2>2. \A k \in Threads : record'[k].status =
                             IF Known(k) THEN "lost" ELSE record[k].status
    BY <1>7, RecordFields DEF Restart, Inv, Record
  <2> DEFINE ended == {k \in Threads : record'[k].status = "lost"}
  <2>3. \A k \in Threads : Phase(k)' = IF k \in ended THEN "ended" ELSE Phase(k)
    <3> SUFFICES ASSUME NEW k \in Threads
                 PROVE  Phase(k)' = IF k \in ended THEN "ended" ELSE Phase(k)
      OBVIOUS
    <3>1. job'[k] = "idle" /\ record[k].status \in Statuses
      BY <1>7, RecordFields DEF Restart, Inv
    <3>2. CASE Known(k)
      BY <2>2, <3>1, <3>2 DEF Phase
    <3>3. CASE record[k].status = "absent"
      BY <2>2, <3>1, <3>3, PhaseOf DEF Phase, Known
    <3>4. CASE record[k].status = "lost"
      BY <2>2, <3>1, <3>4 DEF Phase, Known
    <3> QED
      BY <3>1, <3>2, <3>3, <3>4 DEF Known
  <2>4. \A k \in Threads : Phase(k) # "new" => k \in ended
    BY <2>2, PhaseOf, RecordFields DEF Known, Inv, Statuses
  <2>5. UNCHANGED <<pauses, answers, request>> /\ checks' = {}
    BY <1>7, <2>1 DEF pauses, answers, checks, Restart
  <2>6. phases' = [k \in Threads |-> IF k \in ended THEN "ended" ELSE phases[k]]
    BY <2>3 DEF phases
  <2>7. \A k \in Threads : phases[k] # "new" => k \in ended
    BY <2>4 DEF phases
  <2>8. ended \in SUBSET Threads
    OBVIOUS
  <2> HIDE DEF ended
  <2>9. Contract!Lose
    BY <2>5, <2>6, <2>7, <2>8 DEF Contract!Lose, phases, pauses, checks, answers
  <2> QED
    BY <2>9 DEF Contract!Next
<1> QED
  BY <1>0, <1>1, <1>2, <1>3, <1>4, <1>5, <1>6, <1>7 DEF RuntimeNext, RunSteps

\* The runtime runs the graph of a thread once, pauses it for one answer at a
\* time and takes for each pause one answer: a request for this thread that was
\* checked while the thread was at the pause it names, and is used once. (The
\* thread may be at a later pause by the time the answer is taken.)
THEOREM ContractKept == RuntimeSpec => KeepsContract
<1>1. Inv /\ Inv' /\ [RuntimeNext]_agent => [Contract!Next]_(Contract!vars)
  BY StepContract DEF seen, Contract!vars, phases, pauses, checks, answers
<1> QED
  BY InitContract, <1>1, Invariance, PTL DEF RuntimeSpec, KeepsContract, Contract!Spec

-----------------------------------------------------------------------------
(* The runtime and the Backend *)

Submissions == {"idle", "read", "calling", "accepted", "refused"}

Answers == [pause : Pauses, choice : Choices]

Calls == [attempts : Nat, copies : SUBSET Nat,
          reply : Threads \cup {None, "accepted", "refused"}]

Rows == {"none", "active", "consumed", "cancelled", "pending", "decided"}

\* A start is answered with a thread, a resume with a verdict.
CallsOK ==
  /\ call \in [Starts \cup Resumes -> Calls]
  /\ \A s \in Starts : call[s].reply \in Threads \cup {None}
  /\ \A r \in Resumes : call[r].reply \in {None, "accepted", "refused"}

HookOK(h) ==
  h.thread \in Threads /\ h.pause \in 0 .. MaxPauses /\ h.event \in PauseEvents \cup EndEvents

HookType ==
  [thread : Threads, pause : 0 .. MaxPauses, event : PauseEvents \cup EndEvents,
   attempt : Nat, point : {"sent", "cleared", "registered", "published"}]

PostType == [event : PauseEvents \cup EndEvents \cup {None}, attempt : Nat]

BridgeTypeOK ==
  /\ linked \in [Starts -> Threads \cup {None}]
  /\ submission \in [Resumes -> Submissions]
  /\ answer \in [Resumes -> Answers \cup {None}]
  /\ CallsOK
  /\ row \in [Pauses -> Rows]
  /\ hooks \subseteq HookType
  /\ posting \in [Threads -> PostType]
  /\ shown \in [Pauses -> Nat]

\* A thread that has paused was started by some request.
Started ==
  \A k \in Threads :
    IF record[k].status = "absent" THEN record[k].pause = 0 ELSE record[k].start \in Starts

\* A pause that has a row, or is shown, is one the thread has come to.
Reached ==
  \A p \in Pauses : (row[p] # "none" \/ shown[p] > 0) => p[2] <= record[p[1]].pause

PauseHooks == {h \in hooks : h.event \in PauseEvents}

PauseOf(h) == <<h.thread, h.pause>>

\* A pause has one webhook, which is not repeated; until it has been published
\* the pause is not shown, and until it has created the row there is none.
OneHook ==
  \A h \in PauseHooks :
    /\ h.pause \in 1 .. record[h.thread].pause
    /\ h.point # "published" => shown[PauseOf(h)] = 0
    /\ h.event = "need_input" /\ h.point \in {"sent", "cleared"} => row[PauseOf(h)] = "none"
    /\ \A g \in PauseHooks : PauseOf(g) = PauseOf(h) => g = h

\* Where a submission is, and what has become of the row it answers. Only then
\* is a request made.
Answered ==
  \A r \in Resumes :
    /\ submission[r] = "idle" => answer[r] = None
    /\ submission[r] = "read" =>
         answer[r] \in Answers /\ row[answer[r].pause] \in {"pending", "decided"}
    /\ submission[r] \notin {"idle", "read"} =>
         answer[r] \in Answers /\ row[answer[r].pause] \in {"consumed", "decided"}
    /\ request[r] # None => submission[r] \notin {"idle", "read"}

\* A pending input is consumed by one submission.
ConsumedOnce ==
  \A q, r \in Resumes :
    /\ submission[q] # "idle" /\ submission[r] # "idle"
    /\ answer[q].pause = answer[r].pause /\ row[answer[r].pause] = "consumed"
    => q = r

\* The inductive invariant.
CInv ==
  /\ Inv
  /\ BridgeTypeOK /\ Started /\ Reached /\ OneHook /\ ShownOnce
  /\ Answered /\ ConsumedOnce

-----------------------------------------------------------------------------
(* Facts about the state *)

LEMMA InitCInv == ConversationInit => CInv
<1> SUFFICES ASSUME ConversationInit
             PROVE  CInv
  OBVIOUS
<1>1. Inv
  BY InitInv DEF ConversationInit
<1>2. CallsOK
  BY DEF ConversationInit, CallsOK, Calls, NoCall
<1>3. BridgeTypeOK
  BY <1>2 DEF ConversationInit, BridgeTypeOK, Submissions, Rows, PostType, NoPost
<1>4. Started /\ Reached /\ OneHook /\ ShownOnce
  BY DEF ConversationInit, RuntimeInit, NoRecord, Started, Reached, OneHook, PauseHooks,
         ShownOnce, Pauses
<1>5. Answered /\ ConsumedOnce
  BY DEF ConversationInit, RuntimeInit, Answered, ConsumedOnce
<1> QED
  BY <1>1, <1>3, <1>4, <1>5 DEF CInv

LEMMA PauseParts ==
  ASSUME NEW p \in Pauses
  PROVE  p[1] \in Threads /\ p[2] \in 1 .. MaxPauses /\ p = <<p[1], p[2]>>
BY DEF Pauses

\* The turn of a pause that has been reached.
LEMMA TurnOfPause ==
  ASSUME CInv, NEW p \in Pauses, row[p] # "none" \/ shown[p] > 0
  PROVE  TurnOf(p) \in Starts
<1>1. p[1] \in Threads /\ p[2] \in 1 .. MaxPauses
  BY PauseParts
<1>2. p[2] <= record[p[1]].pause
  BY DEF CInv, Reached
<1>3. record[p[1]].pause # 0
  BY <1>1, <1>2, RuntimeAssumption
<1> QED
  BY <1>1, <1>3 DEF CInv, Started, TurnOf

LEMMA RepliesTyped ==
  ASSUME CallsOK, NEW x \in Starts \cup Resumes, NEW c, NEW reply, Replies(x, c, reply),
         x \in Starts => reply \in Threads \cup {None},
         x \in Resumes => reply \in {None, "accepted", "refused"}
  PROVE  CallsOK'
<1> DEFINE new == IF c = call[x].attempts THEN reply ELSE call[x].reply
<1>1. /\ call[x] \in Calls
      /\ new \in Threads \cup {None, "accepted", "refused"}
      /\ x \in Starts => new \in Threads \cup {None}
      /\ x \in Resumes => new \in {None, "accepted", "refused"}
  BY DEF CallsOK
<1> HIDE DEF new
<1>2. call' = [call EXCEPT ![x].copies = @ \ {c}, ![x].reply = new]
  BY DEF Replies, new, CallsOK, Calls
<1>3. call'[x] \in Calls /\ call'[x].reply = new
      /\ \A y \in (Starts \cup Resumes) \ {x} : call'[y] = call[y]
  BY <1>1, <1>2 DEF CallsOK, Calls
<1>4. call' \in [Starts \cup Resumes -> Calls]
  BY <1>2, <1>3 DEF CallsOK
<1> QED
  BY <1>1, <1>3, <1>4 DEF CallsOK

\* A first attempt, or one more, has no reply yet.
LEMMA AttemptTyped ==
  ASSUME CallsOK, NEW x \in Starts \cup Resumes,
         call' = [call EXCEPT ![x] = FirstAttempt] \/ Repeat(x)
  PROVE  CallsOK'
<1>1. PICK a \in Calls : a.reply = None /\ call' = [call EXCEPT ![x] = a]
  <2>1. CASE call' = [call EXCEPT ![x] = FirstAttempt]
    <3>1. FirstAttempt \in Calls /\ FirstAttempt.reply = None
      BY DEF FirstAttempt, Calls
    <3> QED
      BY <2>1, <3>1
  <2>2. CASE Repeat(x)
    <3> DEFINE n == call[x].attempts + 1
    <3>1. PICK late \in SUBSET (call[x].copies \cap {call[x].attempts}) :
            call' = [call EXCEPT ![x] =
              [attempts |-> n, reply |-> None,
               copies |-> ((@.copies \ {@.attempts}) \cup late) \cup {n}]]
      BY <2>2 DEF Repeat
    <3> DEFINE sent == ((call[x].copies \ {call[x].attempts}) \cup late) \cup {n}
               a == [attempts |-> n, reply |-> None, copies |-> sent]
    <3>2. n \in Nat /\ sent \in SUBSET Nat
      <4>1. /\ call[x].attempts \in Nat /\ call[x].copies \in SUBSET Nat
            /\ late \subseteq call[x].copies
        BY <3>1 DEF CallsOK, Calls
      <4> QED
        BY <4>1
    <3>3. call' = [call EXCEPT ![x] = a]
      BY <3>1
    <3> HIDE DEF n, sent
    <3>4. a \in Calls /\ a.reply = None
      BY <3>2 DEF Calls
    <3> QED
      BY <3>3, <3>4
  <2> QED
    BY <2>1, <2>2
<1> QED
  BY <1>1 DEF CallsOK

-----------------------------------------------------------------------------
(* The Agent's part of a step *)

\* The request that a submission makes is for the thread linked to the turn,
\* and nothing else of the Agent changes.
LEMMA ResumeAsks ==
  ASSUME CInv, NEW r \in Resumes, NEW p \in Pauses, row[p] # "none" \/ shown[p] > 0,
         Resume(r, p)
  PROVE  /\ \/ UNCHANGED agent
            \/ \E k \in Threads : Ask(r, k, p)
         /\ submission' = [submission EXCEPT ![r] = submission'[r]]
         /\ submission'[r] \in {"calling", "refused"}
         /\ CallsOK'
<1>1. linked[TurnOf(p)] \in Threads \cup {None}
  BY TurnOfPause DEF CInv, BridgeTypeOK
<1>2. CASE linked[TurnOf(p)] = None
  BY <1>2 DEF Resume, CInv, BridgeTypeOK, CallsOK
<1>3. CASE linked[TurnOf(p)] # None
  <2>1. /\ Ask(r, linked[TurnOf(p)], p)
        /\ submission' = [submission EXCEPT ![r] = "calling"]
        /\ call' = [call EXCEPT ![r] = FirstAttempt]
    BY <1>3 DEF Resume
  <2>2. CallsOK'
    BY <2>1, AttemptTyped DEF CInv, BridgeTypeOK
  <2>3. submission'[r] = "calling"
    BY <2>1 DEF CInv, BridgeTypeOK
  <2> QED
    BY <1>1, <1>3, <2>1, <2>2, <2>3
<1> QED
  BY <1>2, <1>3

\* A decision is written for a pause that has a row.
LEMMA ReadPause ==
  ASSUME CInv, NEW r \in Resumes, submission[r] = "read"
  PROVE  answer[r].pause \in Pauses /\ row[answer[r].pause] # "none"
BY DEF CInv, Answered, Answers

\* What the Backend does between two calls of the Agent.
BackendSteps ==
  \/ \E s \in Starts : LinkThread(s) \/ StartTurn(s) \/ StartTimesOut(s)
  \/ \E r \in Resumes : EndSubmission(r) \/ ResumeTimesOut(r)
  \/ \E h \in hooks : CancelActiveInputs(h) \/ CreatePendingInput(h) \/ PublishEvent(h)

\* The actions of the Agent's jobs and of their webhooks.
AgentSteps(k) ==
  \/ AgentCompletes(k) \/ AgentEndsCancelled(k) \/ AgentFails(k)
  \/ PostReplied(k) \/ PostTimesOut(k)
  \/ \E event \in EndEvents : AgentEmits(k, event)

LEMMA BackendStutters == BackendSteps => UNCHANGED agent
BY DEF BackendSteps, LinkThread, StartTurn, StartTimesOut, EndSubmission, ResumeTimesOut,
       CancelActiveInputs, CreatePendingInput, PublishEvent, UnchangedByHook

LEMMA AgentMoves ==
  ASSUME NEW k \in Threads,
         AgentSteps(k) \/ \E event \in PauseEvents : AgentPauses(k, event)
  PROVE  [RuntimeNext]_agent /\ UNCHANGED request
<1>1. CASE AgentCompletes(k) \/ AgentEndsCancelled(k) \/ AgentFails(k)
  BY <1>1 DEF AgentCompletes, AgentEndsCancelled, AgentFails, RuntimeNext,
              GraphCompletes, GraphEnds, Raises
<1>2. CASE PostReplied(k)
  BY <1>2 DEF PostReplied, AfterPost, RuntimeNext, Published, Reported, GraphEnds
<1>3. CASE PostTimesOut(k)
  <2>1. UNCHANGED agent \/ Raises(k) \/ Reported(k)
    BY <1>3 DEF PostTimesOut
  <2> QED
    BY <2>1 DEF RuntimeNext, agent, Raises, Reported
<1>4. CASE \E event \in EndEvents : AgentEmits(k, event)
  BY <1>4 DEF AgentEmits, agent
<1>5. CASE \E event \in PauseEvents : AgentPauses(k, event)
  BY <1>5 DEF AgentPauses, RuntimeNext, GraphInterrupts
<1> QED
  BY <1>1, <1>2, <1>3, <1>4, <1>5 DEF AgentSteps

\* Every step of the conversation is one of the runtime, or none.
LEMMA RuntimeStep ==
  ASSUME CInv, [ConversationNext]_vars
  PROVE  [RuntimeNext]_agent
<1>1. CASE UNCHANGED vars
  BY <1>1 DEF vars
<1>2. CASE BackendSteps
  BY <1>2, BackendStutters
<1>3. ASSUME NEW s \in Starts, NEW c \in Copies, StartArrives(s, c)
      PROVE  [RuntimeNext]_agent
  BY <1>3 DEF StartArrives, RuntimeNext
<1>4. ASSUME NEW r \in Resumes, NEW c \in Copies, ResumeArrives(r, c) \/ ResumeAccepted(r, c)
      PROVE  [RuntimeNext]_agent
  BY <1>4 DEF ResumeArrives, ResumeAccepted, RuntimeNext
<1>5. ASSUME NEW r \in Resumes, WriteDecision(r)
      PROVE  [RuntimeNext]_agent
  BY <1>5, ReadPause, ResumeAsks DEF WriteDecision, RuntimeNext
<1>6. ASSUME NEW r \in Resumes, NEW p \in Pauses, NEW choice \in Choices,
             SubmitInput(r, p, choice) \/ ReadDecision(r, p, choice)
      PROVE  [RuntimeNext]_agent
  BY <1>6, ResumeAsks DEF SubmitInput, ReadDecision, RuntimeNext
<1>7. ASSUME NEW k \in Threads,
             AgentSteps(k) \/ \E event \in PauseEvents : AgentPauses(k, event)
      PROVE  [RuntimeNext]_agent
  BY <1>7, AgentMoves
<1>8. CASE AgentRestarts
  BY <1>8 DEF AgentRestarts, RuntimeNext
<1>9. ASSUME NEW x \in queued, AgentBegins(x)
      PROVE  [RuntimeNext]_agent
  BY <1>9 DEF AgentBegins, RuntimeNext
<1> QED
  BY <1>1, <1>2, <1>3, <1>4, <1>5, <1>6, <1>7, <1>8, <1>9
  DEF ConversationNext, Progress, User, Faults, BackendSteps, AgentSteps
-----------------------------------------------------------------------------
(* What a step leaves alone *)

\* A thread never counts its pauses back, and has a start once it runs.
LEMMA RecordsGrow ==
  ASSUME CInv, [RuntimeNext]_agent, Inv'
  PROVE  /\ Started'
         /\ \A k \in Threads : record[k].pause <= record'[k].pause
<1>1. \A k \in Threads :
        /\ record[k] \in Record /\ Coherent(record[k], job[k])
        /\ record[k].pause \in Nat /\ record'[k].pause \in Nat
        /\ IF record[k].status = "absent" THEN record[k].pause = 0 ELSE record[k].start \in Starts
  BY RecordFields, RuntimeAssumption DEF CInv, Inv, RuntimeTypeOK, Record, Started
<1>2. record \in [Threads -> Record]
  BY DEF CInv, Inv, RuntimeTypeOK
<1> SUFFICES ASSUME NEW i \in Threads
             PROVE  /\ IF record'[i].status = "absent" THEN record'[i].pause = 0
                       ELSE record'[i].start \in Starts
                    /\ record[i].pause <= record'[i].pause
  BY DEF Started
<1>3. CASE record'[i] = record[i]
  BY <1>1, <1>3
<1>4. ASSUME NEW s \in Starts, AcceptStart(s), record'[i] # record[i]
      PROVE  record'[i].start \in Starts /\ record'[i].pause = record[i].pause
             /\ record'[i].status = "accepted"
  <2>1. PICK k \in Threads :
          record' = [record EXCEPT ![k].status = "accepted", ![k].start = s]
    BY <1>4 DEF AcceptStart, Repeated, agent
  <2>2. i = k
    BY <1>2, <1>4, <2>1
  <2> QED
    BY <1>2, <2>1, <2>2 DEF Record
<1>5. ASSUME NEW r \in Resumes, NEW c \in Copies, AcceptResume(r, c), record'[i] # record[i]
      PROVE  record'[i].start = record[i].start /\ record'[i].pause = record[i].pause
             /\ record[i].status = "waiting" /\ record'[i].status = "running"
  <2>1. StillWaiting(r)
    BY <1>5 DEF AcceptResume
  <2>2. record[request[r].thread].status = "waiting"
    BY <2>1 DEF StillWaiting, Waiting
  <2>3. record' = [record EXCEPT ![request[r].thread].status = "running",
                                 ![request[r].thread].active = r,
                                 ![request[r].thread].requests = @ \cup {r}]
    BY <1>5, <2>1 DEF AcceptResume
  <2>4. i = request[r].thread
    BY <1>2, <1>5, <2>3
  <2> QED
    BY <1>2, <2>2, <2>3, <2>4 DEF Record
<1>6. ASSUME NEW k \in Threads, record'[i] # record[i], RunSteps(k)
      PROVE  /\ record'[i].start = record[i].start /\ record[i].pause <= record'[i].pause
             /\ record[i].status # "absent" /\ record'[i].status # "absent"
  <2>0. job[k] # "idle" => record[k].status # "absent"
    BY <1>1, RecordFields DEF Coherent, CInv, Inv, Jobs
  <2>1. CASE GraphInterrupts(k)
    <3>1. record' = [record EXCEPT ![k].pause = @ + 1] /\ job[k] = "graph"
      BY <2>1 DEF GraphInterrupts
    <3>2. i = k
      BY <1>2, <1>6, <3>1
    <3> QED
      BY <1>1, <1>2, <3>1, <3>2 DEF Record, Coherent
  <2>2. CASE GraphCompletes(k)
    BY <1>6, <2>2 DEF GraphCompletes
  <2>3. CASE Raises(k) \/ Published(k) \/ Reported(k)
             \/ \E s \in {"completed", "failed"} : GraphEnds(k, s)
    <3>1. PICK status \in {"waiting", "completed", "failed"} :
            SetStatus(k, status) /\ job[k] # "idle"
      BY <2>3 DEF Raises, Published, Reported, GraphEnds
    <3>2. i = k
      BY <1>2, <1>6, <3>1 DEF SetStatus
    <3>3. /\ record'[i].start = record[i].start /\ record'[i].pause = record[i].pause
          /\ record'[i].status = status
      BY <1>1, <1>2, <3>1, <3>2 DEF SetStatus, Record
    <3> QED
      BY <1>1, <2>0, <3>1, <3>2, <3>3
  <2> QED
    BY <1>6, <2>1, <2>2, <2>3 DEF RunSteps
<1>7. CASE Restart
  <2>1. record'[i] = IF Known(i) THEN [record[i] EXCEPT !.status = "lost", !.active = None]
                     ELSE record[i]
    BY <1>7 DEF Restart
  <2> QED
    BY <1>1, <2>1 DEF Known, Record
<1>8. ASSUME NEW r \in Resumes,
             \/ \E k \in Threads, p \in Pauses : Ask(r, k, p)
             \/ \E c \in Copies : Validate(r, c)
      PROVE  record'[i] = record[i]
  BY <1>8 DEF Ask, Validate
<1>9. ASSUME NEW x \in queued, Begin(x), record'[i] # record[i]
      PROVE  /\ record'[i].start = record[i].start /\ record'[i].pause = record[i].pause
             /\ record[i].status # "absent" /\ record'[i].status # "absent"
  <2>1. CanBegin(x)
    BY <1>9 DEF Begin
  <2>2. PICK k \in Threads : k = ThreadOf(x)
    BY TaskThread DEF CInv
  <2>3. /\ record[k].status \in {"accepted", "running"} /\ Moves(k, record'[k], "graph")
        /\ record'[k].status = "running" /\ record'[k].pause = record[k].pause
        /\ record'[k].start = record[k].start
    BY <1>9, <2>1, <2>2, BeginMoves DEF CInv
  <2>4. i = k
    BY <1>2, <1>9, <2>3 DEF Moves
  <2> QED
    BY <2>3, <2>4
<1> QED
  BY <1>1, <1>3, <1>4, <1>5, <1>6, <1>7, <1>8, <1>9 DEF RuntimeNext, RunSteps, agent

\* A row whose answer has been given keeps it; a decision stays one.
RowKept(p) ==
  /\ row[p] \in {"consumed", "decided"} => row'[p] = row[p]
  /\ row[p] = "pending" => row'[p] \in {"pending", "decided"}
  /\ row'[p] = "consumed" => row[p] = "consumed"

\* Only the call of a submission goes on.
SubmissionsGoOn ==
  /\ submission' \in [Resumes -> Submissions]
  /\ \A r \in Resumes :
       submission'[r] = submission[r] \/ {submission[r], submission'[r]} \cap {"idle", "read"} = {}

LEMMA AnswersKept ==
  ASSUME CInv, UNCHANGED <<answer, request>>, SubmissionsGoOn, \A p \in Pauses : RowKept(p)
  PROVE  Answered' /\ ConsumedOnce'
<1>1. \A r \in Resumes : submission[r] # "idle" =>
        answer[r] \in Answers /\ answer[r].pause \in Pauses
  BY DEF CInv, Answered, Answers
<1>2. \A r \in Resumes :
        /\ submission'[r] = "idle" <=> submission[r] = "idle"
        /\ submission'[r] = "read" <=> submission[r] = "read"
  BY DEF SubmissionsGoOn
<1>3. Answered'
  <2> SUFFICES ASSUME NEW r \in Resumes
               PROVE  /\ submission'[r] = "idle" => answer[r] = None
                      /\ submission'[r] = "read" =>
                           answer[r] \in Answers /\ row'[answer[r].pause] \in {"pending", "decided"}
                      /\ submission'[r] \notin {"idle", "read"} =>
                           answer[r] \in Answers /\ row'[answer[r].pause] \in {"consumed", "decided"}
                      /\ request[r] # None => submission'[r] \notin {"idle", "read"}
    BY DEF Answered
  <2>1. CASE submission[r] = "idle"
    BY <1>2, <2>1 DEF CInv, Answered
  <2>2. CASE submission[r] # "idle"
    <3>1. RowKept(answer[r].pause)
      BY <1>1, <2>2
    <3> QED
      BY <1>1, <1>2, <2>2, <3>1 DEF CInv, Answered, RowKept
  <2> QED
    BY <2>1, <2>2
<1>4. ConsumedOnce'
  <2> SUFFICES ASSUME NEW q \in Resumes, NEW r \in Resumes,
                      submission'[q] # "idle", submission'[r] # "idle",
                      answer[q].pause = answer[r].pause, row'[answer[r].pause] = "consumed"
               PROVE  q = r
    BY DEF ConsumedOnce
  <2>1. row[answer[r].pause] = "consumed"
    BY <1>1, <1>2 DEF RowKept
  <2> QED
    BY <1>2, <2>1 DEF CInv, ConsumedOnce
<1> QED
  BY <1>3, <1>4

\* No new webhook of a pause, no new row, nothing more on the stream.
LEMMA PausesKept ==
  ASSUME CInv, \A k \in Threads : record[k].pause <= record'[k].pause, Inv',
         PauseHooks' \subseteq PauseHooks, UNCHANGED <<row, shown>>
  PROVE  Reached' /\ OneHook' /\ ShownOnce'
<1>1. \A k \in Threads : record[k].pause \in Nat /\ record'[k].pause \in Nat
  BY RuntimeAssumption DEF CInv, Inv, RuntimeTypeOK, Record
<1>2. Reached'
  <2> SUFFICES ASSUME NEW p \in Pauses, row[p] # "none" \/ shown[p] > 0
               PROVE  p[2] <= record'[p[1]].pause
    BY DEF Reached
  <2>1. p[1] \in Threads /\ p[2] \in Nat /\ p[2] <= record[p[1]].pause
    BY PauseParts DEF CInv, Reached
  <2> QED
    BY <1>1, <2>1
<1>3. OneHook'
  <2> SUFFICES ASSUME NEW h \in PauseHooks'
               PROVE  /\ h.pause \in 1 .. record'[h.thread].pause
                      /\ h.point # "published" => shown[PauseOf(h)] = 0
                      /\ h.event = "need_input" /\ h.point \in {"sent", "cleared"} =>
                           row[PauseOf(h)] = "none"
                      /\ \A g \in PauseHooks' : PauseOf(g) = PauseOf(h) => g = h
    BY DEF OneHook, PauseOf
  <2>1. h \in PauseHooks /\ h.thread \in Threads
    BY DEF CInv, BridgeTypeOK, HookType, PauseHooks
  <2>2. h.pause \in 1 .. record[h.thread].pause
    BY <2>1 DEF CInv, OneHook
  <2> QED
    BY <1>1, <2>1, <2>2 DEF CInv, OneHook
<1>4. ShownOnce'
  BY DEF CInv, ShownOnce
<1> QED
  BY <1>2, <1>3, <1>4

-----------------------------------------------------------------------------
(* Steps that leave the rows and the stream's pauses alone *)

LEMMA QuietStep ==
  ASSUME CInv, [RuntimeNext]_agent, Inv', UNCHANGED <<answer, request, row, shown>>,
         linked' \in [Starts -> Threads \cup {None}], CallsOK', SubmissionsGoOn,
         hooks' \subseteq HookType, posting' \in [Threads -> PostType],
         PauseHooks' \subseteq PauseHooks
  PROVE  CInv'
<1>1. Started' /\ \A k \in Threads : record[k].pause <= record'[k].pause
  BY RecordsGrow
<1>2. BridgeTypeOK'
  BY DEF CInv, BridgeTypeOK, SubmissionsGoOn
<1>3. Reached' /\ OneHook' /\ ShownOnce'
  BY <1>1, PausesKept
<1>4. Answered' /\ ConsumedOnce'
  BY AnswersKept DEF RowKept
<1> QED
  BY <1>1, <1>2, <1>3, <1>4 DEF CInv

CallsGoOn ==
  CallsOK' /\ linked' \in [Starts -> Threads \cup {None}] /\ SubmissionsGoOn

\* Steps of a call.
LEMMA CallStep ==
  ASSUME CInv, Inv',
         \/ \E s \in Starts : LinkThread(s) \/ StartTurn(s) \/ StartTimesOut(s)
         \/ \E s \in Starts, c \in Copies : StartArrives(s, c)
         \/ \E r \in Resumes : EndSubmission(r) \/ ResumeTimesOut(r)
         \/ \E r \in Resumes, c \in Copies : ResumeArrives(r, c) \/ ResumeAccepted(r, c)
  PROVE  CInv'
<1> USE DEF BridgeTypeOK, CallsGoOn
<1>1. UNCHANGED <<answer, row, shown, hooks, posting>> /\ [RuntimeNext]_agent
  <2>1. \A s \in Starts, c \in Copies : StartArrives(s, c) =>
          UNCHANGED <<answer, row, shown, hooks, posting>> /\ [RuntimeNext]_agent
    BY DEF StartArrives, RuntimeNext
  <2>2. \A r \in Resumes, c \in Copies : ResumeArrives(r, c) \/ ResumeAccepted(r, c) =>
          UNCHANGED <<answer, row, shown, hooks, posting>> /\ [RuntimeNext]_agent
    BY DEF ResumeArrives, ResumeAccepted, RuntimeNext
  <2> QED
    BY <2>1, <2>2 DEF LinkThread, StartTurn, StartTimesOut, EndSubmission, ResumeTimesOut
<1>2. UNCHANGED request
  BY DEF LinkThread, StartTurn, StartTimesOut, StartArrives, EndSubmission, ResumeTimesOut,
         ResumeArrives, ResumeAccepted, AcceptStart, Repeated, Validate, AcceptResume, agent
<1>3. UNCHANGED PauseHooks
  BY <1>1 DEF PauseHooks
<1>4. CallsGoOn
  <2>0. CallsOK /\ UNCHANGED submission => SubmissionsGoOn
    BY DEF SubmissionsGoOn, CInv
  <2>1. ASSUME NEW s \in Starts, LinkThread(s) PROVE CallsGoOn
    BY <2>0, <2>1 DEF LinkThread, CInv, CallsOK
  <2>2. ASSUME NEW s \in Starts, StartTurn(s) \/ StartTimesOut(s) PROVE CallsGoOn
    <3>1. UNCHANGED <<linked, submission>>
          /\ (call' = [call EXCEPT ![s] = FirstAttempt] \/ Repeat(s) \/ UNCHANGED call)
      BY <2>2 DEF StartTurn, StartTimesOut
    <3> QED
      BY <2>0, <3>1, AttemptTyped DEF CInv, CallsOK
  <2>3. ASSUME NEW s \in Starts, NEW c \in Copies, StartArrives(s, c) PROVE CallsGoOn
    <3>1. UNCHANGED <<linked, submission>> /\ Replies(s, c, thread'[s])
      BY <2>3 DEF StartArrives
    <3>2. thread'[s] \in Threads \cup {None} /\ s \notin Resumes
      BY RuntimeAssumption DEF Inv, RuntimeTypeOK
    <3> QED
      BY <2>0, <3>1, <3>2, RepliesTyped DEF CInv
  <2>4. ASSUME NEW r \in Resumes, EndSubmission(r) PROVE CallsGoOn
    <3>1. /\ submission[r] = "calling" /\ call[r].reply \in {"accepted", "refused"}
          /\ submission' = [submission EXCEPT ![r] = call[r].reply]
          /\ UNCHANGED <<call, linked>>
      BY <2>4 DEF EndSubmission, CInv, CallsOK
    <3> QED
      BY <3>1 DEF CInv, CallsOK, SubmissionsGoOn, Submissions
  <2>5. ASSUME NEW r \in Resumes, ResumeTimesOut(r) PROVE CallsGoOn
    <3>1. CASE Repeat(r) /\ UNCHANGED submission
      BY <2>0, <2>5, <3>1, AttemptTyped DEF ResumeTimesOut, CInv
    <3>2. CASE UNCHANGED call /\ submission' = [submission EXCEPT ![r] = "refused"]
      BY <2>5, <3>2 DEF ResumeTimesOut, CInv, CallsOK, SubmissionsGoOn, Submissions
    <3> QED
      BY <2>5, <3>1, <3>2 DEF ResumeTimesOut
  <2>6. ASSUME NEW r \in Resumes, NEW c \in Copies, ResumeArrives(r, c) \/ ResumeAccepted(r, c)
        PROVE  CallsGoOn
    <3>1. /\ UNCHANGED <<linked, submission>> /\ r \notin Starts
          /\ \/ \E reply \in {"accepted", "refused"} : Replies(r, c, reply)
             \/ call' = [call EXCEPT ![r].copies = @ \ {c}]
      BY <2>6, RuntimeAssumption DEF ResumeArrives, ResumeAccepted
    <3>2. CASE call' = [call EXCEPT ![r].copies = @ \ {c}]
      <4>1. Replies(r, c, call[r].reply)
        BY <3>2 DEF Replies, CInv, CallsOK, Calls
      <4> QED
        BY <2>0, <3>1, <4>1, RepliesTyped DEF CInv, CallsOK
    <3> QED
      BY <2>0, <3>1, <3>2, RepliesTyped DEF CInv
  <2> QED
    BY <2>1, <2>2, <2>3, <2>4, <2>5, <2>6
<1> QED
  BY <1>1, <1>2, <1>3, <1>4, QuietStep DEF CInv

LEMMA HookTyped ==
  ASSUME CInv, Inv', NEW k \in Threads, NEW event \in PauseEvents \cup EndEvents, NEW n \in Nat
  PROVE  Hook(k, event, n, "sent") \in HookType
<1>1. record'[k].pause \in 0 .. MaxPauses
  BY DEF Inv, RuntimeTypeOK, Record
<1> QED
  BY <1>1 DEF Hook, HookType

\* Posting the end of a turn, or the same once more.
LEMMA EndPosted ==
  ASSUME CInv, Inv', NEW k \in Threads, NEW event \in EndEvents, NEW n \in Nat,
         NEW late, late \subseteq hooks, Post(k, event, n, late)
  PROVE  hooks' \subseteq HookType /\ posting' \in [Threads -> PostType]
         /\ PauseHooks' \subseteq PauseHooks
<1>1. /\ hooks' = late \cup {Hook(k, event, n, "sent")}
      /\ posting' = [posting EXCEPT ![k] = [event |-> event, attempt |-> n]]
  BY DEF Post
<1>2. Hook(k, event, n, "sent") \in HookType
  BY HookTyped
<1>3. [event |-> event, attempt |-> n] \in PostType
  BY DEF PostType
<1>4. event \notin PauseEvents /\ Hook(k, event, n, "sent").event = event
  BY DEF PauseEvents, EndEvents, Hook
<1> QED
  BY <1>1, <1>2, <1>3, <1>4 DEF CInv, BridgeTypeOK, PauseHooks

LEMMA PostingStopped ==
  ASSUME CInv, NEW k \in Threads, StopsPosting(k), hooks' \subseteq hooks
  PROVE  hooks' \subseteq HookType /\ posting' \in [Threads -> PostType]
         /\ PauseHooks' \subseteq PauseHooks
BY DEF CInv, BridgeTypeOK, StopsPosting, PostType, NoPost, PauseHooks

\* Steps of a job that announce no pause.
LEMMA AgentStep ==
  ASSUME CInv, Inv', \/ \E k \in Threads : AgentSteps(k)
                     \/ \E x \in queued : AgentBegins(x)
                     \/ AgentRestarts
  PROVE  CInv'
<1>1. CASE AgentRestarts
  <2>1. [RuntimeNext]_agent /\ UNCHANGED request
    BY <1>1 DEF AgentRestarts, RuntimeNext, Restart
  <2>2. /\ hooks' \subseteq hooks /\ posting' = [k \in Threads |-> NoPost]
        /\ UNCHANGED <<row, unreported, turn, linked, submission, answer, call, shown, ends>>
    BY <1>1 DEF AgentRestarts, UnchangedBackend
  <2>3. CallsOK' /\ SubmissionsGoOn /\ linked' \in [Starts -> Threads \cup {None}]
    BY <2>2 DEF CallsOK, SubmissionsGoOn, CInv, BridgeTypeOK
  <2>4. posting' \in [Threads -> PostType] /\ hooks' \subseteq HookType
        /\ PauseHooks' \subseteq PauseHooks
    BY <2>2 DEF NoPost, PostType, CInv, BridgeTypeOK, PauseHooks
  <2> QED
    BY <2>1, <2>2, <2>3, <2>4, QuietStep
<1>2. ASSUME NEW k \in Threads, AgentSteps(k)
      PROVE  CInv'
  <2>1. [RuntimeNext]_agent /\ UNCHANGED request
    BY <1>2, AgentMoves
  <2>2. UNCHANGED <<turn, linked, submission, answer, call, row, shown, ends>>
    BY <1>2 DEF AgentSteps, AgentCompletes, AgentEndsCancelled, AgentFails,
                PostReplied, PostTimesOut, AgentEmits, UnchangedBackend, bridge
  <2>3. CallsOK' /\ SubmissionsGoOn /\ linked' \in [Starts -> Threads \cup {None}]
    BY <2>2 DEF CallsOK, SubmissionsGoOn, CInv, BridgeTypeOK
  <2>4. hooks' \subseteq HookType /\ posting' \in [Threads -> PostType]
        /\ PauseHooks' \subseteq PauseHooks
    <3>1. CASE AgentEndsCancelled(k)
      BY <3>1 DEF AgentEndsCancelled, bridge, CInv, BridgeTypeOK, PauseHooks
    <3>2. CASE AgentCompletes(k) \/ AgentFails(k) \/ \E event \in EndEvents : AgentEmits(k, event)
      <4>1. PICK event \in EndEvents : Post(k, event, 1, hooks)
        BY <3>2 DEF AgentCompletes, AgentFails, AgentEmits, EndEvents
      <4> QED
        BY <4>1, EndPosted
    <3>3. CASE PostReplied(k)
      BY <3>3, PostingStopped DEF PostReplied
    <3>4. CASE PostTimesOut(k)
      <4>1. PICK late \in SUBSET hooks :
              \/ /\ Retryable(posting[k].event)
                 /\ Post(k, posting[k].event, posting[k].attempt + 1, late)
              \/ Post(k, "error", 1, late)
              \/ StopsPosting(k) /\ hooks' = late
        <5> DEFINE current == {h \in hooks : /\ h.thread = k /\ h.event = posting[k].event
                                             /\ h.attempt = posting[k].attempt}
                   working == {h \in current : h.point # "published"}
        <5>1. PICK late \in {hooks \ current, (hooks \ current) \cup working} :
                \/ /\ Retryable(posting[k].event)
                   /\ Post(k, posting[k].event, posting[k].attempt + 1, late)
                \/ Post(k, "error", 1, late)
                \/ StopsPosting(k) /\ hooks' = late
          BY <3>4 DEF PostTimesOut
        <5>2. late \in SUBSET hooks
          BY <5>1
        <5> QED
          BY <5>1, <5>2
      <4>2. CASE Post(k, "error", 1, late)
        BY <4>2, EndPosted DEF EndEvents
      <4>3. CASE StopsPosting(k) /\ hooks' = late
        BY <4>3, PostingStopped
      <4>4. CASE /\ Retryable(posting[k].event)
                 /\ Post(k, posting[k].event, posting[k].attempt + 1, late)
        <5>1. posting[k].event \in EndEvents /\ posting[k].attempt + 1 \in Nat
          BY <4>4 DEF Retryable, EndEvents, CInv, BridgeTypeOK, PostType
        <5> QED
          BY <4>4, <5>1, EndPosted
      <4> QED
        BY <4>1, <4>2, <4>3, <4>4
    <3> QED
      BY <1>2, <3>1, <3>2, <3>3, <3>4 DEF AgentSteps
  <2> QED
    BY <2>1, <2>2, <2>3, <2>4, QuietStep
<1>3. ASSUME NEW x \in queued, AgentBegins(x)
      PROVE  CInv'
  <2>1. [RuntimeNext]_agent /\ UNCHANGED request
    BY <1>3 DEF AgentBegins, RuntimeNext, Begin
  <2>2. UNCHANGED <<turn, linked, submission, answer, call, row, hooks, posting, shown, ends>>
    BY <1>3 DEF AgentBegins, bridge
  <2>3. CallsOK' /\ SubmissionsGoOn /\ linked' \in [Starts -> Threads \cup {None}]
    BY <2>2 DEF CallsOK, SubmissionsGoOn, CInv, BridgeTypeOK
  <2>4. hooks' \subseteq HookType /\ posting' \in [Threads -> PostType]
        /\ PauseHooks' \subseteq PauseHooks
    BY <2>2 DEF CInv, BridgeTypeOK, PauseHooks
  <2> QED
    BY <2>1, <2>2, <2>3, <2>4, QuietStep
<1> QED
  BY <1>1, <1>2, <1>3

-----------------------------------------------------------------------------
(* Steps about one pause *)

\* The graph comes to a pause: its webhook carries a number no row, no other
\* webhook and nothing on the stream has.
LEMMA PauseStep ==
  ASSUME CInv, Inv', NEW k \in Threads, NEW event \in PauseEvents, AgentPauses(k, event)
  PROVE  CInv'
<1> DEFINE n == record[k].pause + 1
           p == <<k, n>>
           new == Hook(k, event, 1, "sent")
<1>1. [RuntimeNext]_agent /\ UNCHANGED request
  BY AgentMoves
<1>2. Started' /\ \A i \in Threads : record[i].pause <= record'[i].pause
  BY <1>1, RecordsGrow
<1>3. /\ job[k] = "graph" /\ record' = [record EXCEPT ![k].pause = n]
      /\ posting' = [posting EXCEPT ![k] = [event |-> event, attempt |-> 1]]
      /\ hooks' = hooks \cup {new}
      /\ row' = IF event = "need_decision" THEN [row EXCEPT ![<<k, record'[k].pause>>] = "pending"]
                ELSE row
      /\ UNCHANGED <<turn, linked, submission, answer, call, shown, ends>>
  BY DEF AgentPauses, GraphInterrupts, Post, UnchangedBackend
<1>4. /\ record \in [Threads -> Record] /\ record[k].pause \in Nat /\ MaxPauses \in Nat
      /\ record[k].pause < MaxPauses
  BY RuntimeAssumption DEF CInv, Inv, RuntimeTypeOK, Record, AgentPauses, GraphInterrupts
<1>5. /\ record'[k].pause = n /\ \A i \in Threads \ {k} : record'[i].pause = record[i].pause
      /\ n \in 1 .. MaxPauses /\ p \in Pauses
  BY <1>3, <1>4 DEF Record, Pauses
<1>6. /\ row[p] = "none" /\ ~(shown[p] > 0) /\ shown[p] \in Nat
      /\ row' = IF event = "need_decision" THEN [row EXCEPT ![p] = "pending"] ELSE row
  <2>1. p[1] = k /\ p[2] = n
    OBVIOUS
  <2> HIDE DEF p, n
  <2>2. ~(n <= record[k].pause)
    BY <1>4 DEF n
  <2> QED
    BY <1>3, <1>5, <2>1, <2>2 DEF CInv, Reached, BridgeTypeOK, p
<1>7. /\ new \in HookType /\ new.thread = k /\ new.pause = n /\ new.point = "sent"
      /\ new.event = event /\ PauseOf(new) = p
  <2>1. new \in HookType
    BY HookTyped
  <2> QED
    BY <1>5, <2>1 DEF Hook, PauseOf
<1> HIDE DEF n, p, new
<1>8. BridgeTypeOK'
  <2>1. CallsOK'
    BY <1>3 DEF CInv, BridgeTypeOK, CallsOK
  <2>2. [event |-> event, attempt |-> 1] \in PostType
    BY DEF PostType
  <2> QED
    BY <1>3, <1>6, <1>7, <2>1, <2>2 DEF CInv, BridgeTypeOK, Rows
<1>9. \A q \in Pauses \ {p} : row'[q] = row[q]
  BY <1>5, <1>6 DEF CInv, BridgeTypeOK
<1>10. row'[p] \in {"none", "pending"} /\ (event = "need_input" => row'[p] = "none")
  BY <1>5, <1>6 DEF CInv, BridgeTypeOK
<1>11. Reached' /\ ShownOnce'
  <2>1. ShownOnce'
    BY <1>3 DEF CInv, ShownOnce
  <2> SUFFICES ASSUME NEW q \in Pauses, row'[q] # "none" \/ shown[q] > 0
               PROVE  q[2] <= record'[q[1]].pause
    BY <1>3, <2>1 DEF Reached
  <2>2. CASE q = p
    BY <1>4, <1>5, <2>2 DEF p, n
  <2>3. CASE q # p
    <3>1. q[1] \in Threads /\ q[2] \in Nat /\ q[2] <= record[q[1]].pause
      BY <1>9, <2>3, PauseParts DEF CInv, Reached
    <3> QED
      BY <1>4, <1>5, <3>1 DEF n
  <2> QED
    BY <2>2, <2>3
<1>12. PauseHooks' = PauseHooks \cup {new}
  BY <1>3, <1>7 DEF PauseHooks
<1>13. \A h \in PauseHooks :
         /\ h.thread \in Threads /\ h.pause \in 1 .. record[h.thread].pause
         /\ record[h.thread].pause \in Nat /\ PauseOf(h) \in Pauses /\ PauseOf(h) # p
  <2> TAKE h \in PauseHooks
  <2>1. h.thread \in Threads /\ h.pause \in 1 .. record[h.thread].pause /\ h \in HookType
    BY DEF CInv, BridgeTypeOK, HookType, PauseHooks, OneHook
  <2>2. record[h.thread].pause \in 0 .. MaxPauses
    BY <1>4, <2>1 DEF Record
  <2>3. PauseOf(h) \in Pauses
    BY <1>4, <2>1, <2>2 DEF PauseOf, Pauses
  <2>4. PauseOf(h) # p
    BY <1>4, <2>1, <2>2 DEF PauseOf, p, n
  <2> QED
    BY <2>1, <2>2, <2>3, <2>4
<1>14. OneHook'
  <2>1. \A h \in PauseHooks :
          /\ h.pause \in 1 .. record'[h.thread].pause
          /\ h.point # "published" => shown[PauseOf(h)] = 0
          /\ h.event = "need_input" /\ h.point \in {"sent", "cleared"} => row'[PauseOf(h)] = "none"
          /\ \A g \in PauseHooks \cup {new} : PauseOf(g) = PauseOf(h) => g = h
    <3> TAKE h \in PauseHooks
    <3>1. record'[h.thread].pause \in Nat /\ record[h.thread].pause <= record'[h.thread].pause
      BY <1>4, <1>5, <1>13 DEF n
    <3> QED
      BY <1>7, <1>9, <1>13, <3>1 DEF CInv, OneHook
  <2>2. /\ new.pause \in 1 .. record'[new.thread].pause
        /\ shown[PauseOf(new)] = 0
        /\ new.event = "need_input" => row'[PauseOf(new)] = "none"
        /\ \A g \in PauseHooks \cup {new} : PauseOf(g) = PauseOf(new) => g = new
    BY <1>5, <1>6, <1>7, <1>10, <1>13
  <2> QED
    BY <1>3, <1>12, <2>1, <2>2 DEF OneHook, PauseOf
<1>15. SubmissionsGoOn
  BY <1>3 DEF SubmissionsGoOn, CInv, BridgeTypeOK
<1>16. \A q \in Pauses : RowKept(q)
  BY <1>6, <1>9, <1>10 DEF RowKept
<1>17. Answered' /\ ConsumedOnce'
  BY <1>1, <1>3, <1>15, <1>16, AnswersKept
<1> QED
  BY <1>2, <1>8, <1>11, <1>14, <1>17 DEF CInv

\* A webhook of a pause, as its fields.
LEMMA PauseHookFields ==
  ASSUME CInv, NEW h \in hooks
  PROVE  /\ h \in HookType /\ h.thread \in Threads
         /\ h.event \in PauseEvents => h \in PauseHooks /\ PauseOf(h) \in Pauses
<1>1. h \in HookType /\ h.thread \in Threads
  BY DEF CInv, BridgeTypeOK, HookType
<1>2. ASSUME h.event \in PauseEvents PROVE h \in PauseHooks /\ PauseOf(h) \in Pauses
  <2>1. h \in PauseHooks /\ h.pause \in 1 .. record[h.thread].pause
    BY <1>2 DEF PauseHooks, CInv, OneHook
  <2>2. record[h.thread].pause \in 0 .. MaxPauses /\ MaxPauses \in Nat
    BY <1>1, RecordFields, RuntimeAssumption DEF CInv, Inv
  <2> QED
    BY <1>1, <2>1, <2>2 DEF PauseOf, Pauses
<1> QED
  BY <1>1, <1>2

\* A step of receive_agent_webhook: one webhook goes on, or its reply is
\* dropped; the rows and the stream change in a way that keeps what is known.
LEMMA HookStep ==
  ASSUME CInv, NEW h \in hooks, NEW point,
         Advance(h, point) \/ hooks' = hooks \ {h},
         point \in {"cleared", "registered", "published"}, point = "published" \/ h \in PauseHooks,
         UnchangedByHook, row' \in [Pauses -> Rows], shown' \in [Pauses -> Nat],
         \A p \in Pauses : RowKept(p),
         \A p \in Pauses : p # PauseOf(h) \/ h \notin PauseHooks =>
           /\ row[p] = "none" => row'[p] = "none"
           /\ shown'[p] = shown[p],
         h \in PauseHooks =>
           /\ shown'[PauseOf(h)] <= 1
           /\ Advance(h, point) /\ point # "published" => shown'[PauseOf(h)] = 0
           /\ Advance(h, point) /\ h.event = "need_input" /\ point = "cleared" =>
                row'[PauseOf(h)] = "none"
  PROVE  CInv'
<1> DEFINE new == [h EXCEPT !.point = point]
<1>1. /\ UNCHANGED <<agent, turn, linked, submission, answer, call, posting, unreported, faults>>
      /\ UNCHANGED <<record, request, thread, job, validated, restarts>>
  BY DEF UnchangedByHook, agent
<1>2. Inv'
  BY <1>1, InvStep DEF CInv
<1>3. /\ h \in HookType /\ h.thread \in Threads
      /\ h.event \in PauseEvents => h \in PauseHooks /\ PauseOf(h) \in Pauses
  BY PauseHookFields
<1>4. /\ new \in HookType /\ new.thread = h.thread /\ new.pause = h.pause /\ new.event = h.event
      /\ new.point = point /\ PauseOf(new) = PauseOf(h)
  BY <1>3 DEF HookType, PauseOf
<1>5. hooks' = (hooks \ {h}) \cup {new} \/ hooks' = hooks \ {h}
  BY DEF Advance
<1> HIDE DEF new
<1>6. BridgeTypeOK'
  <2>1. CallsOK'
    BY <1>1 DEF CInv, BridgeTypeOK, CallsOK
  <2> QED
    BY <1>1, <1>4, <1>5, <2>1 DEF CInv, BridgeTypeOK
<1>7. Started'
  BY <1>1 DEF CInv, Started
<1>8. Reached'
  <2> SUFFICES ASSUME NEW p \in Pauses, row'[p] # "none" \/ shown'[p] > 0
               PROVE  p[2] <= record[p[1]].pause
    BY <1>1 DEF Reached
  <2>1. CASE row[p] # "none" \/ shown[p] > 0
    BY <2>1 DEF CInv, Reached
  <2>2. CASE row[p] = "none" /\ ~(shown[p] > 0)
    <3>1. h \in PauseHooks /\ p = PauseOf(h)
      BY <2>2
    <3>2. h.pause \in 1 .. record[h.thread].pause /\ record[h.thread].pause \in 0 .. MaxPauses
      BY <1>3, <3>1, RecordFields DEF CInv, OneHook, Inv
    <3> QED
      BY <3>1, <3>2, RuntimeAssumption DEF PauseOf
  <2> QED
    BY <2>1, <2>2
<1>9. PauseHooks' = {g \in hooks' : g.event \in PauseEvents}
  BY DEF PauseHooks
<1>10. ShownOnce'
  BY <1>3 DEF CInv, ShownOnce
<1>11. \A g \in PauseHooks \ {h} :
         /\ g.pause \in 1 .. record[g.thread].pause
         /\ g.point # "published" => shown'[PauseOf(g)] = 0
         /\ g.event = "need_input" /\ g.point \in {"sent", "cleared"} => row'[PauseOf(g)] = "none"
         /\ h \in PauseHooks => PauseOf(g) # PauseOf(h)
         /\ \A f \in PauseHooks : PauseOf(f) = PauseOf(g) => f = g
  <2> TAKE g \in PauseHooks \ {h}
  <2>1. PauseOf(g) \in Pauses /\ (h \in PauseHooks => PauseOf(g) # PauseOf(h))
    BY PauseHookFields DEF CInv, OneHook, PauseHooks
  <2> QED
    BY <2>1 DEF CInv, OneHook
<1>12. OneHook'
  <2> SUFFICES ASSUME NEW g \in PauseHooks'
               PROVE  /\ g.pause \in 1 .. record[g.thread].pause
                      /\ g.point # "published" => shown'[PauseOf(g)] = 0
                      /\ g.event = "need_input" /\ g.point \in {"sent", "cleared"} =>
                           row'[PauseOf(g)] = "none"
                      /\ \A f \in PauseHooks' : PauseOf(f) = PauseOf(g) => f = g
    BY <1>1 DEF OneHook, PauseOf
  <2>1. CASE g \in PauseHooks \ {h}
    <3>1. \A f \in PauseHooks' : f \in PauseHooks \ {h} \/ (f = new /\ h \in PauseHooks)
      BY <1>3, <1>4, <1>5, <1>9 DEF PauseHooks
    <3> QED
      BY <1>4, <1>11, <2>1, <3>1
  <2>2. CASE g = new /\ h \in PauseHooks /\ hooks' = (hooks \ {h}) \cup {new}
    <3>1. \A f \in PauseHooks' : f \in PauseHooks \ {h} \/ f = new
      BY <1>4, <1>5, <1>9 DEF PauseHooks
    <3>2. Advance(h, point)
      BY <2>2 DEF Advance, new
    <3>3. h.pause \in 1 .. record[h.thread].pause
      BY <2>2 DEF CInv, OneHook
    <3> QED
      BY <1>4, <1>11, <2>2, <3>1, <3>2, <3>3
  <2> QED
    BY <1>3, <1>4, <1>5, <1>9, <2>1, <2>2 DEF PauseHooks
<1>13. Answered' /\ ConsumedOnce'
  <2>1. SubmissionsGoOn
    BY <1>1 DEF SubmissionsGoOn, CInv, BridgeTypeOK
  <2> QED
    BY <1>1, <2>1, AnswersKept
<1> QED
  BY <1>2, <1>6, <1>7, <1>8, <1>10, <1>12, <1>13 DEF CInv

LEMMA WebhookStep ==
  ASSUME CInv, NEW h \in hooks,
         CancelActiveInputs(h) \/ CreatePendingInput(h) \/ PublishEvent(h)
  PROVE  CInv'
<1>1. /\ h \in HookType /\ h.thread \in Threads
      /\ h.event \in PauseEvents => h \in PauseHooks /\ PauseOf(h) \in Pauses
      /\ h \in PauseHooks => h.event \in PauseEvents
  BY PauseHookFields DEF PauseHooks
<1>2. /\ row \in [Pauses -> Rows] /\ shown \in [Pauses -> Nat]
      /\ \A p \in Pauses : shown[p] <= 1
      /\ h \in PauseHooks =>
           /\ h.point # "published" => shown[PauseOf(h)] = 0
           /\ h.event = "need_input" /\ h.point \in {"sent", "cleared"} => row[PauseOf(h)] = "none"
  BY DEF CInv, BridgeTypeOK, ShownOnce, OneHook
<1>3. CASE CancelActiveInputs(h)
  <2>1. /\ h.event = "need_input" /\ h.point = "sent" /\ Advance(h, "cleared")
        /\ row' = [p \in Pauses |-> IF row[p] = "active" THEN "cancelled" ELSE row[p]]
        /\ UNCHANGED shown /\ UnchangedByHook
    BY <1>3 DEF CancelActiveInputs
  <2>2. h \in PauseHooks /\ PauseOf(h) \in Pauses
    BY <1>1, <2>1 DEF PauseEvents
  <2>3. row' \in [Pauses -> Rows]
    BY <1>2, <2>1 DEF Rows
  <2>4. \A p \in Pauses : RowKept(p) /\ (row[p] = "none" => row'[p] = "none")
    BY <2>1 DEF RowKept
  <2>5. shown'[PauseOf(h)] = 0 /\ row'[PauseOf(h)] = "none"
    BY <1>2, <2>1, <2>2, <2>4
  <2> QED
    BY <1>2, <2>1, <2>2, <2>3, <2>4, <2>5, HookStep
<1>4. CASE CreatePendingInput(h)
  <2>1. /\ h.event = "need_input" /\ h.point = "cleared" /\ Advance(h, "registered")
        /\ row' = [row EXCEPT ![PauseOf(h)] = "active"]
        /\ UNCHANGED shown /\ UnchangedByHook
    BY <1>4 DEF CreatePendingInput, PauseOf
  <2>2. h \in PauseHooks /\ PauseOf(h) \in Pauses
    BY <1>1, <2>1 DEF PauseEvents
  <2>3. row' \in [Pauses -> Rows]
    BY <1>2, <2>1 DEF Rows
  <2>4. \A p \in Pauses : RowKept(p) /\ (p # PauseOf(h) => row'[p] = row[p])
    BY <1>2, <2>1, <2>2 DEF RowKept
  <2>5. shown'[PauseOf(h)] = 0
    BY <1>2, <2>1, <2>2
  <2> QED
    BY <1>2, <2>1, <2>2, <2>3, <2>4, <2>5, HookStep
<1>5. CASE PublishEvent(h)
  <2>1. /\ h.point # "published" /\ UNCHANGED row /\ UnchangedByHook
        /\ Advance(h, "published") \/ hooks' = hooks \ {h}
        /\ IF h.event \in PauseEvents THEN shown' = [shown EXCEPT ![PauseOf(h)] = @ + 1]
           ELSE UNCHANGED shown
    BY <1>5 DEF PublishEvent, PauseOf
  <2>2. \A p \in Pauses : RowKept(p)
    BY <2>1 DEF RowKept
  <2>3. /\ shown' \in [Pauses -> Nat]
        /\ h \in PauseHooks => shown'[PauseOf(h)] <= 1
        /\ \A p \in Pauses : p # PauseOf(h) \/ h \notin PauseHooks => shown'[p] = shown[p]
    BY <1>1, <1>2, <2>1
  <2> QED
    BY <1>2, <2>1, <2>2, <2>3, HookStep
<1> QED
  BY <1>3, <1>4, <1>5

-----------------------------------------------------------------------------
(* The user's answers *)

\* Submission r goes on to state s with answer a, and the row of the pause it
\* answers becomes w.
LEMMA AnswerStep ==
  ASSUME CInv, [RuntimeNext]_agent, NEW r \in Resumes, NEW a \in Answers,
         NEW s \in {"read", "calling", "refused"}, NEW w \in {"pending", "consumed", "decided"},
         UNCHANGED <<record, linked, hooks, posting, shown>>, CallsOK',
         submission' = [submission EXCEPT ![r] = s], answer' = [answer EXCEPT ![r] = a],
         row' = [row EXCEPT ![a.pause] = w],
         row[a.pause] \in {"active", "pending", "decided"},
         s = "read" => w = "pending",
         s # "read" => w # "pending",
         w = "consumed" <=> row[a.pause] = "active",
         row[a.pause] = "decided" => w = "decided",
         \A q \in Resumes \ {r} : request'[q] = request[q],
         request'[r] # None => s # "read"
  PROVE  CInv'
<1> DEFINE p == a.pause
<1>1. Inv' /\ p \in Pauses
  BY InvStep DEF CInv, Answers
<1>2. BridgeTypeOK'
  BY <1>1 DEF CInv, BridgeTypeOK, Submissions, Rows
<1>3. Started'
  BY DEF CInv, Started
<1>4. row'[p] = w /\ \A q \in Pauses \ {p} : row'[q] = row[q]
  BY <1>1 DEF CInv, BridgeTypeOK
<1>5. Reached' /\ ShownOnce'
  <2>1. \A q \in Pauses : row'[q] # "none" => row[q] # "none"
    BY <1>4
  <2> QED
    BY <2>1 DEF CInv, Reached, ShownOnce
<1>6. OneHook'
  <2>1. PauseHooks' = PauseHooks
    BY DEF PauseHooks
  <2>2. \A h \in PauseHooks : PauseOf(h) \in Pauses
    BY PauseHookFields DEF PauseHooks
  <2>3. \A q \in Pauses : row[q] = "none" => row'[q] = "none"
    BY <1>4
  <2> QED
    BY <2>1, <2>2, <2>3 DEF CInv, OneHook, PauseOf
<1>7. /\ submission'[r] = s /\ answer'[r] = a
      /\ \A q \in Resumes \ {r} :
           submission'[q] = submission[q] /\ answer'[q] = answer[q] /\ request'[q] = request[q]
  BY DEF CInv, BridgeTypeOK
<1>8. \A q \in Resumes : submission[q] # "idle" => answer[q] \in Answers /\ answer[q].pause \in Pauses
  BY DEF CInv, Answered, Answers
<1>9. \A q \in Resumes : submission[q] # "idle" /\ answer[q].pause = p =>
        /\ row[p] \in {"pending", "decided"}
        /\ submission[q] # "read" => row[p] = "decided"
  BY DEF CInv, Answered
<1> HIDE DEF p
<1>10. Answered'
  <2>1. ASSUME NEW q \in Resumes \ {r}
        PROVE  /\ submission[q] = "idle" => answer[q] = None
               /\ submission[q] = "read" =>
                    answer[q] \in Answers /\ row'[answer[q].pause] \in {"pending", "decided"}
               /\ submission[q] \notin {"idle", "read"} =>
                    answer[q] \in Answers /\ row'[answer[q].pause] \in {"consumed", "decided"}
               /\ request[q] # None => submission[q] \notin {"idle", "read"}
    <3>1. CASE submission[q] = "idle"
      BY <3>1 DEF CInv, Answered
    <3>2. CASE submission[q] # "idle" /\ answer[q].pause = p
      BY <1>4, <1>8, <1>9, <3>2 DEF CInv, Answered, p
    <3>3. CASE submission[q] # "idle" /\ answer[q].pause # p
      BY <1>4, <1>8, <3>3 DEF CInv, Answered
    <3> QED
      BY <3>1, <3>2, <3>3
  <2>2. /\ s = "read" => a \in Answers /\ row'[p] \in {"pending", "decided"}
        /\ s \notin {"idle", "read"} => a \in Answers /\ row'[p] \in {"consumed", "decided"}
        /\ s # "idle" /\ (request'[r] # None => s \notin {"idle", "read"})
    BY <1>4
  <2> QED
    BY <1>7, <2>1, <2>2 DEF Answered, p
<1>11. ConsumedOnce'
  <2> SUFFICES ASSUME NEW q1 \in Resumes, NEW q2 \in Resumes,
                      submission'[q1] # "idle", submission'[q2] # "idle",
                      answer'[q1].pause = answer'[q2].pause, row'[answer'[q2].pause] = "consumed"
               PROVE  q1 = q2
    BY DEF ConsumedOnce
  <2>1. CASE answer'[q2].pause = p
    <3>1. row[p] = "active"
      BY <1>4, <2>1 DEF p
    <3>2. \A q \in Resumes \ {r} : submission[q] = "idle" \/ answer[q].pause # p
      BY <1>9, <3>1
    <3> QED
      BY <1>7, <2>1, <3>2
  <2>2. CASE answer'[q2].pause # p
    <3>1. q1 # r /\ q2 # r
      BY <1>7, <2>2 DEF p
    <3>2. row[answer[q2].pause] = "consumed"
      BY <1>4, <1>7, <1>8, <2>2, <3>1
    <3> QED
      BY <1>7, <3>1, <3>2 DEF CInv, ConsumedOnce
  <2> QED
    BY <2>1, <2>2
<1> QED
  BY <1>1, <1>2, <1>3, <1>5, <1>6, <1>10, <1>11 DEF CInv

LEMMA SubmissionStep ==
  ASSUME CInv, NEW r \in Resumes,
         \/ WriteDecision(r)
         \/ \E p \in Pauses, choice \in Choices :
              SubmitInput(r, p, choice) \/ ReadDecision(r, p, choice)
  PROVE  CInv'
<1>1. request \in [Resumes -> Requests \cup {None}]
  BY DEF CInv, Inv, RuntimeTypeOK
<1>2. UNCHANGED agent \/ (\E k \in Threads, p \in Pauses : Ask(r, k, p))
      => \A q \in Resumes \ {r} : request'[q] = request[q]
  BY <1>1 DEF agent, Ask
<1>3. UNCHANGED agent \/ (\E k \in Threads, p \in Pauses : Ask(r, k, p))
      => [RuntimeNext]_agent /\ UNCHANGED record
  BY DEF agent, Ask, RuntimeNext
<1>4. CASE WriteDecision(r)
  <2> DEFINE a == answer[r]
  <2>1. /\ submission[r] = "read" /\ row' = [row EXCEPT ![a.pause] = "decided"]
        /\ Resume(r, a.pause) /\ UNCHANGED <<linked, answer, hooks, posting, shown>>
    BY <1>4 DEF WriteDecision
  <2>2. a \in Answers /\ a.pause \in Pauses /\ row[a.pause] \in {"pending", "decided"}
    BY <2>1 DEF CInv, Answered, Answers
  <2>3. answer' = [answer EXCEPT ![r] = a]
    BY <2>1 DEF CInv, BridgeTypeOK
  <2>4. /\ UNCHANGED agent \/ \E k \in Threads : Ask(r, k, a.pause)
        /\ submission' = [submission EXCEPT ![r] = submission'[r]]
        /\ submission'[r] \in {"calling", "refused"} /\ CallsOK'
    BY <2>1, <2>2, ResumeAsks
  <2> HIDE DEF a
  <2>5. /\ [RuntimeNext]_agent /\ UNCHANGED record
        /\ \A q \in Resumes \ {r} : request'[q] = request[q]
    BY <1>2, <1>3, <2>2, <2>4
  <2>6. row' = [row EXCEPT ![a.pause] = "decided"] /\ UNCHANGED <<linked, hooks, posting, shown>>
    BY <2>1
  <2>7. "decided" \in {"pending", "consumed", "decided"} /\ a \in Answers
        /\ row[a.pause] \in {"active", "pending", "decided"} /\ row[a.pause] # "active"
        /\ submission'[r] \in {"read", "calling", "refused"} /\ submission'[r] # "read"
    BY <2>2, <2>4
  <2> QED
    BY <2>3, <2>4, <2>5, <2>6, <2>7, AnswerStep
<1>5. ASSUME NEW p \in Pauses, NEW choice \in Choices, SubmitInput(r, p, choice)
      PROVE  CInv'
  <2> DEFINE a == [pause |-> p, choice |-> choice]
  <2>1. /\ shown[p] > 0 /\ row[p] = "active" /\ row' = [row EXCEPT ![p] = "consumed"]
        /\ answer' = [answer EXCEPT ![r] = a]
        /\ Resume(r, p) /\ UNCHANGED <<linked, hooks, posting, shown>>
    BY <1>5 DEF SubmitInput, Consumable
  <2>2. a \in Answers /\ a.pause = p
    BY DEF Answers
  <2>4. /\ UNCHANGED agent \/ \E k \in Threads : Ask(r, k, p)
        /\ submission' = [submission EXCEPT ![r] = submission'[r]]
        /\ submission'[r] \in {"calling", "refused"} /\ CallsOK'
    BY <2>1, ResumeAsks
  <2> HIDE DEF a
  <2>5. /\ [RuntimeNext]_agent /\ UNCHANGED record
        /\ \A q \in Resumes \ {r} : request'[q] = request[q]
    BY <1>2, <1>3, <2>4
  <2> QED
    BY <2>1, <2>2, <2>4, <2>5, AnswerStep
<1>6. ASSUME NEW p \in Pauses, NEW choice \in Choices, ReadDecision(r, p, choice)
      PROVE  CInv'
  <2> DEFINE a == [pause |-> p, choice |-> choice]
  <2>1. /\ submission[r] = "idle" /\ row[p] = "pending"
        /\ answer' = [answer EXCEPT ![r] = a] /\ submission' = [submission EXCEPT ![r] = "read"]
        /\ UNCHANGED <<agent, linked, call, row, hooks, posting, shown>>
    BY <1>6 DEF ReadDecision, NextSubmission
  <2>2. a \in Answers /\ a.pause = p
    BY DEF Answers
  <2>3. row' = [row EXCEPT ![p] = "pending"]
    BY <2>1 DEF CInv, BridgeTypeOK
  <2>4. CallsOK' /\ request[r] = None /\ UNCHANGED <<request, record>>
    BY <2>1 DEF CInv, BridgeTypeOK, CallsOK, Answered, agent
  <2> HIDE DEF a
  <2> QED
    BY <2>1, <2>2, <2>3, <2>4, AnswerStep
<1> QED
  BY <1>4, <1>5, <1>6

-----------------------------------------------------------------------------
(* Theorems *)

LEMMA CInvStep == CInv /\ [ConversationNext]_vars => CInv'
<1> SUFFICES ASSUME CInv, [ConversationNext]_vars
             PROVE  CInv'
  OBVIOUS
<1>1. Inv'
  BY RuntimeStep, InvStep DEF CInv
<1>2. CASE UNCHANGED vars
  <2>1. UNCHANGED <<linked, submission, answer, call, row, hooks, posting, shown, record, request>>
    BY <1>2 DEF vars, agent, bridge
  <2>2. BridgeTypeOK'
    BY <2>1 DEF CInv, BridgeTypeOK, CallsOK
  <2>3. Started' /\ Reached' /\ OneHook' /\ ShownOnce'
    BY <2>1 DEF CInv, Started, Reached, OneHook, PauseHooks, PauseOf, ShownOnce
  <2>4. Answered' /\ ConsumedOnce'
    BY <2>1 DEF CInv, Answered, ConsumedOnce
  <2> QED
    BY <1>1, <2>2, <2>3, <2>4 DEF CInv
<1>3. ASSUME NEW s \in Starts,
             \/ LinkThread(s) \/ StartTurn(s) \/ StartTimesOut(s)
             \/ \E c \in Copies : StartArrives(s, c)
      PROVE  CInv'
  BY <1>1, <1>3, CallStep
<1>4. ASSUME NEW r \in Resumes,
             \/ EndSubmission(r) \/ ResumeTimesOut(r)
             \/ \E c \in Copies : ResumeArrives(r, c) \/ ResumeAccepted(r, c)
      PROVE  CInv'
  BY <1>1, <1>4, CallStep
<1>5. ASSUME NEW r \in Resumes,
             \/ WriteDecision(r)
             \/ \E p \in Pauses, choice \in Choices :
                  SubmitInput(r, p, choice) \/ ReadDecision(r, p, choice)
      PROVE  CInv'
  BY <1>5, SubmissionStep
<1>6. ASSUME \/ \E k \in Threads : AgentSteps(k)
             \/ \E x \in queued : AgentBegins(x)
      PROVE  CInv'
  BY <1>1, <1>6, AgentStep
<1>7. ASSUME NEW k \in Threads, NEW event \in PauseEvents, AgentPauses(k, event)
      PROVE  CInv'
  BY <1>1, <1>7, PauseStep
<1>8. CASE AgentRestarts
  BY <1>1, <1>8, AgentStep
<1>9. ASSUME NEW h \in hooks, CancelActiveInputs(h) \/ CreatePendingInput(h) \/ PublishEvent(h)
      PROVE  CInv'
  BY <1>9, WebhookStep
<1> QED
  BY <1>2, <1>3, <1>4, <1>5, <1>6, <1>7, <1>8, <1>9
  DEF ConversationNext, Progress, User, Faults, AgentSteps

LEMMA ConversationInvariance == Spec => []CInv
BY InitCInv, CInvStep, PTL DEF Spec

\* Whatever the Backend repeats, sends late or answers from a stale row, each
\* step of the conversation is on the side of the Agent one of execution.py, or
\* none: the conversation is a behaviour of AgentRuntime, ...
THEOREM RunsTheRuntime == Spec => RuntimeSpec
<1>1. CInv /\ [ConversationNext]_vars => [RuntimeNext]_agent
  BY RuntimeStep
<1>2. ConversationInit => RuntimeInit
  BY DEF ConversationInit
<1> QED
  BY <1>1, <1>2, ConversationInvariance, PTL DEF Spec, RuntimeSpec

\* ... so that it keeps the contract of the Agent.
THEOREM ConversationKeepsContract == Spec => KeepsContract
BY RunsTheRuntime, ContractKept, PTL

\* Records and runs stay coherent, and calls, rows and webhooks keep their types.
THEOREM ConversationTypeCorrect == Spec => [](RuntimeTypeOK /\ BridgeTypeOK)
<1>1. CInv => RuntimeTypeOK /\ BridgeTypeOK
  BY DEF CInv, Inv
<1> QED
  BY <1>1, ConversationInvariance, PTL

\* A pause reaches the stream of the browser at most once, however its webhook
\* is delayed, repeated or cut off by a restart.
THEOREM PausesShownOnce == Spec => []ShownOnce
<1>1. CInv => ShownOnce
  BY DEF CInv
<1> QED
  BY <1>1, ConversationInvariance, PTL

\* Of all submissions to one pending input, whatever value each has, one takes
\* the row and is passed on, and a pause whose answer has resumed the graph
\* cannot be answered again.
THEOREM PausesAnsweredOnce == Spec => []AnsweredOnce
<1>1. ASSUME CInv PROVE AnsweredOnce
  <2>1. ASSUME NEW q \in Resumes, NEW r \in Resumes,
               answer[q] # None, answer[r] # None,
               answer[q].pause = answer[r].pause,
               row[answer[r].pause] \in {"active", "consumed", "cancelled"}
        PROVE  q = r
    <3>1. submission[q] # "idle" /\ submission[r] # "idle"
      BY <1>1, <2>1 DEF CInv, Answered
    <3>2. row[answer[r].pause] = "consumed"
      BY <1>1, <2>1, <3>1 DEF CInv, Answered
    <3> QED
      BY <1>1, <2>1, <3>1, <3>2 DEF CInv, ConsumedOnce
  <2>2. ASSUME NEW k \in Threads, NEW r \in record[k].requests
        PROVE  row[answer[r].pause] \in {"consumed", "decided"}
    <3>1. r \in Resumes /\ request[r] # None
      BY <1>1, RecordFields DEF CInv, Inv, Own
    <3> QED
      BY <1>1, <3>1 DEF CInv, Answered
  <2> QED
    BY <2>1, <2>2 DEF AnsweredOnce
<1> QED
  BY <1>1, ConversationInvariance, PTL
=============================================================================
