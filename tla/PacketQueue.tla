----------------------------- MODULE PacketQueue -----------------------------
(***************************************************************************)
(* Queue 2: the q2_tasks and packets tables, the packet_status column of   *)
(* the jobs table, the workers that generate packets and the API threads   *)
(* and promotion loop that promote, retry, recover, archive and delete.    *)
(*                                                                         *)
(* Every Repository method runs in one sqlite3 connection in Python's      *)
(* default isolation: the SELECTs before its first write run in autocommit *)
(* and hold no lock, the first write opens a transaction that holds the    *)
(* database's write lock until the `with` block commits, or rolls back on  *)
(* an exception.  A method whose guard is read before its first write is   *)
(* therefore two steps here, a Read and a Write, and whatever it read may  *)
(* be stale when it writes.  Reads made inside the write transaction are   *)
(* part of the Write step.                                                 *)
(***************************************************************************)
EXTENDS Integers, FiniteSets, Sequences, Statuses

CONSTANTS
  Jobs,               \* rows of the jobs table
  Workers,            \* loops that call Queue2Worker.process_next
  Clients,            \* API threads and the promotion loop
  NoJob,              \* the absent job id
  Concurrency,        \* PromotionConfig.q2_worker_concurrency
  RetryLimit,         \* PromotionConfig.retry_limit
  MaxAttempts,        \* bound of the model: no user retry from this attempt on
  Operations,         \* the requests the clients of this instance make
  LeaseOutlivesWork   \* TRUE: no lease runs out under a worker still at it

ASSUME NoJobAssumption == NoJob \notin Jobs
ASSUME LimitAssumption ==
  /\ Concurrency \in Nat
  /\ RetryLimit \in Nat
  /\ MaxAttempts \in Nat
  /\ LeaseOutlivesWork \in BOOLEAN

VARIABLES
  rows,            \* jobs that have a row
  intake,          \* what promotion and retry see of jobs.intake_status
  archived,        \* jobs.archived_at IS NOT NULL
  manualPriority,  \* jobs.manual_priority
  packetStatus,    \* jobs.packet_status
  taskStatus,      \* q2_tasks.status, "none" without a row
  attempts,        \* q2_tasks.attempt_count
  lease,           \* q2_tasks.lease_expires_at: NULL, ahead or behind the clock
  rank,            \* q2_tasks.priority and created_at, the ORDER BY of the claim
  promoted,        \* tasks created so far, the source of created_at
  packets,         \* packets.status of a job's attempts, oldest first
  pc,              \* where a worker is in process_next
  target,          \* the job of the task the worker holds
  slot,            \* the index of the packet the worker holds
  client           \* what a client read and is about to write

jobVars    == <<rows, intake, archived, manualPriority>>
taskVars   == <<taskStatus, attempts, lease, rank, promoted>>
workerVars == <<pc, target, slot>>
vars == <<jobVars, packetStatus, taskVars, packets, workerVars, client>>

\* "queued" stands for every intake state Queue 1 has yet to leave, "failed"
\* for failed and manual_review, "blocked" for scored with hard blockers.
IntakeViews    == {"queued", "scored", "blocked", "failed"}
TaskStatuses   == {"none", "queued", "claimed", "running", "ready", "failed"}
LeaseStates    == {"none", "live", "expired"}
AttemptStates  == {"generating", "ready", "failed"}
WorkerSteps    == {"idle", "select", "claim", "check", "start", "attempt",
                   "generate", "complete", "fail"}
ClientSteps    == {"none", "promote", "retry_intake", "retry_packet", "recover"}
Priorities     == {0, 1}

NoRequest == [op |-> "none", job |-> NoJob, priority |-> 0,
              requeue |-> {}, giveUp |-> {}]

-----------------------------------------------------------------------------
Init ==
  /\ rows = Jobs
  /\ intake = [j \in Jobs |-> "queued"]
  /\ archived = [j \in Jobs |-> FALSE]
  /\ manualPriority = [j \in Jobs |-> 0]
  /\ packetStatus = [j \in Jobs |-> "not_requested"]
  /\ taskStatus = [j \in Jobs |-> "none"]
  /\ attempts = [j \in Jobs |-> 0]
  /\ lease = [j \in Jobs |-> "none"]
  /\ rank = [j \in Jobs |-> <<0, 0>>]
  /\ promoted = 0
  /\ packets = [j \in Jobs |-> <<>>]
  /\ pc = [w \in Workers |-> "idle"]
  /\ target = [w \in Workers |-> NoJob]
  /\ slot = [w \in Workers |-> 0]
  /\ client = [c \in Clients |-> NoRequest]

-----------------------------------------------------------------------------
\* The worker: Queue2Worker.process_next.

HasTask(j) == taskStatus[j] /= "none"
Queued     == {j \in Jobs : taskStatus[j] = "queued"}
Active     == {j \in Jobs : taskStatus[j] \in {"claimed", "running"}}

\* ORDER BY priority DESC, created_at ASC
Precedes(j, k) ==
  \/ rank[j][1] > rank[k][1]
  \/ rank[j][1] = rank[k][1] /\ rank[j][2] <= rank[k][2]

Goto(w, step) == pc' = [pc EXCEPT ![w] = step]

\* process_next returns, or an exception leaves it: WorkerRunner.run_once
\* catches everything and calls it again later.
Drop(w) ==
  /\ pc' = [pc EXCEPT ![w] = "idle"]
  /\ target' = [target EXCEPT ![w] = NoJob]
  /\ slot' = [slot EXCEPT ![w] = 0]

\* claim_next_q2_task, first SELECT: the number of claimed and running tasks.
ClaimCount(w) ==
  /\ pc[w] = "idle"
  /\ Cardinality(Active) < Concurrency
  /\ Goto(w, "select")
  /\ UNCHANGED <<jobVars, packetStatus, taskVars, packets, target, slot, client>>

\* claim_next_q2_task, second SELECT: the first queued task.
ClaimSelect(w) ==
  /\ pc[w] = "select"
  /\ \/ /\ Queued = {}
        /\ Drop(w)
     \/ \E j \in Queued :
          /\ \A k \in Queued : Precedes(j, k)
          /\ Goto(w, "claim")
          /\ target' = [target EXCEPT ![w] = j]
          /\ UNCHANGED slot
  /\ UNCHANGED <<jobVars, packetStatus, taskVars, packets, client>>

\* claim_next_q2_task, the transaction.  The UPDATE is conditional on 'queued',
\* but the method returns the task whether or not the UPDATE changed it.  For a
\* task deleted since the SELECT the event's foreign key fails.
ClaimWrite(w) ==
  LET j == target[w] IN
  /\ pc[w] = "claim"
  /\ IF HasTask(j) THEN Goto(w, "check") /\ UNCHANGED <<target, slot>> ELSE Drop(w)
  /\ IF taskStatus[j] = "queued"
     THEN /\ taskStatus' = [taskStatus EXCEPT ![j] = "claimed"]
          /\ attempts' = [attempts EXCEPT ![j] = attempts[j] + 1]
          /\ lease' = [lease EXCEPT ![j] = "live"]
     ELSE UNCHANGED <<taskStatus, attempts, lease>>
  /\ UNCHANGED <<jobVars, packetStatus, rank, promoted, packets, client>>

\* start_q2_task, the guard read before the transaction.
StartRead(w) ==
  /\ pc[w] = "check"
  /\ IF taskStatus[target[w]] = "claimed"
     THEN Goto(w, "start") /\ UNCHANGED <<target, slot>>
     ELSE Drop(w)
  /\ UNCHANGED <<jobVars, packetStatus, taskVars, packets, client>>

\* start_q2_task, the transaction: the UPDATE of the task is unconditional and
\* rolled back when the job's packet_status may not become 'generating'.
StartWrite(w) ==
  LET j == target[w] IN
  /\ pc[w] = "start"
  /\ IF j \in rows /\ ValidPacketTransition(packetStatus[j], "generating")
     THEN /\ taskStatus' = [taskStatus EXCEPT ![j] = "running"]
          /\ packetStatus' = [packetStatus EXCEPT ![j] = "generating"]
          /\ Goto(w, "attempt")
          /\ UNCHANGED <<target, slot>>
     ELSE /\ Drop(w)
          /\ UNCHANGED <<taskStatus, packetStatus>>
  /\ UNCHANGED <<jobVars, attempts, lease, rank, promoted, packets, client>>

\* Mutant: the newest attempt is taken over while it is still open.
CreatePacketReusing(w) ==
  LET j == target[w]
      open == packets[j] /= <<>> /\ packets[j][Len(packets[j])] = "generating"
  IN
  /\ pc[w] = "attempt" /\ j \in rows
  /\ packets' = IF open THEN packets
                ELSE [packets EXCEPT ![j] = Append(packets[j], "generating")]
  /\ slot' = [slot EXCEPT ![w] = Len(packets'[j])]
  /\ Goto(w, "generate")
  /\ UNCHANGED <<jobVars, packetStatus, taskVars, target, client>>

\* get_job and create_packet_attempt: the new attempt becomes the current one.
CreatePacket(w) ==
  LET j == target[w] IN
  /\ pc[w] = "attempt"
  /\ IF j \in rows
     THEN /\ packets' = [packets EXCEPT ![j] = Append(packets[j], "generating")]
          /\ slot' = [slot EXCEPT ![w] = Len(packets[j]) + 1]
          /\ Goto(w, "generate")
          /\ UNCHANGED target
     ELSE Drop(w) /\ UNCHANGED packets
  /\ UNCHANGED <<jobVars, packetStatus, taskVars, client>>

\* Building the artifacts raises PacketGenerationError, OSError or ValueError.
GenerationFails(w) ==
  /\ pc[w] = "generate"
  /\ Goto(w, "fail")
  /\ UNCHANGED <<jobVars, packetStatus, taskVars, packets, target, slot, client>>

\* complete_packet_attempt, the guard read before the transaction.  Its
\* ValueError is caught by process_next, which then fails the packet.
CompleteRead(w) ==
  /\ pc[w] = "generate"
  /\ Goto(w, IF taskStatus[target[w]] = "running" THEN "complete" ELSE "fail")
  /\ UNCHANGED <<jobVars, packetStatus, taskVars, packets, target, slot, client>>

\* Mutant: the job and its task are completed, the packet row forgotten.
CompleteWriteTaskOnly(w) ==
  LET j == target[w] IN
  /\ pc[w] = "complete"
  /\ j \in rows /\ ValidPacketTransition(packetStatus[j], "ready")
  /\ taskStatus' = [taskStatus EXCEPT ![j] = "ready"]
  /\ lease' = [lease EXCEPT ![j] = "none"]
  /\ packetStatus' = [packetStatus EXCEPT ![j] = "ready"]
  /\ Drop(w)
  /\ UNCHANGED <<jobVars, attempts, rank, promoted, packets, client>>

\* complete_packet_attempt, the transaction: rolled back, and the packet failed
\* next, when packet_status may not become 'ready'; JobNotFoundError, which
\* process_next does not catch, when the job is gone.
CompleteWrite(w) ==
  LET j == target[w]
      deliver == j \in rows /\ ValidPacketTransition(packetStatus[j], "ready")
  IN
  /\ pc[w] = "complete"
  /\ IF deliver
     THEN /\ packets' = [packets EXCEPT ![j][slot[w]] = "ready"]
          /\ taskStatus' = [taskStatus EXCEPT ![j] = "ready"]
          /\ lease' = [lease EXCEPT ![j] = "none"]
          /\ packetStatus' = [packetStatus EXCEPT ![j] = "ready"]
     ELSE UNCHANGED <<packets, taskStatus, lease, packetStatus>>
  /\ IF deliver \/ j \notin rows
     THEN Drop(w)
     ELSE Goto(w, "fail") /\ UNCHANGED <<target, slot>>
  /\ UNCHANGED <<jobVars, attempts, rank, promoted, client>>

\* Mutant: the job's current packet is failed, not the worker's own.
FailPacketLatest(w) ==
  LET j == target[w] IN
  /\ pc[w] = "fail" /\ j \in rows
  /\ packets' = [packets EXCEPT ![j][Len(packets[j])] = "failed"]
  /\ taskStatus' = [taskStatus EXCEPT ![j] = "failed"]
  /\ lease' = [lease EXCEPT ![j] = "none"]
  /\ packetStatus' = [packetStatus EXCEPT ![j] = "failed"]
  /\ Drop(w)
  /\ UNCHANGED <<jobVars, attempts, rank, promoted, client>>

\* fail_packet_attempt: checks that the task exists and nothing else.
FailPacket(w) ==
  LET j == target[w] IN
  /\ pc[w] = "fail"
  /\ IF j \in rows
     THEN /\ packets' = [packets EXCEPT ![j][slot[w]] = "failed"]
          /\ taskStatus' = [taskStatus EXCEPT ![j] = "failed"]
          /\ lease' = [lease EXCEPT ![j] = "none"]
          /\ packetStatus' = [packetStatus EXCEPT ![j] = "failed"]
     ELSE UNCHANGED <<packets, taskStatus, lease, packetStatus>>
  /\ Drop(w)
  /\ UNCHANGED <<jobVars, attempts, rank, promoted, client>>

\* The process dies, is stopped, or an exception no handler names (a locked
\* database) ends the iteration.  Before its first write a worker has only read:
\* a crash there leaves what an iteration that never began leaves.
Crash(w) ==
  /\ pc[w] \notin {"idle", "select", "claim"}
  /\ Drop(w)
  /\ UNCHANGED <<jobVars, packetStatus, taskVars, packets, client>>

-----------------------------------------------------------------------------
\* The clients: API threads and the promotion loop.

Free(c) == client[c].op = "none"
Answer(c) == client' = [client EXCEPT ![c] = NoRequest]
Ask(c, request) == client' = [client EXCEPT ![c] = request]
Offered(op) == op \in Operations

\* create_q2_task, its SELECTs and guards.  With a task already there, or a
\* guard that raises, the request ends here and nothing changes.
PromoteRead(c, j) ==
  /\ Offered("promote")
  /\ Free(c)
  /\ j \in rows
  /\ ~HasTask(j)
  /\ ~archived[j]
  /\ intake[j] = "scored"
  /\ packetStatus[j] \in {"not_requested", "failed", "manual_review"}
  /\ ValidPacketTransition(packetStatus[j], "queued")
  /\ Ask(c, [NoRequest EXCEPT !.op = "promote", !.job = j,
                              !.priority = manualPriority[j]])
  /\ UNCHANGED <<jobVars, packetStatus, taskVars, packets, workerVars>>

\* create_q2_task, the transaction.  A task inserted meanwhile violates
\* UNIQUE(job_id), a deleted job the foreign key: the insert is rolled back.
PromoteWrite(c) ==
  LET j == client[c].job IN
  /\ client[c].op = "promote"
  /\ IF j \in rows /\ ~HasTask(j)
     THEN /\ taskStatus' = [taskStatus EXCEPT ![j] = "queued"]
          /\ attempts' = [attempts EXCEPT ![j] = 0]
          /\ lease' = [lease EXCEPT ![j] = "none"]
          /\ rank' = [rank EXCEPT ![j] = <<client[c].priority, promoted>>]
          /\ promoted' = promoted + 1
          /\ packetStatus' = [packetStatus EXCEPT ![j] = "queued"]
     ELSE UNCHANGED <<taskVars, packetStatus>>
  /\ Answer(c)
  /\ UNCHANGED <<jobVars, packets, workerVars>>

\* retry_job, the branch it takes on the job row it read.
RetryRead(c, j) ==
  /\ Offered("retry")
  /\ Free(c)
  /\ j \in rows
  /\ \/ /\ intake[j] = "failed"
        /\ Ask(c, [NoRequest EXCEPT !.op = "retry_intake", !.job = j])
     \/ /\ intake[j] /= "failed"
        /\ packetStatus[j] \in Retryable
        /\ ValidPacketTransition(packetStatus[j], "queued")
        /\ attempts[j] < MaxAttempts
        /\ Ask(c, [NoRequest EXCEPT !.op = "retry_packet", !.job = j])
  /\ UNCHANGED <<jobVars, packetStatus, taskVars, packets, workerVars>>

\* retry_job, the transaction: unconditional updates of the job and its task.
RetryIntakeWrite(c) ==
  LET j == client[c].job IN
  /\ client[c].op = "retry_intake"
  /\ intake' = IF j \in rows THEN [intake EXCEPT ![j] = "queued"] ELSE intake
  /\ Answer(c)
  /\ UNCHANGED <<rows, archived, manualPriority, packetStatus, taskVars,
                 packets, workerVars>>

RetryPacketWrite(c) ==
  LET j == client[c].job IN
  /\ client[c].op = "retry_packet"
  /\ IF j \in rows
     THEN /\ packetStatus' = [packetStatus EXCEPT ![j] = "queued"]
          /\ taskStatus' = [taskStatus EXCEPT ![j] =
                              IF HasTask(j) THEN "queued" ELSE "none"]
     ELSE UNCHANGED <<packetStatus, taskStatus>>
  /\ Answer(c)
  /\ UNCHANGED <<jobVars, attempts, lease, rank, promoted, packets, workerVars>>

\* Mutants: the SELECT ignores the lease; the SELECT forgets claimed tasks.
StaleUnexpired == {j \in Jobs : taskStatus[j] \in {"claimed", "running"}}
StaleRunning   == {j \in Jobs : taskStatus[j] = "running" /\ lease[j] = "expired"}

\* recover_stale_q2_tasks, its SELECT: the expired tasks with the attempt
\* counts that decide between another attempt and failure.
Stale == {j \in Jobs : taskStatus[j] \in {"claimed", "running"}
                       /\ lease[j] = "expired"}

\* Mutant: one more attempt than the limit.
RecoverReadOffByOne(c) ==
  /\ Offered("recover") /\ Free(c) /\ Stale /= {}
  /\ Ask(c, [NoRequest EXCEPT
               !.op = "recover",
               !.requeue = {j \in Stale : attempts[j] <= RetryLimit},
               !.giveUp  = {j \in Stale : attempts[j] > RetryLimit}])
  /\ UNCHANGED <<jobVars, packetStatus, taskVars, packets, workerVars>>

RecoverRead(c) ==
  /\ Offered("recover")
  /\ Free(c)
  /\ Stale /= {}
  /\ Ask(c, [NoRequest EXCEPT
               !.op = "recover",
               !.requeue = {j \in Stale : attempts[j] < RetryLimit},
               !.giveUp  = {j \in Stale : attempts[j] >= RetryLimit}])
  /\ UNCHANGED <<jobVars, packetStatus, taskVars, packets, workerVars>>

\* Mutants: the task is given the job's word for waiting, which it has no row
\* for; the job row is only rewritten while it has not started.
RecoveredMixed(f, c) ==
  [j \in Jobs |-> IF j \in client[c].requeue THEN "not_requested"
                  ELSE IF j \in client[c].giveUp THEN "failed" ELSE f[j]]
RecoveredPartly(f, c) ==
  [j \in Jobs |-> IF f[j] = "generating" THEN f[j]
                  ELSE IF j \in client[c].requeue THEN "queued"
                  ELSE IF j \in client[c].giveUp THEN "failed" ELSE f[j]]

\* recover_stale_q2_tasks, the transaction over all rows read.  The updates do
\* not look at the status again; a job deleted meanwhile raises and rolls all
\* of them back.
Recovered(f, c) ==
  [j \in Jobs |-> IF j \in client[c].requeue THEN "queued"
                  ELSE IF j \in client[c].giveUp THEN "failed" ELSE f[j]]

RecoverWrite(c) ==
  LET stale == client[c].requeue \cup client[c].giveUp IN
  /\ client[c].op = "recover"
  /\ IF stale \subseteq rows
     THEN /\ taskStatus' = Recovered(taskStatus, c)
          /\ packetStatus' = Recovered(packetStatus, c)
          /\ lease' = [j \in Jobs |-> IF j \in stale THEN "none" ELSE lease[j]]
     ELSE UNCHANGED <<taskStatus, packetStatus, lease>>
  /\ Answer(c)
  /\ UNCHANGED <<jobVars, attempts, rank, promoted, packets, workerVars>>

-----------------------------------------------------------------------------
\* Requests that are one atomic step: a guard that only makes them idempotent.

\* set_priority
SetPriority(j, priority) ==
  /\ Offered("priority")
  /\ j \in rows
  /\ manualPriority[j] /= priority
  /\ manualPriority' = [manualPriority EXCEPT ![j] = priority]
  /\ UNCHANGED <<rows, intake, archived, packetStatus, taskVars, packets,
                 workerVars, client>>

\* archive_job
Archive(j) ==
  /\ Offered("archive")
  /\ j \in rows
  /\ ~archived[j]
  /\ archived' = [archived EXCEPT ![j] = TRUE]
  /\ UNCHANGED <<rows, intake, manualPriority, packetStatus, taskVars, packets,
                 workerVars, client>>

\* restore_job
Restore(j) ==
  /\ Offered("archive")
  /\ j \in rows
  /\ archived[j]
  /\ archived' = [archived EXCEPT ![j] = FALSE]
  /\ UNCHANGED <<rows, intake, manualPriority, packetStatus, taskVars, packets,
                 workerVars, client>>

\* delete_or_archive_job and clear_demo_jobs on a demo or test job: the task
\* and the packets go with the row (ON DELETE CASCADE).
Delete(j) ==
  /\ Offered("delete")
  /\ j \in rows
  /\ rows' = rows \ {j}
  /\ packetStatus' = [packetStatus EXCEPT ![j] = "not_requested"]
  /\ taskStatus' = [taskStatus EXCEPT ![j] = "none"]
  /\ attempts' = [attempts EXCEPT ![j] = 0]
  /\ lease' = [lease EXCEPT ![j] = "none"]
  /\ packets' = [packets EXCEPT ![j] = <<>>]
  /\ UNCHANGED <<intake, archived, manualPriority, rank, promoted, workerVars,
                 client>>

\* Queue 1, as promotion and retry see it: an analysis ends, or a re-score
\* starts one.
IntakeEnds(j, view) ==
  /\ j \in rows
  /\ intake[j] = "queued"
  /\ intake' = [intake EXCEPT ![j] = view]
  /\ UNCHANGED <<rows, archived, manualPriority, packetStatus, taskVars,
                 packets, workerVars, client>>

Rescore(j) ==
  /\ Offered("rescore")
  /\ j \in rows
  /\ ~archived[j]
  /\ intake[j] /= "queued"
  /\ intake' = [intake EXCEPT ![j] = "queued"]
  /\ UNCHANGED <<rows, archived, manualPriority, packetStatus, taskVars,
                 packets, workerVars, client>>

\* lease_seconds pass.
ExpireLease(j) ==
  /\ lease[j] = "live"
  /\ LeaseOutlivesWork => \A w \in Workers : target[w] /= j
  /\ lease' = [lease EXCEPT ![j] = "expired"]
  /\ UNCHANGED <<jobVars, packetStatus, taskStatus, attempts, rank, promoted,
                 packets, workerVars, client>>

-----------------------------------------------------------------------------
WorkerStep(w) ==
  \/ ClaimCount(w) \/ ClaimSelect(w) \/ ClaimWrite(w)
  \/ StartRead(w) \/ StartWrite(w)
  \/ CreatePacket(w) \/ GenerationFails(w)
  \/ CompleteRead(w) \/ CompleteWrite(w) \/ FailPacket(w)

ClientWrite(c) ==
  PromoteWrite(c) \/ RetryIntakeWrite(c) \/ RetryPacketWrite(c) \/ RecoverWrite(c)

ClientStep(c) ==
  \/ \E j \in Jobs : PromoteRead(c, j) \/ RetryRead(c, j)
  \/ RecoverRead(c)
  \/ ClientWrite(c)

JobStep(j) ==
  \/ \E priority \in Priorities : SetPriority(j, priority)
  \/ Archive(j) \/ Restore(j) \/ Delete(j)
  \/ \E view \in IntakeViews \ {"queued"} : IntakeEnds(j, view)
  \/ Rescore(j)
  \/ ExpireLease(j)

Next ==
  \/ \E w \in Workers : WorkerStep(w) \/ Crash(w)
  \/ \E c \in Clients : ClientStep(c)
  \/ \E j \in Jobs : JobStep(j)

Spec == Init /\ [][Next]_vars

\* The loops that the code runs for ever: a worker polls its queue, a request
\* once begun is carried out, the promotion loop recovers every interval, and
\* the clock reaches every lease.  Nothing obliges a user, or a crash, to act.  The
\* loop has a thread of its own, where a client here does one thing at a time: it
\* recovers if the client is free again and again.
Fairness ==
  /\ \A w \in Workers : WF_vars(WorkerStep(w))
  /\ \A c \in Clients : WF_vars(ClientWrite(c)) /\ SF_vars(RecoverRead(c))
  /\ \A j \in Jobs : WF_vars(ExpireLease(j))

FairSpec == Spec /\ Fairness

-----------------------------------------------------------------------------
\* Properties.

Requests == [op : ClientSteps, job : Jobs \cup {NoJob}, priority : Priorities,
             requeue : SUBSET Jobs, giveUp : SUBSET Jobs]

JobTypeOK ==
  /\ rows \in SUBSET Jobs
  /\ intake \in [Jobs -> IntakeViews]
  /\ archived \in [Jobs -> BOOLEAN]
  /\ manualPriority \in [Jobs -> Priorities]

TaskTypeOK ==
  /\ packetStatus \in [Jobs -> PacketStatuses]
  /\ taskStatus \in [Jobs -> TaskStatuses]
  /\ attempts \in [Jobs -> Nat]
  /\ lease \in [Jobs -> LeaseStates]
  /\ rank \in [Jobs -> Priorities \X Nat]
  /\ promoted \in Nat
  /\ packets \in [Jobs -> Seq(AttemptStates)]

\* A worker past its SELECT has the job of the task it selected.
WorkerTypeOK ==
  /\ pc \in [Workers -> WorkerSteps]
  /\ target \in [Workers -> Jobs \cup {NoJob}]
  /\ slot \in [Workers -> Nat]
  /\ \A w \in Workers : pc[w] \notin {"idle", "select"} => target[w] \in Jobs

ClientTypeOK ==
  /\ client \in [Clients -> Requests]
  /\ \A c \in Clients : client[c].op \notin {"none", "recover"} =>
                           client[c].job \in Jobs

\* Every variable keeps its type, and who acts on a job names one.
TypeOK == JobTypeOK /\ TaskTypeOK /\ WorkerTypeOK /\ ClientTypeOK

\* The packet_status that goes with each task status.
Agreements ==
  {<<"none", "not_requested">>, <<"queued", "queued">>, <<"claimed", "queued">>,
   <<"running", "generating">>, <<"ready", "ready">>, <<"failed", "failed">>}

\* A job and its task are written by two statements of one transaction, on
\* guards that may be stale by then; whatever the race, a reader finds the two
\* tables telling the same story.
TaskAndJobAgree ==
  \A j \in Jobs : <<taskStatus[j], packetStatus[j]>> \in Agreements

\* A job that offers a packet has one: some attempt of it completed.  Several
\* attempts may be open at once, and only one of them may settle the job.
ReadyHasPacket ==
  \A j \in Jobs : packetStatus[j] = "ready" =>
    \E i \in DOMAIN packets[j] : packets[j][i] = "ready"

\* A packet that was delivered or has failed keeps that verdict while its job
\* exists, even when a worker whose lease ran out comes back late.
VerdictsStand ==
  [][\A j \in rows' : \A i \in DOMAIN packets[j] :
       packets[j][i] /= "generating" => packets'[j][i] = packets[j][i]]_vars

\* Two workers never hold the same attempt, and the attempt a worker holds is
\* open: complete_packet_attempt and fail_packet_attempt check neither.
Holds(w) == pc[w] \in {"generate", "complete", "fail"}

AttemptsAreOwned ==
  \A w \in Workers :
    /\ Holds(w) /\ target[w] \in rows =>
         /\ slot[w] \in DOMAIN packets[target[w]]
         /\ packets[target[w]][slot[w]] = "generating"
    /\ \A v \in Workers :
         Holds(w) /\ Holds(v) /\ v /= w /\ target[v] = target[w] =>
           slot[v] /= slot[w]

\* No two workers generate a packet for the same job at the same time.
Generates(w) == pc[w] \in {"attempt", "generate", "complete", "fail"}
OneGenerator ==
  \A v, w \in Workers :
    Generates(v) /\ Generates(w) /\ target[v] = target[w] => v = w

\* Unless a user retries a task that has no attempt left, it is attempted at most
\* RetryLimit times.
AttemptsBounded == \A j \in Jobs : attempts[j] <= RetryLimit

\* The packets of a job that are ready.
Delivered(j) == {i \in DOMAIN packets[j] : packets[j][i] = "ready"}

\* A task once queued is settled in the end, or its job deleted, whatever crashes on
\* the way.  One thing only gets in between: start_q2_task writes by id what it read of
\* a task that was requeued since, which then runs without a lease; should its worker
\* die, no recovery selects it.
TasksSettle ==
  \A j \in Jobs : taskStatus[j] \in {"queued", "claimed", "running"} ~>
                    \/ taskStatus[j] \in {"ready", "failed", "none"}
                    \/ taskStatus[j] = "running" /\ lease[j] = "none"

\* The abstract lifecycle of a request, read off the two tables.
Lifecycle ==
  INSTANCE PacketLifecycle WITH
    status    <- packetStatus,
    delivered <- [j \in Jobs |-> Cardinality(Delivered(j))]

\* The queue implements the lifecycle: with leases that outlive the work and one
\* request at a time, each job's packet is delivered at most once and stays.
ImplementsLifecycle == Lifecycle!Spec
=============================================================================
