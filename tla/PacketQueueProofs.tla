-------------------------- MODULE PacketQueueProofs --------------------------
(***************************************************************************)
(* What holds of PacketQueue for every number of jobs, workers and         *)
(* clients, every retry limit and every interleaving: no assumption on     *)
(* leases, on crashes or on the requests the clients make, but for the     *)
(* bound on attempts, which a retry and a second recovery would break.     *)
(***************************************************************************)
EXTENDS PacketQueue, TLAPS

\* A retry or a recovery read its job with a task: unless the job was deleted,
\* the task is still there to be written.
RequestsAreBacked ==
  \A c \in Clients :
    /\ client[c].op = "retry_packet" /\ client[c].job \in rows =>
         HasTask(client[c].job)
    /\ \A j \in rows \cap (client[c].requeue \cup client[c].giveUp) : HasTask(j)

\* The inductive invariant.  Agreement needs RequestsAreBacked, as a retry
\* writes the job whether or not its task exists; ReadyHasPacket needs
\* AttemptsAreOwned, as a delivery writes the attempt its worker holds.
IInv ==
  /\ TypeOK
  /\ TaskAndJobAgree
  /\ RequestsAreBacked
  /\ AttemptsAreOwned
  /\ ReadyHasPacket

-----------------------------------------------------------------------------
\* Type correctness.

LEMMA InitTypeOK == Init => TypeOK
BY DEF Init, TypeOK, JobTypeOK, TaskTypeOK, WorkerTypeOK, ClientTypeOK,
       IntakeViews, Priorities, PacketStatuses, TaskStatuses, LeaseStates,
       AttemptStates, WorkerSteps, Requests, ClientSteps, NoRequest

\* A worker that drops its task, or moves on with it, keeps its types.
LEMMA DropType ==
  ASSUME WorkerTypeOK, NEW w \in Workers, Drop(w)
  PROVE  WorkerTypeOK'
BY DEF WorkerTypeOK, Drop, WorkerSteps

LEMMA GotoType ==
  ASSUME WorkerTypeOK, NEW w \in Workers, NEW step \in WorkerSteps, Goto(w, step),
         target[w] \in Jobs \/ step \in {"idle", "select"},
         UNCHANGED <<target, slot>>
  PROVE  WorkerTypeOK'
BY DEF WorkerTypeOK, Goto

\* The steps of a worker do not touch the jobs' own columns or the clients.
LEMMA WorkerFrame ==
  ASSUME NEW w \in Workers, WorkerStep(w) \/ Crash(w)
  PROVE  UNCHANGED <<rows, intake, archived, manualPriority, client>>
BY DEF WorkerStep, Crash, ClaimCount, ClaimSelect, ClaimWrite, StartRead,
       StartWrite, CreatePacket, GenerationFails, CompleteRead, CompleteWrite,
       FailPacket, jobVars

LEMMA WorkerKeepsWorkerType ==
  ASSUME WorkerTypeOK, TaskTypeOK, NEW w \in Workers, WorkerStep(w) \/ Crash(w)
  PROVE  WorkerTypeOK'
<1> USE DEF WorkerSteps
<1>0. pc[w] \notin {"idle", "select"} => target[w] \in Jobs
  BY DEF WorkerTypeOK
<1>1. CASE ClaimCount(w)
  BY <1>1, GotoType DEF ClaimCount
<1>2. CASE ClaimSelect(w)
  <2>1. CASE Drop(w)
    BY <2>1, DropType
  <2>2. CASE ~Drop(w)
    BY <1>2, <2>2 DEF WorkerTypeOK, ClaimSelect, Goto, Queued
  <2> QED BY <2>1, <2>2
<1>3. CASE ClaimWrite(w)
  BY <1>0, <1>3, DropType, GotoType DEF ClaimWrite
<1>4. CASE StartRead(w)
  BY <1>0, <1>4, DropType, GotoType DEF StartRead
<1>5. CASE StartWrite(w)
  BY <1>0, <1>5, DropType, GotoType DEF StartWrite
<1>6. CASE CreatePacket(w)
  <2>1. CASE target[w] \in rows
    <3>1. Len(packets[target[w]]) + 1 \in Nat
      BY <1>0, <1>6 DEF CreatePacket, TaskTypeOK
    <3> QED BY <1>0, <1>6, <2>1, <3>1 DEF CreatePacket, WorkerTypeOK, Goto
  <2>2. CASE target[w] \notin rows
    BY <1>6, <2>2, DropType DEF CreatePacket
  <2> QED BY <2>1, <2>2
<1>7. CASE GenerationFails(w)
  BY <1>0, <1>7, GotoType DEF GenerationFails
<1>8. CASE CompleteRead(w)
  BY <1>0, <1>8, GotoType DEF CompleteRead
<1>9. CASE CompleteWrite(w)
  BY <1>0, <1>9, DropType, GotoType DEF CompleteWrite
<1>10. CASE FailPacket(w)
  BY <1>10, DropType DEF FailPacket
<1>11. CASE Crash(w)
  BY <1>11, DropType DEF Crash
<1> QED
  BY <1>1, <1>2, <1>3, <1>4, <1>5, <1>6, <1>7, <1>8, <1>9, <1>10, <1>11
  DEF WorkerStep

\* Overwriting one element of a sequence leaves a sequence.
LEMMA SeqExcept ==
  ASSUME NEW S, NEW s \in Seq(S), NEW i, NEW x \in S
  PROVE  /\ [s EXCEPT ![i] = x] \in Seq(S)
         /\ DOMAIN [s EXCEPT ![i] = x] = DOMAIN s
<1>1. PICK n \in Nat : s \in [1..n -> S]
  OBVIOUS
<1>2. [s EXCEPT ![i] = x] \in [1..n -> S]
  BY <1>1
<1> QED BY <1>1, <1>2

LEMMA WorkerKeepsTaskType ==
  ASSUME WorkerTypeOK, TaskTypeOK, NEW w \in Workers, WorkerStep(w) \/ Crash(w)
  PROVE  TaskTypeOK'
<1> USE DEF TaskStatuses, PacketStatuses, LeaseStates, AttemptStates
<1>0. pc[w] \notin {"idle", "select"} => target[w] \in Jobs
  BY DEF WorkerTypeOK
<1>1. CASE ClaimCount(w) \/ ClaimSelect(w) \/ StartRead(w) \/ GenerationFails(w)
           \/ CompleteRead(w) \/ Crash(w)
  BY <1>1 DEF TaskTypeOK, ClaimCount, ClaimSelect, StartRead, GenerationFails,
              CompleteRead, Crash, taskVars
<1>2. CASE ClaimWrite(w)
  <2>1. attempts[target[w]] + 1 \in Nat
    BY <1>0, <1>2 DEF TaskTypeOK, ClaimWrite
  <2> QED BY <1>0, <1>2, <2>1 DEF TaskTypeOK, ClaimWrite
<1>3. CASE StartWrite(w)
  BY <1>0, <1>3 DEF TaskTypeOK, StartWrite
<1>4. CASE CreatePacket(w)
  <2>1. Append(packets[target[w]], "generating") \in Seq(AttemptStates)
    BY <1>0, <1>4 DEF TaskTypeOK, CreatePacket
  <2> QED BY <1>0, <1>4, <2>1 DEF TaskTypeOK, CreatePacket, taskVars
<1>5. CASE CompleteWrite(w)
  <2>1. [packets[target[w]] EXCEPT ![slot[w]] = "ready"] \in Seq(AttemptStates)
    BY <1>0, <1>5, SeqExcept DEF TaskTypeOK, CompleteWrite
  <2> QED BY <1>0, <1>5, <2>1 DEF TaskTypeOK, CompleteWrite
<1>6. CASE FailPacket(w)
  <2>1. [packets[target[w]] EXCEPT ![slot[w]] = "failed"] \in Seq(AttemptStates)
    BY <1>0, <1>6, SeqExcept DEF TaskTypeOK, FailPacket
  <2> QED BY <1>0, <1>6, <2>1 DEF TaskTypeOK, FailPacket
<1> QED BY <1>1, <1>2, <1>3, <1>4, <1>5, <1>6 DEF WorkerStep

\* Requests: what a client asks is well formed, and it answers to NoRequest.
LEMMA AnswerType ==
  ASSUME ClientTypeOK, NEW c \in Clients, Answer(c)
  PROVE  ClientTypeOK'
BY DEF ClientTypeOK, Answer, NoRequest, Requests, ClientSteps, Priorities

LEMMA AskType ==
  ASSUME ClientTypeOK, NEW c \in Clients, NEW request \in Requests,
         request.op \notin {"none", "recover"} => request.job \in Jobs,
         Ask(c, request)
  PROVE  ClientTypeOK'
BY DEF ClientTypeOK, Ask

LEMMA ClientKeepsTypes ==
  ASSUME TypeOK, NEW c \in Clients, ClientStep(c)
  PROVE  TypeOK'
<1> USE DEF TypeOK
<1>1. ASSUME NEW j \in Jobs, PromoteRead(c, j)
      PROVE  TypeOK'
  <2> DEFINE request == [NoRequest EXCEPT !.op = "promote", !.job = j,
                                          !.priority = manualPriority[j]]
  <2>1. request \in Requests /\ request.job = j
    BY DEF JobTypeOK, NoRequest, Requests, ClientSteps
  <2>2. ClientTypeOK'
    BY <1>1, <2>1, AskType DEF PromoteRead
  <2> QED BY <1>1, <2>2 DEF PromoteRead, JobTypeOK, TaskTypeOK, WorkerTypeOK,
                            jobVars, taskVars, workerVars
<1>2. ASSUME NEW j \in Jobs, RetryRead(c, j)
      PROVE  TypeOK'
  <2>1. ASSUME NEW op \in {"retry_intake", "retry_packet"}
        PROVE  [NoRequest EXCEPT !.op = op, !.job = j] \in
                 {r \in Requests : r.job = j}
    BY DEF NoRequest, Requests, ClientSteps, Priorities
  <2>2. ClientTypeOK'
    BY <1>2, <2>1, AskType DEF RetryRead
  <2> QED BY <1>2, <2>2 DEF RetryRead, JobTypeOK, TaskTypeOK, WorkerTypeOK,
                            jobVars, taskVars, workerVars
<1>3. CASE RecoverRead(c)
  <2>1. [NoRequest EXCEPT
           !.op = "recover",
           !.requeue = {j \in Stale : attempts[j] < RetryLimit},
           !.giveUp  = {j \in Stale : attempts[j] >= RetryLimit}] \in
          {r \in Requests : r.op = "recover"}
    BY DEF NoRequest, Requests, ClientSteps, Priorities, Stale
  <2>2. ClientTypeOK'
    BY <1>3, <2>1, AskType DEF RecoverRead
  <2> QED BY <1>3, <2>2 DEF RecoverRead, JobTypeOK, TaskTypeOK, WorkerTypeOK,
                            jobVars, taskVars, workerVars
<1>4. CASE PromoteWrite(c)
  <2>1. client[c].job \in Jobs /\ client[c].priority \in Priorities
    BY <1>4 DEF PromoteWrite, ClientTypeOK, Requests
  <2>2. rank' \in [Jobs -> Priorities \X Nat] /\ promoted' \in Nat
    <3>1. <<client[c].priority, promoted>> \in Priorities \X Nat
      BY <2>1 DEF TaskTypeOK
    <3>2. promoted + 1 \in Nat
      BY DEF TaskTypeOK
    <3> QED BY <1>4, <3>1, <3>2 DEF PromoteWrite, TaskTypeOK, taskVars
  <2>3. /\ packetStatus' \in [Jobs -> PacketStatuses]
        /\ taskStatus' \in [Jobs -> TaskStatuses]
    BY <1>4 DEF PromoteWrite, TaskTypeOK, TaskStatuses, PacketStatuses, taskVars
  <2>4. lease' \in [Jobs -> LeaseStates] /\ packets' \in [Jobs -> Seq(AttemptStates)]
    BY <1>4 DEF PromoteWrite, TaskTypeOK, LeaseStates, taskVars
  <2>5. attempts' \in [Jobs -> Nat]
    <3>1. attempts \in [Jobs -> Nat] /\ 0 \in Nat
      BY DEF TaskTypeOK
    <3>2. CASE attempts' = attempts
      BY <3>1, <3>2
    <3>3. CASE attempts' = [attempts EXCEPT ![client[c].job] = 0]
      BY <3>1, <3>3, Zenon
    <3> QED BY <1>4, <3>2, <3>3 DEF PromoteWrite, taskVars
  <2> QED BY <1>4, <2>2, <2>3, <2>4, <2>5, AnswerType
          DEF PromoteWrite, JobTypeOK, TaskTypeOK, WorkerTypeOK, jobVars, workerVars
<1>5. CASE RetryIntakeWrite(c)
  BY <1>5, AnswerType DEF RetryIntakeWrite, JobTypeOK, TaskTypeOK, WorkerTypeOK,
                          IntakeViews, taskVars, workerVars
<1>6. CASE RetryPacketWrite(c)
  <2>1. TaskTypeOK'
    BY <1>6 DEF RetryPacketWrite, TaskTypeOK, TaskStatuses, PacketStatuses
  <2> QED BY <1>6, <2>1, AnswerType DEF RetryPacketWrite, JobTypeOK, WorkerTypeOK,
                                        jobVars, workerVars
<1>7. CASE RecoverWrite(c)
  <2>1. TaskTypeOK'
    BY <1>7 DEF RecoverWrite, Recovered, TaskTypeOK, TaskStatuses, PacketStatuses,
                LeaseStates
  <2> QED BY <1>7, <2>1, AnswerType DEF RecoverWrite, JobTypeOK, WorkerTypeOK,
                                        jobVars, workerVars
<1> QED BY <1>1, <1>2, <1>3, <1>4, <1>5, <1>6, <1>7 DEF ClientStep, ClientWrite

LEMMA JobStepKeepsTypes ==
  ASSUME TypeOK, NEW j \in Jobs, JobStep(j)
  PROVE  TypeOK'
<1>1. CASE Delete(j)
  BY <1>1 DEF Delete, TypeOK, JobTypeOK, TaskTypeOK, WorkerTypeOK, ClientTypeOK,
              PacketStatuses, TaskStatuses, LeaseStates, workerVars
<1>2. CASE ExpireLease(j)
  BY <1>2 DEF ExpireLease, TypeOK, JobTypeOK, TaskTypeOK, WorkerTypeOK,
              ClientTypeOK, LeaseStates, jobVars, workerVars
<1>3. CASE ~Delete(j) /\ ~ExpireLease(j)
  <2>1. JobTypeOK'
    BY <1>3 DEF JobStep, SetPriority, Archive, Restore, IntakeEnds, Rescore,
                TypeOK, JobTypeOK, IntakeViews
  <2>2. UNCHANGED <<packetStatus, taskVars, packets, workerVars, client>>
    BY <1>3 DEF JobStep, SetPriority, Archive, Restore, IntakeEnds, Rescore
  <2> QED BY <2>1, <2>2 DEF TypeOK, TaskTypeOK, WorkerTypeOK, ClientTypeOK,
                            taskVars, workerVars
<1> QED BY <1>1, <1>2, <1>3

LEMMA NextTypeOK == TypeOK /\ [Next]_vars => TypeOK'
<1> SUFFICES ASSUME TypeOK, [Next]_vars PROVE TypeOK'
  OBVIOUS
<1>1. ASSUME NEW w \in Workers, WorkerStep(w) \/ Crash(w)
      PROVE  TypeOK'
  <2>1. JobTypeOK' /\ ClientTypeOK'
    BY <1>1, WorkerFrame DEF TypeOK, JobTypeOK, ClientTypeOK
  <2> QED BY <1>1, <2>1, WorkerKeepsWorkerType, WorkerKeepsTaskType DEF TypeOK
<1>2. ASSUME NEW c \in Clients, ClientStep(c)
      PROVE  TypeOK'
  BY <1>2, ClientKeepsTypes
<1>3. ASSUME NEW j \in Jobs, JobStep(j)
      PROVE  TypeOK'
  BY <1>3, JobStepKeepsTypes
<1>4. CASE UNCHANGED vars
  BY <1>4 DEF vars, jobVars, taskVars, workerVars, TypeOK, JobTypeOK, TaskTypeOK,
              WorkerTypeOK, ClientTypeOK
<1> QED BY <1>1, <1>2, <1>3, <1>4 DEF Next

\* Every reachable state is well typed.
THEOREM TypeCorrect == Spec => []TypeOK
BY InitTypeOK, NextTypeOK, PTL DEF Spec

-----------------------------------------------------------------------------
\* Agreement of the two tables.

LEMMA WorkerKeepsAgreement ==
  ASSUME TypeOK, TaskAndJobAgree, NEW w \in Workers, WorkerStep(w) \/ Crash(w)
  PROVE  TaskAndJobAgree'
<1> USE DEF TaskAndJobAgree, Agreements
<1>0. /\ pc[w] \notin {"idle", "select"} => target[w] \in Jobs
      /\ taskStatus \in [Jobs -> TaskStatuses]
      /\ packetStatus \in [Jobs -> PacketStatuses]
  BY DEF TypeOK, WorkerTypeOK, TaskTypeOK
<1>1. CASE ClaimWrite(w)
  BY <1>0, <1>1 DEF ClaimWrite
<1>2. CASE StartWrite(w)
  BY <1>0, <1>2 DEF StartWrite
<1>3. CASE CompleteWrite(w)
  BY <1>0, <1>3 DEF CompleteWrite
<1>4. CASE FailPacket(w)
  BY <1>0, <1>4 DEF FailPacket
<1>5. CASE ClaimCount(w) \/ ClaimSelect(w) \/ StartRead(w) \/ CreatePacket(w)
           \/ GenerationFails(w) \/ CompleteRead(w) \/ Crash(w)
  BY <1>5 DEF ClaimCount, ClaimSelect, StartRead, CreatePacket, GenerationFails,
              CompleteRead, Crash, taskVars
<1> QED BY <1>1, <1>2, <1>3, <1>4, <1>5 DEF WorkerStep

LEMMA ClientKeepsAgreement ==
  ASSUME TypeOK, TaskAndJobAgree, RequestsAreBacked,
         NEW c \in Clients, ClientStep(c)
  PROVE  TaskAndJobAgree'
<1> USE DEF TaskAndJobAgree, Agreements
<1>0. /\ taskStatus \in [Jobs -> TaskStatuses]
      /\ packetStatus \in [Jobs -> PacketStatuses]
      /\ rows \subseteq Jobs
  BY DEF TypeOK, TaskTypeOK, JobTypeOK
<1>1. CASE PromoteWrite(c)
  BY <1>0, <1>1 DEF PromoteWrite, taskVars
<1>2. CASE RetryPacketWrite(c)
  BY <1>0, <1>2 DEF RetryPacketWrite, RequestsAreBacked
<1>3. CASE RecoverWrite(c)
  BY <1>0, <1>3 DEF RecoverWrite, Recovered
<1>4. CASE \/ \E j \in Jobs : PromoteRead(c, j) \/ RetryRead(c, j)
           \/ RecoverRead(c) \/ RetryIntakeWrite(c)
  BY <1>4 DEF PromoteRead, RetryRead, RecoverRead, RetryIntakeWrite, taskVars
<1> QED BY <1>1, <1>2, <1>3, <1>4 DEF ClientStep, ClientWrite

LEMMA JobStepKeepsAgreement ==
  ASSUME TypeOK, TaskAndJobAgree, NEW j \in Jobs, JobStep(j)
  PROVE  TaskAndJobAgree'
<1> USE DEF TaskAndJobAgree, Agreements
<1>1. CASE Delete(j)
  BY <1>1 DEF Delete, TypeOK, TaskTypeOK
<1>2. CASE ~Delete(j)
  BY <1>2 DEF JobStep, SetPriority, Archive, Restore, IntakeEnds, Rescore,
              ExpireLease, taskVars
<1> QED BY <1>1, <1>2

-----------------------------------------------------------------------------
\* A retry or a recovery finds the task it read, unless the job is gone.

\* Tasks disappear with their job's row and in no other way.
LEMMA TasksPersist ==
  ASSUME TypeOK, Next
  PROVE  /\ rows' \subseteq rows
         /\ \A j \in rows' : HasTask(j) => HasTask(j)'
<1> USE DEF HasTask
<1>0. /\ taskStatus \in [Jobs -> TaskStatuses]
      /\ rows \subseteq Jobs
      /\ \A w \in Workers : pc[w] \notin {"idle", "select"} => target[w] \in Jobs
  BY DEF TypeOK, TaskTypeOK, JobTypeOK, WorkerTypeOK
<1>1. ASSUME NEW w \in Workers, WorkerStep(w) \/ Crash(w)
      PROVE  rows' = rows /\ \A j \in Jobs : HasTask(j) => HasTask(j)'
  BY <1>0, <1>1, WorkerFrame
  DEF WorkerStep, Crash, ClaimCount, ClaimSelect, ClaimWrite, StartRead,
      StartWrite, CreatePacket, GenerationFails, CompleteRead, CompleteWrite,
      FailPacket, taskVars
<1>2. ASSUME NEW c \in Clients, ClientStep(c)
      PROVE  rows' = rows /\ \A j \in Jobs : HasTask(j) => HasTask(j)'
  BY <1>0, <1>2
  DEF ClientStep, ClientWrite, PromoteRead, PromoteWrite, RetryRead,
      RetryIntakeWrite, RetryPacketWrite, RecoverRead, RecoverWrite, Recovered,
      jobVars, taskVars
<1>3. ASSUME NEW k \in Jobs, JobStep(k)
      PROVE  rows' \subseteq rows /\ \A j \in rows' : HasTask(j) => HasTask(j)'
  BY <1>0, <1>3
  DEF JobStep, SetPriority, Archive, Restore, Delete, IntakeEnds, Rescore,
      ExpireLease, jobVars, taskVars
<1> QED BY <1>0, <1>1, <1>2, <1>3 DEF Next

LEMMA NextRequestsAreBacked ==
  ASSUME TypeOK, TaskAndJobAgree, RequestsAreBacked, Next
  PROVE  RequestsAreBacked'
<1>0. client \in [Clients -> Requests] /\ rows \subseteq Jobs
  BY DEF TypeOK, ClientTypeOK, JobTypeOK
<1> DEFINE Backed(request) ==
      /\ request.op = "retry_packet" /\ request.job \in rows => HasTask(request.job)
      /\ \A j \in rows \cap (request.requeue \cup request.giveUp) : HasTask(j)
<1> DEFINE StillBacked(request) ==
      /\ request.op = "retry_packet" /\ request.job \in rows' => taskStatus'[request.job] /= "none"
      /\ \A j \in rows' \cap (request.requeue \cup request.giveUp) :
           taskStatus'[j] /= "none"
<1>1. ASSUME NEW c \in Clients PROVE Backed(client[c])
  BY DEF RequestsAreBacked
<1>2. \A request : Backed(request) => StillBacked(request)
  BY TasksPersist DEF HasTask
<1>3. Backed(NoRequest)
  BY DEF NoRequest
<1>4. ASSUME NEW c \in Clients, ClientStep(c)
      PROVE  \A d \in Clients : client'[d] = client[d] \/ Backed(client'[d])
  <2>1. CASE ClientWrite(c)
    BY <1>0, <1>3, <1>4, <2>1 DEF ClientWrite, PromoteWrite, RetryIntakeWrite,
       RetryPacketWrite, RecoverWrite, Answer
  <2>2. ASSUME NEW j \in Jobs, PromoteRead(c, j)
        PROVE  \A d \in Clients : client'[d] = client[d] \/ Backed(client'[d])
    BY <1>0, <2>2 DEF PromoteRead, Ask, NoRequest
  <2>3. ASSUME NEW j \in Jobs, RetryRead(c, j)
        PROVE  \A d \in Clients : client'[d] = client[d] \/ Backed(client'[d])
    <3>1. packetStatus[j] \in Retryable => HasTask(j)
      BY DEF TaskAndJobAgree, Agreements, Retryable, HasTask
    <3> QED BY <1>0, <2>3, <3>1 DEF RetryRead, Ask, NoRequest
  <2>4. CASE RecoverRead(c)
    BY <1>0, <2>4 DEF RecoverRead, Ask, NoRequest, Stale, HasTask
  <2> QED BY <1>4, <2>1, <2>2, <2>3, <2>4 DEF ClientStep
<1>5. \A d \in Clients : client'[d] = client[d] \/ Backed(client'[d])
  <2>1. ASSUME NEW w \in Workers, WorkerStep(w) \/ Crash(w)
        PROVE  client' = client
    BY <2>1, WorkerFrame
  <2>2. ASSUME NEW j \in Jobs, JobStep(j)
        PROVE  client' = client
    BY <2>2 DEF JobStep, SetPriority, Archive, Restore, Delete, IntakeEnds,
                Rescore, ExpireLease
  <2> QED BY <1>4, <2>1, <2>2 DEF Next
<1> HIDE DEF Backed, StillBacked
<1>6. \A d \in Clients : StillBacked(client'[d])
  BY <1>1, <1>2, <1>5
<1> QED BY <1>6 DEF RequestsAreBacked, StillBacked, HasTask

-----------------------------------------------------------------------------
\* Ownership of the open attempts.

\* A step of a worker keeps the attempts, appends one to those of its job, or
\* settles its own and lets go of it.
LEMMA WorkerKeepsOwnership ==
  ASSUME TypeOK, AttemptsAreOwned, NEW w \in Workers, WorkerStep(w) \/ Crash(w)
  PROVE  AttemptsAreOwned'
<1> USE DEF AttemptsAreOwned, Holds
<1>0. /\ rows' = rows /\ rows \subseteq Jobs
      /\ pc \in [Workers -> WorkerSteps]
      /\ target \in [Workers -> Jobs \cup {NoJob}]
      /\ slot \in [Workers -> Nat]
      /\ packets \in [Jobs -> Seq(AttemptStates)]
      /\ pc[w] \notin {"idle", "select"} => target[w] \in Jobs
  BY WorkerFrame DEF TypeOK, WorkerTypeOK, TaskTypeOK, JobTypeOK
<1>1. CASE packets' = packets
  <2>1. CASE Drop(w)
    BY <1>0, <1>1, <2>1 DEF Drop
  <2>2. CASE /\ UNCHANGED <<target, slot>>
             /\ \E step \in WorkerSteps :
                  Goto(w, step) /\ (step \in {"complete", "fail"} => Holds(w))
                                /\ step /= "generate"
    BY <1>0, <1>1, <2>2 DEF Goto
  <2>3. CASE ClaimSelect(w)
    BY <1>0, <1>1, <2>1, <2>3 DEF ClaimSelect, Goto
  <2>4. CASE CreatePacket(w)
    <3>1. target[w] \in rows => packets'[target[w]] /= packets[target[w]]
      BY <1>0, <2>4 DEF CreatePacket
    <3> QED BY <1>1, <2>1, <2>4, <3>1 DEF CreatePacket
  <2>5. ASSUME ~Drop(w), ~ClaimSelect(w), ~CreatePacket(w)
        PROVE  /\ UNCHANGED <<target, slot>>
               /\ \E step \in WorkerSteps :
                    Goto(w, step) /\ (step \in {"complete", "fail"} => Holds(w))
                                  /\ step /= "generate"
    BY <2>5 DEF WorkerStep, Crash, ClaimCount, ClaimWrite, StartRead, StartWrite,
                GenerationFails, CompleteRead, CompleteWrite, FailPacket, WorkerSteps
  <2> QED BY <2>1, <2>2, <2>3, <2>4, <2>5
<1>2. CASE packets' /= packets
  <2> DEFINE j == target[w]
  <2>1. CASE CreatePacket(w)
    <3>1. /\ j \in rows
          /\ packets' = [packets EXCEPT ![j] = Append(packets[j], "generating")]
          /\ slot' = [slot EXCEPT ![w] = Len(packets[j]) + 1]
          /\ pc' = [pc EXCEPT ![w] = "generate"]
          /\ target' = target
      BY <1>2, <2>1 DEF CreatePacket, Goto
    <3>2. /\ DOMAIN packets'[j] = 1..(Len(packets[j]) + 1)
          /\ DOMAIN packets[j] = 1..Len(packets[j])
          /\ Len(packets[j]) \in Nat
          /\ packets'[j][Len(packets[j]) + 1] = "generating"
          /\ \A i \in DOMAIN packets[j] : packets'[j][i] = packets[j][i]
      BY <1>0, <3>1
    <3>3. \A v \in Workers : v /= w /\ Holds(v) /\ target[v] = j =>
            slot[v] \in DOMAIN packets[j] /\ slot[v] /= Len(packets[j]) + 1
      BY <3>1, <3>2
    <3> QED BY <1>0, <3>1, <3>2, <3>3
  <2>2. CASE CompleteWrite(w) \/ FailPacket(w)
    <3>1. PICK verdict \in AttemptStates :
            packets' = [packets EXCEPT ![j] = [packets[j] EXCEPT ![slot[w]] = verdict]]
      BY <1>2, <2>2 DEF CompleteWrite, FailPacket, AttemptStates
    <3>2. Drop(w) /\ Holds(w)
      BY <1>2, <2>2 DEF CompleteWrite, FailPacket
    <3>3. /\ DOMAIN packets'[j] = DOMAIN packets[j]
          /\ \A i \in DOMAIN packets[j] : i /= slot[w] => packets'[j][i] = packets[j][i]
      BY <1>0, <3>1, <3>2
    <3> QED BY <1>0, <3>1, <3>2, <3>3 DEF Drop
  <2>3. CreatePacket(w) \/ CompleteWrite(w) \/ FailPacket(w)
    BY <1>2 DEF WorkerStep, Crash, ClaimCount, ClaimSelect, ClaimWrite, StartRead,
                StartWrite, GenerationFails, CompleteRead
  <2> QED BY <2>1, <2>2, <2>3
<1> QED BY <1>1, <1>2

LEMMA NextAttemptsAreOwned ==
  ASSUME TypeOK, AttemptsAreOwned, Next
  PROVE  AttemptsAreOwned'
<1>1. ASSUME NEW w \in Workers, WorkerStep(w) \/ Crash(w)
      PROVE  AttemptsAreOwned'
  BY <1>1, WorkerKeepsOwnership
<1>2. ASSUME UNCHANGED <<rows, packets, workerVars>>
      PROVE  AttemptsAreOwned'
  BY <1>2 DEF AttemptsAreOwned, Holds, workerVars
<1>3. ASSUME NEW c \in Clients, ClientStep(c)
      PROVE  UNCHANGED <<rows, packets, workerVars>>
  BY <1>3 DEF ClientStep, ClientWrite, PromoteRead, PromoteWrite, RetryRead,
      RetryIntakeWrite, RetryPacketWrite, RecoverRead, RecoverWrite, jobVars
<1>4. ASSUME NEW j \in Jobs, JobStep(j), ~Delete(j)
      PROVE  UNCHANGED <<rows, packets, workerVars>>
  BY <1>4 DEF JobStep, SetPriority, Archive, Restore, IntakeEnds, Rescore,
      ExpireLease, jobVars
<1>5. ASSUME NEW j \in Jobs, Delete(j)
      PROVE  AttemptsAreOwned'
  BY <1>5 DEF Delete, AttemptsAreOwned, Holds, workerVars, TypeOK, JobTypeOK,
              TaskTypeOK
<1> QED BY <1>1, <1>2, <1>3, <1>4, <1>5 DEF Next

-----------------------------------------------------------------------------
\* A packet behind every ready job.

LEMMA WorkerKeepsReadyPackets ==
  ASSUME TypeOK, AttemptsAreOwned, ReadyHasPacket,
         NEW w \in Workers, WorkerStep(w) \/ Crash(w)
  PROVE  ReadyHasPacket'
<1> USE DEF ReadyHasPacket
<1> DEFINE j == target[w]
<1>0. /\ pc[w] \notin {"idle", "select"} => j \in Jobs
      /\ packetStatus \in [Jobs -> PacketStatuses]
      /\ packets \in [Jobs -> Seq(AttemptStates)]
  BY DEF TypeOK, WorkerTypeOK, TaskTypeOK
<1>1. CASE UNCHANGED <<packetStatus, packets>>
  BY <1>1
<1>2. CASE StartWrite(w)
  BY <1>0, <1>2 DEF StartWrite
<1>3. CASE CreatePacket(w)
  <2>1. CASE j \in rows
    <3>1. packets' = [packets EXCEPT ![j] = Append(packets[j], "generating")]
          /\ packetStatus' = packetStatus
      BY <1>3, <2>1 DEF CreatePacket
    <3>2. \A i \in DOMAIN packets[j] : i \in DOMAIN packets'[j]
                                      /\ packets'[j][i] = packets[j][i]
      BY <1>0, <1>3, <3>1 DEF CreatePacket
    <3> QED BY <1>0, <3>1, <3>2
  <2>2. CASE j \notin rows
    BY <1>1, <1>3, <2>2 DEF CreatePacket
  <2> QED BY <2>1, <2>2
<1>4. CASE CompleteWrite(w)
  <2>1. CASE j \in rows /\ ValidPacketTransition(packetStatus[j], "ready")
    <3>1. /\ packets' = [packets EXCEPT ![j][slot[w]] = "ready"]
          /\ packetStatus' = [packetStatus EXCEPT ![j] = "ready"]
      BY <1>4, <2>1 DEF CompleteWrite
    <3>2. slot[w] \in DOMAIN packets[j]
      BY <1>4, <2>1 DEF CompleteWrite, AttemptsAreOwned, Holds
    <3>3. slot[w] \in DOMAIN packets'[j] /\ packets'[j][slot[w]] = "ready"
      BY <1>0, <1>4, <3>1, <3>2 DEF CompleteWrite
    <3> QED BY <1>0, <3>1, <3>3
  <2>2. CASE ~(j \in rows /\ ValidPacketTransition(packetStatus[j], "ready"))
    BY <1>1, <1>4, <2>2 DEF CompleteWrite
  <2> QED BY <2>1, <2>2
<1>5. CASE FailPacket(w)
  BY <1>0, <1>5 DEF FailPacket
<1>6. \/ UNCHANGED <<packetStatus, packets>>
      \/ StartWrite(w) \/ CreatePacket(w) \/ CompleteWrite(w) \/ FailPacket(w)
  BY DEF WorkerStep, Crash, ClaimCount, ClaimSelect, ClaimWrite, StartRead,
         GenerationFails, CompleteRead
<1> QED BY <1>1, <1>2, <1>3, <1>4, <1>5, <1>6

LEMMA NextReadyHasPacket ==
  ASSUME TypeOK, RequestsAreBacked, AttemptsAreOwned, ReadyHasPacket, Next
  PROVE  ReadyHasPacket'
<1>0. packetStatus \in [Jobs -> PacketStatuses] /\ rows \subseteq Jobs
      /\ packets \in [Jobs -> Seq(AttemptStates)]
  BY DEF TypeOK, TaskTypeOK, JobTypeOK
<1>1. ASSUME NEW w \in Workers, WorkerStep(w) \/ Crash(w)
      PROVE  ReadyHasPacket'
  BY <1>1, WorkerKeepsReadyPackets
<1>2. ASSUME NEW c \in Clients, ClientStep(c)
      PROVE  ReadyHasPacket'
  <2>1. packets' = packets
    BY <1>2 DEF ClientStep, ClientWrite, PromoteRead, PromoteWrite, RetryRead,
                RetryIntakeWrite, RetryPacketWrite, RecoverRead, RecoverWrite
  <2>2. \A j \in Jobs : packetStatus'[j] = "ready" => packetStatus[j] = "ready"
    BY <1>0, <1>2 DEF ClientStep, ClientWrite, PromoteRead, PromoteWrite, RetryRead,
       RetryIntakeWrite, RetryPacketWrite, RecoverRead, RecoverWrite, Recovered
  <2> QED BY <2>1, <2>2 DEF ReadyHasPacket
<1>3. ASSUME NEW j \in Jobs, JobStep(j)
      PROVE  ReadyHasPacket'
  <2>1. CASE Delete(j)
    BY <1>0, <2>1 DEF Delete, ReadyHasPacket
  <2>2. CASE ~Delete(j)
    BY <1>3, <2>2 DEF JobStep, SetPriority, Archive, Restore, IntakeEnds, Rescore,
                      ExpireLease, ReadyHasPacket
  <2> QED BY <2>1, <2>2
<1> QED BY <1>1, <1>2, <1>3 DEF Next

-----------------------------------------------------------------------------
\* The invariant is inductive.

LEMMA InitIInv == Init => IInv
<1> SUFFICES ASSUME Init PROVE IInv
  OBVIOUS
<1>1. TypeOK
  BY InitTypeOK
<1>2. TaskAndJobAgree /\ ReadyHasPacket
  BY DEF Init, TaskAndJobAgree, Agreements, ReadyHasPacket
<1>3. RequestsAreBacked
  BY DEF Init, RequestsAreBacked, NoRequest
<1>4. AttemptsAreOwned
  BY DEF Init, AttemptsAreOwned, Holds
<1> QED BY <1>1, <1>2, <1>3, <1>4 DEF IInv

LEMMA NextIInv == IInv /\ [Next]_vars => IInv'
<1> SUFFICES ASSUME IInv, [Next]_vars PROVE IInv'
  OBVIOUS
<1>1. TypeOK'
  BY NextTypeOK DEF IInv
<1>2. CASE Next
  <2>1. TaskAndJobAgree'
    BY <1>2, WorkerKeepsAgreement, ClientKeepsAgreement, JobStepKeepsAgreement
    DEF IInv, Next
  <2> QED BY <1>1, <1>2, <2>1, NextRequestsAreBacked, NextAttemptsAreOwned,
             NextReadyHasPacket DEF IInv
<1>3. CASE UNCHANGED vars
  BY <1>1, <1>3 DEF vars, jobVars, taskVars, workerVars, IInv, TaskAndJobAgree,
     RequestsAreBacked, HasTask, AttemptsAreOwned, Holds, ReadyHasPacket
<1> QED BY <1>2, <1>3

LEMMA Invariance == Spec => []IInv
BY InitIInv, NextIInv, PTL DEF Spec

\* The jobs table and the q2_tasks table agree in every reachable state, whatever
\* stale guards the writers of create_q2_task, start_q2_task, retry_job and
\* recover_stale_q2_tasks acted on.
THEOREM Agreement == Spec => []TaskAndJobAgree
BY Invariance, PTL DEF IInv

\* No two workers ever hold the same attempt, and the attempt a worker is about
\* to complete or fail is still open.
THEOREM Ownership == Spec => []AttemptsAreOwned
BY Invariance, PTL DEF IInv

\* A job shown as ready has a completed packet.
THEOREM ReadyIsBacked == Spec => []ReadyHasPacket
BY Invariance, PTL DEF IInv

\* One step never revises the verdict on a packet.
LEMMA StepVerdictsStand ==
  ASSUME IInv, [Next]_vars
  PROVE  \A j \in rows' : \A i \in DOMAIN packets[j] :
           packets[j][i] /= "generating" => packets'[j][i] = packets[j][i]
<1>0. packets \in [Jobs -> Seq(AttemptStates)] /\ rows \subseteq Jobs
      /\ \A w \in Workers : pc[w] \notin {"idle", "select"} => target[w] \in Jobs
  BY DEF IInv, TypeOK, TaskTypeOK, JobTypeOK, WorkerTypeOK
<1>1. CASE packets' = packets
  BY <1>1
<1>2. ASSUME NEW w \in Workers, CreatePacket(w), packets' /= packets
      PROVE  \A j \in rows' : \A i \in DOMAIN packets[j] : packets'[j][i] = packets[j][i]
  <2>1. /\ target[w] \in Jobs /\ rows' = rows
        /\ packets' = [packets EXCEPT ![target[w]] =
                          Append(packets[target[w]], "generating")]
    BY <1>0, <1>2 DEF CreatePacket, jobVars
  <2>2. \A i \in DOMAIN packets[target[w]] :
          packets'[target[w]][i] = packets[target[w]][i]
    BY <1>0, <2>1
  <2> QED BY <1>0, <2>1, <2>2
<1>3. ASSUME NEW w \in Workers, CompleteWrite(w) \/ FailPacket(w), packets' /= packets
      PROVE  \A j \in rows' : \A i \in DOMAIN packets[j] :
               packets[j][i] /= "generating" => packets'[j][i] = packets[j][i]
  <2>1. PICK verdict \in AttemptStates :
          packets' = [packets EXCEPT ![target[w]] =
                        [packets[target[w]] EXCEPT ![slot[w]] = verdict]]
    BY <1>3 DEF CompleteWrite, FailPacket, AttemptStates
  <2>2. target[w] \in rows /\ Holds(w) /\ rows' = rows
    BY <1>3 DEF CompleteWrite, FailPacket, Holds, jobVars
  <2>3. packets[target[w]][slot[w]] = "generating"
    BY <2>2 DEF IInv, AttemptsAreOwned
  <2> QED BY <1>0, <2>1, <2>2, <2>3
<1>4. ASSUME NEW j \in Jobs, Delete(j)
      PROVE  \A k \in rows' : packets'[k] = packets[k]
  BY <1>0, <1>4 DEF Delete
<1>5. \/ packets' = packets
      \/ \E w \in Workers : CreatePacket(w) \/ CompleteWrite(w) \/ FailPacket(w)
      \/ \E j \in Jobs : Delete(j)
  BY DEF Next, vars, WorkerStep, Crash, ClaimCount, ClaimSelect, ClaimWrite,
     StartRead, StartWrite, GenerationFails, CompleteRead, ClientStep, ClientWrite,
     PromoteRead, PromoteWrite, RetryRead, RetryIntakeWrite, RetryPacketWrite,
     RecoverRead, RecoverWrite, JobStep, SetPriority, Archive, Restore, IntakeEnds,
     Rescore, ExpireLease
<1> QED BY <1>1, <1>2, <1>3, <1>4, <1>5

\* A delivered or failed packet keeps its verdict while its job exists.
THEOREM VerdictsAreFinal == Spec => VerdictsStand
<1>1. IInv /\ [Next]_vars =>
        [\A j \in rows' : \A i \in DOMAIN packets[j] :
           packets[j][i] /= "generating" => packets'[j][i] = packets[j][i]]_vars
  BY StepVerdictsStand
<1> QED BY <1>1, Invariance, PTL DEF Spec, VerdictsStand

-----------------------------------------------------------------------------
\* Attempts, as long as no user retries and one request is made at a time: two
\* recoveries that read the same task would both give it another attempt.
Unretried == "retry" \notin Operations /\ RetryLimit > 0 /\ \A c, d \in Clients : c = d

\* A task that waits, or that a recovery is about to let wait, has one left; and
\* the recovery still finds it as it was read, or deleted.
AttemptsAreLeft ==
  /\ \A j \in Jobs : taskStatus[j] = "queued" => attempts[j] < RetryLimit
  /\ \A c \in Clients :
       /\ client[c].op /= "retry_packet"
       /\ client[c].op /= "recover" => client[c].requeue = {}
       /\ \A j \in client[c].requeue : attempts[j] < RetryLimit /\ taskStatus[j] /= "queued"

BInv == IInv /\ AttemptsBounded /\ AttemptsAreLeft

LEMMA BoundTypes ==
  ASSUME IInv
  PROVE  /\ taskStatus \in [Jobs -> TaskStatuses] /\ attempts \in [Jobs -> Nat]
         /\ client \in [Clients -> Requests] /\ RetryLimit \in Nat
         /\ \A c \in Clients : client[c].requeue \subseteq Jobs
         /\ \A w \in Workers : pc[w] \notin {"idle", "select"} => target[w] \in Jobs
BY LimitAssumption DEF IInv, TypeOK, TaskTypeOK, ClientTypeOK, WorkerTypeOK, Requests

LEMMA WorkerKeepsBound ==
  ASSUME Unretried, BInv, NEW w \in Workers, WorkerStep(w) \/ Crash(w)
  PROVE  AttemptsBounded' /\ AttemptsAreLeft'
<1>0. /\ AttemptsBounded /\ AttemptsAreLeft /\ client' = client
      /\ taskStatus \in [Jobs -> TaskStatuses] /\ attempts \in [Jobs -> Nat]
      /\ RetryLimit \in Nat /\ \A c \in Clients : client[c].requeue \subseteq Jobs
      /\ pc[w] \notin {"idle", "select"} => target[w] \in Jobs
  BY BoundTypes, WorkerFrame DEF BInv
<1>1. CASE ClaimWrite(w)
  <2>1. target[w] \in Jobs
    BY <1>0, <1>1 DEF ClaimWrite
  <2>2. CASE taskStatus[target[w]] = "queued"
    BY <1>0, <1>1, <2>1, <2>2 DEF ClaimWrite, AttemptsBounded, AttemptsAreLeft
  <2>3. CASE taskStatus[target[w]] /= "queued"
    BY <1>0, <1>1, <2>3 DEF ClaimWrite, AttemptsBounded, AttemptsAreLeft
  <2> QED BY <2>2, <2>3
<1>2. ASSUME UNCHANGED attempts,
             \/ UNCHANGED taskStatus
             \/ \E status \in {"running", "ready", "failed"} :
                  taskStatus' = [taskStatus EXCEPT ![target[w]] = status]
      PROVE  AttemptsBounded' /\ AttemptsAreLeft'
  BY <1>0, <1>2 DEF AttemptsBounded, AttemptsAreLeft
<1>3. CASE StartWrite(w) \/ CompleteWrite(w) \/ FailPacket(w)
  BY <1>2, <1>3 DEF StartWrite, CompleteWrite, FailPacket
<1> QED BY <1>1, <1>2, <1>3 DEF WorkerStep, Crash, ClaimCount, ClaimSelect, StartRead,
           CreatePacket, GenerationFails, CompleteRead, taskVars

LEMMA ClientKeepsBound ==
  ASSUME Unretried, BInv, NEW c \in Clients, ClientStep(c)
  PROVE  AttemptsBounded' /\ AttemptsAreLeft'
<1>0. /\ AttemptsBounded /\ AttemptsAreLeft
      /\ taskStatus \in [Jobs -> TaskStatuses] /\ attempts \in [Jobs -> Nat]
      /\ client \in [Clients -> Requests] /\ client[c] \in Requests
      /\ RetryLimit \in Nat /\ RetryLimit > 0
      /\ client[c].requeue \subseteq Jobs
      /\ \A d \in Clients : d = c
  BY BoundTypes DEF BInv, Unretried
<1>1. ASSUME NEW j \in Jobs, PromoteRead(c, j) PROVE AttemptsBounded' /\ AttemptsAreLeft'
  BY <1>0, <1>1 DEF PromoteRead, Ask, NoRequest, taskVars, AttemptsBounded, AttemptsAreLeft
<1>2. ASSUME NEW j \in Jobs PROVE ~RetryRead(c, j)
  BY DEF RetryRead, Offered, Unretried
<1>3. CASE RecoverRead(c)
  <2>1. client'[c] = [NoRequest EXCEPT !.op = "recover",
                        !.requeue = {j \in Stale : attempts[j] < RetryLimit},
                        !.giveUp  = {j \in Stale : attempts[j] >= RetryLimit}]
        /\ UNCHANGED <<taskStatus, attempts>>
    BY <1>0, <1>3 DEF RecoverRead, Ask, taskVars
  <2>2. client'[c].op = "recover"
        /\ \A j \in client'[c].requeue :
             attempts[j] < RetryLimit /\ taskStatus[j] /= "queued"
    BY <2>1 DEF NoRequest, Stale
  <2> QED BY <1>0, <2>1, <2>2 DEF AttemptsBounded, AttemptsAreLeft
<1>4. CASE PromoteWrite(c)
  <2>1. client'[c] = NoRequest
    BY <1>0, <1>4 DEF PromoteWrite, Answer
  <2>2. CASE UNCHANGED taskVars
    BY <1>0, <2>1, <2>2 DEF NoRequest, taskVars, AttemptsBounded, AttemptsAreLeft
  <2>3. CASE ~UNCHANGED taskVars
    BY <1>0, <1>4, <2>1, <2>3 DEF PromoteWrite, NoRequest, AttemptsBounded, AttemptsAreLeft
  <2> QED BY <2>2, <2>3
<1>5. CASE RetryIntakeWrite(c)
  BY <1>0, <1>5 DEF RetryIntakeWrite, Answer, NoRequest, taskVars, AttemptsBounded,
     AttemptsAreLeft
<1>6. ~RetryPacketWrite(c)
  BY <1>0 DEF RetryPacketWrite, AttemptsAreLeft
<1>7. CASE RecoverWrite(c)
  <2>1. client'[c] = NoRequest /\ UNCHANGED attempts
    BY <1>0, <1>7 DEF RecoverWrite, Answer
  <2>2. \A j \in Jobs : taskStatus'[j] = "queued" =>
                          taskStatus[j] = "queued" \/ j \in client[c].requeue
    BY <1>7 DEF RecoverWrite, Recovered
  <2> QED BY <1>0, <2>1, <2>2 DEF NoRequest, AttemptsBounded, AttemptsAreLeft
<1> QED BY <1>1, <1>2, <1>3, <1>4, <1>5, <1>6, <1>7 DEF ClientStep, ClientWrite

LEMMA JobStepKeepsBound ==
  ASSUME BInv, NEW j \in Jobs, JobStep(j)
  PROVE  AttemptsBounded' /\ AttemptsAreLeft'
<1>0. /\ AttemptsBounded /\ AttemptsAreLeft /\ client' = client
      /\ taskStatus \in [Jobs -> TaskStatuses] /\ attempts \in [Jobs -> Nat]
      /\ RetryLimit \in Nat /\ \A c \in Clients : client[c].requeue \subseteq Jobs
  BY BoundTypes DEF BInv, JobStep, SetPriority, Archive, Restore, Delete, IntakeEnds,
     Rescore, ExpireLease
<1>1. CASE Delete(j)
  BY <1>0, <1>1 DEF Delete, AttemptsBounded, AttemptsAreLeft
<1>2. CASE ~Delete(j)
  <2>1. UNCHANGED <<taskStatus, attempts>>
    BY <1>2 DEF JobStep, SetPriority, Archive, Restore, IntakeEnds, Rescore, ExpireLease,
       taskVars
  <2> QED BY <1>0, <2>1 DEF AttemptsBounded, AttemptsAreLeft
<1> QED BY <1>1, <1>2

\* A task is attempted RetryLimit times at most, whatever crashes and however
\* leases run out, when no user retries it and one request is made at a time.
THEOREM AttemptsAreBounded ==
  ASSUME Unretried
  PROVE  Spec => []AttemptsBounded
<1>1. Init => BInv
  BY InitIInv, LimitAssumption
  DEF Init, BInv, AttemptsBounded, AttemptsAreLeft, NoRequest
<1>2. BInv /\ [Next]_vars => BInv'
  <2> SUFFICES ASSUME BInv, [Next]_vars PROVE BInv'
    OBVIOUS
  <2>1. IInv'
    BY NextIInv DEF BInv
  <2>2. AttemptsBounded' /\ AttemptsAreLeft'
    <3>1. CASE UNCHANGED vars
      BY <3>1 DEF BInv, vars, taskVars, AttemptsBounded, AttemptsAreLeft
    <3> QED BY <3>1, WorkerKeepsBound, ClientKeepsBound, JobStepKeepsBound DEF Next
  <2> QED BY <2>1, <2>2 DEF BInv
<1> QED BY <1>1, <1>2, PTL DEF Spec, BInv
=============================================================================
