----------------------- MODULE PacketRefinementProofs -----------------------
(***************************************************************************)
(* PacketQueue implements PacketLifecycle, for every number of jobs and    *)
(* workers, as long as no lease runs out under a worker that is still at   *)
(* it and requests are made one at a time.  Each write of a worker or a    *)
(* client is one step of the lifecycle; reads, crashes and what the writes *)
(* of a loser leave behind are none.                                       *)
(***************************************************************************)
EXTENDS PacketQueueProofs, FiniteSetTheorems

\* The assumption.  Without it a recovery or a retry may act on a row that a
\* worker or another request has changed since it was read, and queue a packet
\* again that was delivered meanwhile.
OneAtATime == LeaseOutlivesWork /\ \A c, d \in Clients : c = d

\* A worker that generates works on a job that says so, unless it was deleted.
GeneratingIsShown ==
  \A w \in Workers : Generates(w) /\ target[w] \in rows =>
                       packetStatus[target[w]] = "generating"

\* A lease belongs to a task under way, and one that ran out to nobody.
LeasesAreAttended ==
  \A j \in Jobs :
    /\ lease[j] /= "none" => taskStatus[j] \in {"claimed", "running"}
    /\ lease[j] = "expired" => \A w \in Workers : target[w] /= j

\* What a retry or a recovery read is still so when it writes.
RequestsAreFresh ==
  \A c \in Clients :
    /\ client[c].op = "retry_packet" /\ client[c].job \in rows =>
         packetStatus[client[c].job] = "failed"
    /\ \A j \in rows \cap (client[c].requeue \cup client[c].giveUp) :
         lease[j] = "expired"

\* The ready ones of a sequence of attempts.
ReadyOf(s) == {i \in DOMAIN s : s[i] = "ready"}

\* One attempt of a ready job is ready, none of any other.
OneDelivery ==
  \A j \in Jobs :
    IF packetStatus[j] = "ready" THEN \E i : ReadyOf(packets[j]) = {i}
                                 ELSE ReadyOf(packets[j]) = {}

\* The inductive invariant: IInv, OneGenerator and what these two need.
RInv ==
  /\ OneAtATime
  /\ IInv
  /\ GeneratingIsShown
  /\ OneGenerator
  /\ LeasesAreAttended
  /\ RequestsAreFresh
  /\ OneDelivery

LEMMA InitRInv == OneAtATime /\ Init => RInv
<1> SUFFICES ASSUME OneAtATime, Init PROVE RInv
  OBVIOUS
<1>1. IInv
  BY InitIInv
<1>2. GeneratingIsShown /\ OneGenerator
  BY DEF Init, GeneratingIsShown, OneGenerator, Generates
<1>3. LeasesAreAttended /\ RequestsAreFresh
  BY DEF Init, LeasesAreAttended, RequestsAreFresh, NoRequest
<1>4. OneDelivery
  BY DEF Init, OneDelivery, ReadyOf
<1> QED BY <1>1, <1>2, <1>3, <1>4 DEF RInv

\* The types the steps below rely on.
LEMMA StepTypes ==
  ASSUME IInv
  PROVE  /\ rows \subseteq Jobs
         /\ packetStatus \in [Jobs -> PacketStatuses]
         /\ taskStatus \in [Jobs -> TaskStatuses]
         /\ lease \in [Jobs -> LeaseStates]
         /\ packets \in [Jobs -> Seq(AttemptStates)]
         /\ pc \in [Workers -> WorkerSteps]
         /\ target \in [Workers -> Jobs \cup {NoJob}]
         /\ slot \in [Workers -> Nat]
         /\ client \in [Clients -> Requests]
         /\ \A w \in Workers : pc[w] \notin {"idle", "select"} => target[w] \in Jobs
         /\ \A c \in Clients : client[c].op \in {"promote", "retry_packet"} =>
                                  client[c].job \in Jobs
         /\ \A j \in Jobs : <<taskStatus[j], packetStatus[j]>> \in Agreements
BY DEF IInv, TypeOK, JobTypeOK, TaskTypeOK, WorkerTypeOK, ClientTypeOK,
       TaskAndJobAgree

-----------------------------------------------------------------------------
\* Workers.

LEMMA WorkerKeepsGenerators ==
  ASSUME RInv, NEW w \in Workers, WorkerStep(w) \/ Crash(w)
  PROVE  GeneratingIsShown' /\ OneGenerator'
<1> USE DEF GeneratingIsShown, OneGenerator, Generates, WorkerSteps
<1>0. /\ GeneratingIsShown /\ OneGenerator /\ rows' = rows
  BY WorkerFrame DEF RInv
<1>a. /\ pc \in [Workers -> WorkerSteps]
      /\ target \in [Workers -> Jobs \cup {NoJob}]
      /\ packetStatus \in [Jobs -> PacketStatuses]
      /\ rows \subseteq Jobs
      /\ pc[w] \notin {"idle", "select"} => target[w] \in Jobs
  BY StepTypes DEF RInv
<1>1. CASE ClaimCount(w) \/ ClaimWrite(w) \/ StartRead(w) \/ CreatePacket(w)
           \/ GenerationFails(w) \/ CompleteRead(w) \/ Crash(w)
  BY <1>0, <1>a, <1>1 DEF ClaimCount, ClaimWrite, StartRead, CreatePacket,
     GenerationFails, CompleteRead, Crash, Goto, Drop
<1>2. CASE ClaimSelect(w)
  BY <1>0, <1>a, <1>2 DEF ClaimSelect, Goto, Drop
<1>3. CASE StartWrite(w)
  <2>1. CASE /\ target[w] \in rows
             /\ ValidPacketTransition(packetStatus[target[w]], "generating")
    <3>1. packetStatus[target[w]] /= "generating"
      BY <2>1 DEF ValidPacketTransition, PACKET_TRANSITIONS
    <3> QED BY <1>0, <1>a, <1>3, <2>1, <3>1 DEF StartWrite, Goto
  <2>2. CASE ~(/\ target[w] \in rows
               /\ ValidPacketTransition(packetStatus[target[w]], "generating"))
    BY <1>0, <1>a, <1>3, <2>2 DEF StartWrite, Drop
  <2> QED BY <2>1, <2>2
<1>4. CASE CompleteWrite(w)
  <2>1. CASE /\ target[w] \in rows
             /\ ValidPacketTransition(packetStatus[target[w]], "ready")
    BY <1>0, <1>a, <1>4, <2>1 DEF CompleteWrite, Drop
  <2>2. CASE ~(/\ target[w] \in rows
               /\ ValidPacketTransition(packetStatus[target[w]], "ready"))
    BY <1>0, <1>a, <1>4, <2>2 DEF CompleteWrite, Drop, Goto
  <2> QED BY <2>1, <2>2
<1>5. CASE FailPacket(w)
  BY <1>0, <1>a, <1>5 DEF FailPacket, Drop
<1> QED BY <1>1, <1>2, <1>3, <1>4, <1>5 DEF WorkerStep

LEMMA WorkerKeepsLeases ==
  ASSUME RInv, NEW w \in Workers, WorkerStep(w) \/ Crash(w)
  PROVE  LeasesAreAttended' /\ RequestsAreFresh'
<1>0. /\ LeasesAreAttended /\ RequestsAreFresh /\ GeneratingIsShown
      /\ rows' = rows /\ client' = client
  BY WorkerFrame DEF RInv
<1>a. /\ pc \in [Workers -> WorkerSteps]
      /\ target \in [Workers -> Jobs \cup {NoJob}]
      /\ packetStatus \in [Jobs -> PacketStatuses]
      /\ taskStatus \in [Jobs -> TaskStatuses]
      /\ lease \in [Jobs -> LeaseStates]
      /\ client \in [Clients -> Requests]
      /\ rows \subseteq Jobs
      /\ pc[w] \notin {"idle", "select"} => target[w] \in Jobs
      /\ \A j \in Jobs : <<taskStatus[j], packetStatus[j]>> \in Agreements
  BY StepTypes DEF RInv
<1>b. \A j \in Jobs : target'[w] = j => target[w] = j \/ taskStatus[j] = "queued"
  BY <1>a, NoJobAssumption
  DEF WorkerStep, Crash, ClaimCount, ClaimSelect, ClaimWrite, StartRead,
      StartWrite, CreatePacket, GenerationFails, CompleteRead, CompleteWrite,
     FailPacket, Drop, Goto, Queued
<1>c. \A v \in Workers : v /= w => target'[v] = target[v]
  BY <1>a DEF WorkerStep, Crash, ClaimCount, ClaimSelect, ClaimWrite, StartRead,
     StartWrite, CreatePacket, GenerationFails, CompleteRead, CompleteWrite,
     FailPacket, Drop, Goto
<1>d. \A j \in Jobs : j /= target[w] =>
        UNCHANGED <<lease[j], taskStatus[j], packetStatus[j]>>
  BY <1>a DEF WorkerStep, Crash, ClaimCount, ClaimSelect, ClaimWrite, StartRead,
     StartWrite, CreatePacket, GenerationFails, CompleteRead, CompleteWrite,
     FailPacket, taskVars
<1>e. /\ lease'[target[w]] = "expired" => lease[target[w]] = "expired"
      /\ target[w] \in Jobs /\ lease'[target[w]] /= "none" =>
           taskStatus'[target[w]] \in {"claimed", "running"}
      /\ target[w] \in Jobs /\ packetStatus[target[w]] = "failed" =>
           packetStatus'[target[w]] = "failed"
  <2>1. CASE UNCHANGED <<lease, taskStatus, packetStatus>>
    BY <1>0, <2>1 DEF LeasesAreAttended
  <2>2. CASE ClaimWrite(w)
    BY <1>0, <1>a, <2>2 DEF ClaimWrite, LeasesAreAttended
  <2>3. CASE StartWrite(w)
    BY <1>0, <1>a, <2>3 DEF StartWrite, LeasesAreAttended, ValidPacketTransition,
       PACKET_TRANSITIONS
  <2>4. CASE CompleteWrite(w)
    BY <1>0, <1>a, <2>4 DEF CompleteWrite, LeasesAreAttended,
       ValidPacketTransition, PACKET_TRANSITIONS
  <2>5. CASE FailPacket(w)
    BY <1>0, <1>a, <2>5 DEF FailPacket, LeasesAreAttended
  <2>6. CASE ClaimCount(w) \/ ClaimSelect(w) \/ StartRead(w) \/ CreatePacket(w)
             \/ GenerationFails(w) \/ CompleteRead(w) \/ Crash(w)
    BY <2>1, <2>6 DEF ClaimCount, ClaimSelect, StartRead, CreatePacket,
       GenerationFails, CompleteRead, Crash, taskVars
  <2> QED BY <2>2, <2>3, <2>4, <2>5, <2>6 DEF WorkerStep
<1>1. LeasesAreAttended'
  <2>1. ASSUME NEW j \in Jobs, lease'[j] /= "none"
        PROVE  taskStatus'[j] \in {"claimed", "running"}
    BY <1>0, <1>d, <1>e, <2>1 DEF LeasesAreAttended
  <2>2. ASSUME NEW j \in Jobs, lease'[j] = "expired", NEW v \in Workers
        PROVE  target'[v] /= j
    <3>1. lease[j] = "expired"
      BY <1>d, <1>e, <2>2
    <3>2. taskStatus[j] \in {"claimed", "running"} /\ \A u \in Workers : target[u] /= j
      BY <1>0, <3>1 DEF LeasesAreAttended
    <3> QED BY <1>b, <1>c, <3>2
  <2> QED BY <2>1, <2>2 DEF LeasesAreAttended
<1>2. RequestsAreFresh'
  <2>1. ASSUME NEW j \in Jobs, lease[j] = "expired" PROVE lease'[j] = "expired"
    <3>1. target[w] /= j
      BY <1>0, <2>1 DEF LeasesAreAttended
    <3> QED BY <1>d, <2>1, <3>1
  <2>2. \A j \in Jobs : packetStatus[j] = "failed" => packetStatus'[j] = "failed"
    BY <1>d, <1>e
  <2> QED BY <1>0, <1>a, <2>1, <2>2 DEF RequestsAreFresh
<1> QED BY <1>1, <1>2

\* An open attempt is not ready; the verdict on one settles what is.
LEMMA ReadyOfAppend ==
  ASSUME NEW s \in Seq(AttemptStates)
  PROVE  ReadyOf(Append(s, "generating")) = ReadyOf(s)
BY DEF ReadyOf, AttemptStates

LEMMA ReadyOfSettled ==
  ASSUME NEW s \in Seq(AttemptStates), NEW i \in DOMAIN s, ReadyOf(s) = {}
  PROVE  /\ ReadyOf([s EXCEPT ![i] = "ready"]) = {i}
         /\ ReadyOf([s EXCEPT ![i] = "failed"]) = {}
<1>1. \A k \in DOMAIN s : s[k] /= "ready"
  BY DEF ReadyOf
<1>2. ASSUME NEW x \in AttemptStates
      PROVE  /\ DOMAIN [s EXCEPT ![i] = x] = DOMAIN s
             /\ [s EXCEPT ![i] = x][i] = x
             /\ \A k \in DOMAIN s : k /= i => [s EXCEPT ![i] = x][k] = s[k]
  BY SeqExcept
<1>3. ReadyOf([s EXCEPT ![i] = "ready"]) = {i}
  BY <1>1, <1>2 DEF ReadyOf, AttemptStates
<1>4. ReadyOf([s EXCEPT ![i] = "failed"]) = {}
  BY <1>1, <1>2 DEF ReadyOf, AttemptStates
<1> QED BY <1>3, <1>4

\* The attempts of a worker's step: an open one is added, or the one it holds
\* is settled and, when it delivers, is the only one that is ready.
LEMMA WorkerKeepsOneDelivery ==
  ASSUME RInv, NEW w \in Workers, WorkerStep(w) \/ Crash(w)
  PROVE  OneDelivery'
<1> DEFINE j == target[w]
<1>0. OneDelivery /\ GeneratingIsShown /\ AttemptsAreOwned /\ rows' = rows
  BY WorkerFrame DEF RInv, IInv
<1>a. /\ packetStatus \in [Jobs -> PacketStatuses]
      /\ packets \in [Jobs -> Seq(AttemptStates)]
      /\ pc[w] \notin {"idle", "select"} => j \in Jobs
  BY StepTypes DEF RInv
<1>1. CASE UNCHANGED <<packetStatus, packets>>
  BY <1>0, <1>1 DEF OneDelivery
<1>2. CASE StartWrite(w)
  <2>1. packets' = packets
    BY <1>2 DEF StartWrite
  <2>2. \A k \in Jobs : packetStatus'[k] = "ready" <=> packetStatus[k] = "ready"
    BY <1>a, <1>2 DEF StartWrite, ValidPacketTransition, PACKET_TRANSITIONS
  <2> QED BY <1>0, <2>1, <2>2 DEF OneDelivery
<1>3. CASE CreatePacket(w)
  <2>1. packetStatus' = packetStatus
    BY <1>3 DEF CreatePacket
  <2>2. CASE packets' = packets
    BY <1>0, <2>1, <2>2 DEF OneDelivery
  <2>3. CASE packets' = [packets EXCEPT ![j] = Append(packets[j], "generating")]
    <3>1. j \in Jobs /\ packets[j] \in Seq(AttemptStates)
      BY <1>a, <1>3 DEF CreatePacket
    <3>2. ReadyOf(packets'[j]) = ReadyOf(packets[j])
      BY <1>a, <2>3, <3>1, ReadyOfAppend
    <3>3. \A k \in Jobs : k /= j => packets'[k] = packets[k]
      BY <1>a, <2>3
    <3> QED BY <1>0, <2>1, <3>2, <3>3 DEF OneDelivery
  <2> QED BY <1>3, <2>2, <2>3 DEF CreatePacket
<1>4. ASSUME CompleteWrite(w), ~UNCHANGED <<packetStatus, packets>>
      PROVE  OneDelivery'
  <2>1. /\ j \in rows /\ packetStatus[j] = "generating" /\ pc[w] = "complete"
        /\ packets' = [packets EXCEPT ![j][slot[w]] = "ready"]
        /\ packetStatus' = [packetStatus EXCEPT ![j] = "ready"]
    BY <1>4 DEF CompleteWrite, ValidPacketTransition, PACKET_TRANSITIONS
  <2>2. slot[w] \in DOMAIN packets[j] /\ ReadyOf(packets[j]) = {}
    BY <1>0, <1>a, <2>1 DEF AttemptsAreOwned, Holds, OneDelivery
  <2>3. ReadyOf(packets'[j]) = {slot[w]}
    <3>1. packets'[j] = [packets[j] EXCEPT ![slot[w]] = "ready"]
      BY <1>a, <2>1
    <3> QED BY <1>a, <2>1, <2>2, <3>1, ReadyOfSettled
  <2>4. \A k \in Jobs : k /= j => packets'[k] = packets[k]
                                  /\ packetStatus'[k] = packetStatus[k]
    BY <1>a, <2>1
  <2>5. packetStatus'[j] = "ready"
    BY <1>a, <2>1
  <2> QED BY <1>0, <2>3, <2>4, <2>5 DEF OneDelivery
<1>5. ASSUME FailPacket(w), ~UNCHANGED <<packetStatus, packets>>
      PROVE  OneDelivery'
  <2>1. /\ j \in rows /\ pc[w] = "fail"
        /\ packets' = [packets EXCEPT ![j][slot[w]] = "failed"]
        /\ packetStatus' = [packetStatus EXCEPT ![j] = "failed"]
    BY <1>5 DEF FailPacket
  <2>2. /\ packetStatus[j] = "generating" /\ ReadyOf(packets[j]) = {}
        /\ slot[w] \in DOMAIN packets[j]
    BY <1>0, <1>a, <2>1 DEF GeneratingIsShown, Generates, OneDelivery,
       AttemptsAreOwned, Holds
  <2>3. ReadyOf(packets'[j]) = {}
    <3>1. packets'[j] = [packets[j] EXCEPT ![slot[w]] = "failed"]
      BY <1>a, <2>1
    <3> QED BY <1>a, <2>1, <2>2, <3>1, ReadyOfSettled
  <2>4. \A k \in Jobs : k /= j => packets'[k] = packets[k]
                                  /\ packetStatus'[k] = packetStatus[k]
    BY <1>a, <2>1
  <2>5. packetStatus'[j] /= "ready"
    BY <1>a, <2>1
  <2> QED BY <1>0, <2>3, <2>4, <2>5 DEF OneDelivery
<1> QED
  BY <1>1, <1>2, <1>3, <1>4, <1>5 DEF WorkerStep, Crash, ClaimCount, ClaimSelect,
     ClaimWrite, StartRead, GenerationFails, CompleteRead

-----------------------------------------------------------------------------
\* Clients: with one of them, its guards are still true when it writes.

\* What each write of a client finds and does to the status of the jobs.
LEMMA RetryWrites ==
  ASSUME RInv, NEW c \in Clients, RetryPacketWrite(c), client[c].job \in rows
  PROVE  /\ packetStatus[client[c].job] = "failed"
         /\ taskStatus[client[c].job] = "failed"
         /\ lease[client[c].job] = "none"
<1>1. packetStatus[client[c].job] = "failed"
  BY DEF RInv, RequestsAreFresh, RetryPacketWrite
<1>2. taskStatus[client[c].job] = "failed"
  BY <1>1, StepTypes DEF RInv, Agreements
<1>3. lease[client[c].job] = "none"
  BY <1>2, StepTypes DEF RInv, LeasesAreAttended
<1> QED BY <1>1, <1>2, <1>3

LEMMA RecoverWrites ==
  ASSUME RInv, NEW c \in Clients, RecoverWrite(c),
         NEW j \in client[c].requeue \cup client[c].giveUp, j \in rows
  PROVE  /\ lease[j] = "expired"
         /\ packetStatus[j] \in {"queued", "generating"}
         /\ \A w \in Workers : target[w] /= j
<1>1. lease[j] = "expired"
  BY DEF RInv, RequestsAreFresh
<1>2. /\ taskStatus[j] \in {"claimed", "running"}
      /\ \A w \in Workers : target[w] /= j
  BY <1>1, StepTypes DEF RInv, LeasesAreAttended
<1>3. packetStatus[j] \in {"queued", "generating"}
  BY <1>2, StepTypes DEF RInv, Agreements
<1> QED BY <1>1, <1>2, <1>3

LEMMA ClientKeepsRest ==
  ASSUME RInv, NEW c \in Clients, ClientStep(c)
  PROVE  /\ GeneratingIsShown' /\ OneGenerator'
         /\ LeasesAreAttended' /\ RequestsAreFresh' /\ OneDelivery'
<1> USE DEF GeneratingIsShown, LeasesAreAttended, OneDelivery
<1>0. /\ GeneratingIsShown /\ OneGenerator /\ LeasesAreAttended
      /\ RequestsAreFresh /\ OneDelivery /\ OneAtATime
  BY DEF RInv
<1>a. /\ rows \subseteq Jobs
      /\ packetStatus \in [Jobs -> PacketStatuses]
      /\ taskStatus \in [Jobs -> TaskStatuses]
      /\ lease \in [Jobs -> LeaseStates]
      /\ client \in [Clients -> Requests]
      /\ \A j \in Jobs : <<taskStatus[j], packetStatus[j]>> \in Agreements
  BY StepTypes DEF RInv
<1>b. UNCHANGED <<rows, pc, target, slot, packets>>
  BY DEF ClientStep, ClientWrite, PromoteRead, PromoteWrite, RetryRead,
     RetryIntakeWrite, RetryPacketWrite, RecoverRead, RecoverWrite, jobVars,
     workerVars
<1>c. OneGenerator'
  BY <1>0, <1>b DEF OneGenerator, Generates
<1>1. CASE ClientWrite(c)
  <2>1. RequestsAreFresh'
    <3>1. client' = [client EXCEPT ![c] = NoRequest]
      BY <1>1 DEF ClientWrite, PromoteWrite, RetryIntakeWrite, RetryPacketWrite,
         RecoverWrite, Answer
    <3>2. \A d \in Clients : client'[d] = NoRequest
      BY <1>0, <1>a, <3>1 DEF OneAtATime
    <3> QED BY <3>2 DEF RequestsAreFresh, NoRequest
  <2>2. CASE PromoteWrite(c)
    <3>1. CASE UNCHANGED <<packetStatus, taskStatus, lease>>
      BY <1>0, <1>b, <1>c, <2>1, <3>1 DEF Generates
    <3>2. ASSUME ~UNCHANGED <<packetStatus, taskStatus, lease>>
          PROVE  /\ GeneratingIsShown' /\ LeasesAreAttended' /\ OneDelivery'
      <4> DEFINE j == client[c].job
      <4>1. /\ j \in rows /\ taskStatus[j] = "none"
            /\ packetStatus' = [packetStatus EXCEPT ![j] = "queued"]
            /\ taskStatus' = [taskStatus EXCEPT ![j] = "queued"]
            /\ lease' = [lease EXCEPT ![j] = "none"]
        BY <2>2, <3>2 DEF PromoteWrite, taskVars, HasTask
      <4>2. packetStatus[j] = "not_requested"
        BY <1>a, <4>1 DEF Agreements
      <4> QED BY <1>0, <1>a, <1>b, <1>c, <4>1, <4>2 DEF Generates
    <3> QED BY <1>c, <2>1, <3>1, <3>2
  <2>3. CASE RetryIntakeWrite(c)
    BY <1>0, <1>b, <1>c, <2>1, <2>3 DEF RetryIntakeWrite, taskVars, Generates
  <2>4. CASE RetryPacketWrite(c)
    <3> DEFINE j == client[c].job
    <3>1. CASE j \in rows
      <4>1. packetStatus[j] = "failed" /\ taskStatus[j] = "failed" /\ lease[j] = "none"
        BY <2>4, <3>1, RetryWrites
      <4>2. /\ packetStatus' = [packetStatus EXCEPT ![j] = "queued"]
            /\ taskStatus' = [taskStatus EXCEPT ![j] = "queued"]
            /\ lease' = lease
        BY <2>4, <3>1, <4>1 DEF RetryPacketWrite, HasTask
      <4> QED BY <1>0, <1>a, <1>b, <1>c, <2>1, <3>1, <4>1, <4>2 DEF Generates
    <3>2. CASE j \notin rows
      BY <1>0, <1>b, <1>c, <2>1, <2>4, <3>2 DEF RetryPacketWrite, Generates
    <3> QED BY <3>1, <3>2
  <2>5. CASE RecoverWrite(c)
    <3> DEFINE stale == client[c].requeue \cup client[c].giveUp
    <3>1. CASE stale \subseteq rows
      <4>1. \A j \in stale : /\ lease[j] = "expired"
                             /\ packetStatus[j] \in {"queued", "generating"}
                             /\ \A w \in Workers : target[w] /= j
        BY <2>5, <3>1, RecoverWrites
      <4>2. \A j \in Jobs :
              IF j \in stale
              THEN packetStatus'[j] \in {"queued", "failed"} /\ lease'[j] = "none"
              ELSE UNCHANGED <<packetStatus[j], taskStatus[j], lease[j]>>
        BY <2>5, <3>1 DEF RecoverWrite, Recovered
      <4>3. GeneratingIsShown'
        BY <1>0, <1>a, <1>b, <4>1, <4>2 DEF Generates
      <4>4. OneDelivery'
        <5>1. \A j \in Jobs : \/ packetStatus'[j] = packetStatus[j]
                              \/ packetStatus[j] /= "ready" /\ packetStatus'[j] /= "ready"
          BY <4>1, <4>2
        <5>2. packets' = packets
          BY <1>b
        <5> QED BY <1>0, <5>1, <5>2
      <4>5. LeasesAreAttended'
        BY <1>0, <1>b, <4>1, <4>2
      <4> QED BY <1>c, <2>1, <4>3, <4>4, <4>5
    <3>2. CASE ~(stale \subseteq rows)
      BY <1>0, <1>b, <1>c, <2>1, <2>5, <3>2 DEF RecoverWrite, Generates
    <3> QED BY <3>1, <3>2
  <2> QED BY <1>1, <2>2, <2>3, <2>4, <2>5 DEF ClientWrite
<1>2. CASE ~ClientWrite(c)
  <2>1. UNCHANGED <<packetStatus, taskStatus, lease>>
    BY <1>2 DEF ClientStep, PromoteRead, RetryRead, RecoverRead, taskVars
  <2>2. RequestsAreFresh'
    <3>1. ASSUME NEW j \in Jobs, PromoteRead(c, j)
          PROVE  RequestsAreFresh'
      BY <1>0, <1>a, <1>b, <2>1, <3>1 DEF PromoteRead, Ask, NoRequest, RequestsAreFresh
    <3>2. ASSUME NEW j \in Jobs, RetryRead(c, j)
          PROVE  RequestsAreFresh'
      <4>1. packetStatus[j] \in Retryable => packetStatus[j] = "failed"
        BY <1>a DEF Agreements, Retryable
      <4>2. PICK request \in {[NoRequest EXCEPT !.op = "retry_intake", !.job = j],
                               [NoRequest EXCEPT !.op = "retry_packet", !.job = j]} :
              /\ client' = [client EXCEPT ![c] = request]
              /\ request.op = "retry_packet" => packetStatus[j] = "failed"
        BY <3>2, <4>1 DEF RetryRead, Ask
      <4>3. /\ request.job = j
            /\ request.requeue \cup request.giveUp = {}
        BY <4>2 DEF NoRequest
      <4> QED BY <1>0, <1>a, <1>b, <2>1, <4>2, <4>3 DEF RequestsAreFresh
    <3>3. CASE RecoverRead(c)
      BY <1>0, <1>a, <1>b, <2>1, <3>3 DEF RecoverRead, Ask, NoRequest,
         RequestsAreFresh, Stale
    <3> QED BY <1>2, <3>1, <3>2, <3>3 DEF ClientStep
  <2> QED BY <1>0, <1>b, <1>c, <2>1, <2>2 DEF Generates
<1> QED BY <1>1, <1>2

-----------------------------------------------------------------------------
\* Jobs, and the invariant as a whole.

LEMMA JobStepKeepsRest ==
  ASSUME RInv, NEW j \in Jobs, JobStep(j)
  PROVE  /\ GeneratingIsShown' /\ OneGenerator'
         /\ LeasesAreAttended' /\ RequestsAreFresh' /\ OneDelivery'
<1>0. /\ GeneratingIsShown /\ OneGenerator /\ LeasesAreAttended
      /\ RequestsAreFresh /\ OneDelivery /\ OneAtATime
  BY DEF RInv
<1>a. /\ rows \subseteq Jobs
      /\ packetStatus \in [Jobs -> PacketStatuses]
      /\ taskStatus \in [Jobs -> TaskStatuses]
      /\ lease \in [Jobs -> LeaseStates]
      /\ packets \in [Jobs -> Seq(AttemptStates)]
  BY StepTypes DEF RInv
<1>b. UNCHANGED <<pc, target, slot, client>>
  BY DEF JobStep, SetPriority, Archive, Restore, Delete, IntakeEnds, Rescore,
     ExpireLease, workerVars
<1>c. OneGenerator'
  BY <1>0, <1>b DEF OneGenerator, Generates
<1>1. CASE Delete(j)
  <2>1. /\ rows' = rows \ {j}
        /\ packetStatus' = [packetStatus EXCEPT ![j] = "not_requested"]
        /\ taskStatus' = [taskStatus EXCEPT ![j] = "none"]
        /\ lease' = [lease EXCEPT ![j] = "none"]
        /\ packets' = [packets EXCEPT ![j] = <<>>]
    BY <1>1 DEF Delete
  <2>2. GeneratingIsShown' /\ LeasesAreAttended' /\ RequestsAreFresh'
    BY <1>0, <1>a, <1>b, <2>1 DEF GeneratingIsShown, LeasesAreAttended,
       RequestsAreFresh, Generates
  <2>3. OneDelivery'
    <3>1. packetStatus'[j] = "not_requested" /\ packets'[j] = <<>>
      BY <1>a, <2>1
    <3>2. \A k \in Jobs : k /= j => packets'[k] = packets[k]
                                    /\ packetStatus'[k] = packetStatus[k]
      BY <1>a, <2>1
    <3>3. ReadyOf(<<>>) = {}
      BY DEF ReadyOf
    <3> QED BY <1>0, <3>1, <3>2, <3>3 DEF OneDelivery
  <2> QED BY <1>c, <2>2, <2>3
<1>2. CASE ExpireLease(j)
  <2>1. /\ lease[j] = "live" /\ lease' = [lease EXCEPT ![j] = "expired"]
        /\ \A w \in Workers : target[w] /= j
        /\ UNCHANGED <<rows, packetStatus, taskStatus, packets>>
    BY <1>0, <1>2 DEF ExpireLease, OneAtATime, jobVars
  <2>2. GeneratingIsShown' /\ LeasesAreAttended' /\ RequestsAreFresh'
    BY <1>0, <1>a, <1>b, <2>1 DEF GeneratingIsShown, LeasesAreAttended,
       RequestsAreFresh, Generates
  <2>3. OneDelivery'
    BY <1>0, <2>1 DEF OneDelivery
  <2> QED BY <1>c, <2>2, <2>3
<1>3. CASE ~Delete(j) /\ ~ExpireLease(j)
  <2>1. UNCHANGED <<rows, packetStatus, taskStatus, lease, packets>>
    BY <1>3 DEF JobStep, SetPriority, Archive, Restore, IntakeEnds, Rescore,
       taskVars
  <2> QED BY <1>0, <1>b, <1>c, <2>1 DEF GeneratingIsShown, LeasesAreAttended,
       RequestsAreFresh, Generates, OneDelivery
<1> QED BY <1>1, <1>2, <1>3

LEMMA NextRInv == RInv /\ [Next]_vars => RInv'
<1> SUFFICES ASSUME RInv, [Next]_vars PROVE RInv'
  OBVIOUS
<1>1. IInv' /\ OneAtATime'
  BY NextIInv DEF RInv, OneAtATime
<1>2. ASSUME NEW w \in Workers, WorkerStep(w) \/ Crash(w)
      PROVE  RInv'
  BY <1>1, <1>2, WorkerKeepsGenerators, WorkerKeepsLeases, WorkerKeepsOneDelivery
  DEF RInv
<1>3. ASSUME NEW c \in Clients, ClientStep(c)
      PROVE  RInv'
  BY <1>1, <1>3, ClientKeepsRest DEF RInv
<1>4. ASSUME NEW j \in Jobs, JobStep(j)
      PROVE  RInv'
  BY <1>1, <1>4, JobStepKeepsRest DEF RInv
<1>5. CASE UNCHANGED vars
  BY <1>1, <1>5 DEF RInv, vars, jobVars, taskVars, workerVars, GeneratingIsShown,
     OneGenerator, Generates, LeasesAreAttended, RequestsAreFresh, OneDelivery
<1> QED BY <1>2, <1>3, <1>4, <1>5 DEF Next

LEMMA RInvariance == OneAtATime /\ Spec => []RInv
BY InitRInv, NextRInv, PTL DEF Spec

\* One job is never generated by two workers at once: the claim reads before it
\* writes and start_q2_task does not look at the task again, yet the second of
\* two starts finds the job 'generating' and is rolled back.
THEOREM OneGeneratorPerJob == OneAtATime /\ Spec => []OneGenerator
BY RInvariance, PTL DEF RInv

-----------------------------------------------------------------------------
\* The refinement: what each write is in the lifecycle.

\* The mapping of the packets, job by job.
LEMMA DeliveredCounts ==
  ASSUME OneDelivery, NEW j \in Jobs
  PROVE  Cardinality(Delivered(j)) = IF packetStatus[j] = "ready" THEN 1 ELSE 0
<1>1. Delivered(j) = ReadyOf(packets[j])
  BY DEF Delivered, ReadyOf
<1>2. CASE packetStatus[j] = "ready"
  <2>1. PICK i : ReadyOf(packets[j]) = {i}
    BY <1>2 DEF OneDelivery
  <2> QED BY <1>1, <1>2, <2>1, FS_Singleton
<1>3. CASE packetStatus[j] /= "ready"
  BY <1>1, <1>3, FS_EmptySet DEF OneDelivery
<1> QED BY <1>2, <1>3

\* What the lifecycle sees of the packets follows from the status alone.
Counts == [j \in Jobs |-> IF packetStatus[j] = "ready" THEN 1 ELSE 0]

LEMMA MappingIsCounts ==
  ASSUME RInv
  PROVE  [j \in Jobs |-> Cardinality(Delivered(j))] = Counts
BY DeliveredCounts DEF RInv, Counts

LEMMA MappingIsCountsNext ==
  ASSUME RInv, [Next]_vars
  PROVE  [j \in Jobs |-> Cardinality(Delivered(j))]' = Counts'
<1>1. OneDelivery'
  BY NextRInv DEF RInv
<1>2. ASSUME NEW j \in Jobs
      PROVE  Cardinality(Delivered(j)') = IF packetStatus'[j] = "ready" THEN 1 ELSE 0
  <2>1. Delivered(j)' = ReadyOf(packets'[j])
    BY DEF Delivered, ReadyOf
  <2>2. CASE packetStatus'[j] = "ready"
    <3>1. PICK i : ReadyOf(packets'[j]) = {i}
      BY <1>1, <2>2 DEF OneDelivery
    <3> QED BY <2>1, <2>2, <3>1, FS_Singleton
  <2>3. CASE packetStatus'[j] /= "ready"
    BY <1>1, <2>1, <2>3, FS_EmptySet DEF OneDelivery
  <2> QED BY <2>2, <2>3
<1> QED BY <1>2 DEF Counts

\* The moves of one job: requested, begun, delivered, failed and retried.
Moves == {<<"not_requested", "queued">>, <<"queued", "generating">>,
          <<"generating", "ready">>, <<"generating", "failed">>,
          <<"failed", "queued">>}

Moved(j) == /\ <<packetStatus[j], packetStatus'[j]>> \in Moves
            /\ packetStatus' = [packetStatus EXCEPT ![j] = packetStatus'[j]]

Interrupted == {j \in Jobs : packetStatus[j] \in {"queued", "generating"}}

Settled(stale) ==
  \E outcome \in [stale -> {"queued", "failed"}] :
    packetStatus' = [j \in Jobs |-> IF j \in stale THEN outcome[j] ELSE packetStatus[j]]

LEMMA StatusMoves ==
  ASSUME RInv, [Next]_vars
  PROVE  \/ packetStatus' = packetStatus
         \/ \E j \in Jobs : Moved(j)
         \/ \E j \in Jobs : packetStatus' = [packetStatus EXCEPT ![j] = "not_requested"]
         \/ \E stale \in SUBSET Interrupted : Settled(stale)
<1>0. /\ rows \subseteq Jobs
      /\ packetStatus \in [Jobs -> PacketStatuses]
      /\ \A j \in Jobs : <<taskStatus[j], packetStatus[j]>> \in Agreements
      /\ GeneratingIsShown
  BY StepTypes DEF RInv
<1>1. ASSUME NEW w \in Workers, WorkerStep(w) \/ Crash(w), packetStatus' /= packetStatus
      PROVE  Moved(target[w])
  <2>1. CASE StartWrite(w)
    BY <1>0, <1>1, <2>1 DEF StartWrite, ValidPacketTransition, PACKET_TRANSITIONS,
       Moved, Moves
  <2>2. CASE CompleteWrite(w)
    BY <1>0, <1>1, <2>2 DEF CompleteWrite, ValidPacketTransition,
       PACKET_TRANSITIONS, Moved, Moves
  <2>3. CASE FailPacket(w)
    BY <1>0, <1>1, <2>3 DEF FailPacket, GeneratingIsShown, Generates, Moved, Moves
  <2> QED BY <1>1, <2>1, <2>2, <2>3 DEF WorkerStep, Crash, ClaimCount, ClaimSelect,
             ClaimWrite, StartRead, CreatePacket, GenerationFails, CompleteRead
<1>2. ASSUME NEW w \in Workers, WorkerStep(w) \/ Crash(w), packetStatus' /= packetStatus
      PROVE  target[w] \in Jobs
  BY <1>0, <1>2 DEF WorkerStep, Crash, ClaimCount, ClaimSelect, ClaimWrite,
     StartRead, StartWrite, CreatePacket, GenerationFails, CompleteRead,
     CompleteWrite, FailPacket
<1>3. ASSUME NEW c \in Clients, PromoteWrite(c), packetStatus' /= packetStatus
      PROVE  client[c].job \in Jobs /\ Moved(client[c].job)
  BY <1>0, <1>3 DEF PromoteWrite, HasTask, Agreements, Moved, Moves
<1>4. ASSUME NEW c \in Clients, RetryPacketWrite(c), packetStatus' /= packetStatus
      PROVE  client[c].job \in Jobs /\ Moved(client[c].job)
  <2>1. /\ client[c].job \in rows
        /\ packetStatus' = [packetStatus EXCEPT ![client[c].job] = "queued"]
    BY <1>4 DEF RetryPacketWrite
  <2> QED BY <1>0, <1>4, <2>1, RetryWrites DEF Moved, Moves
<1>5. ASSUME NEW c \in Clients, RecoverWrite(c), packetStatus' /= packetStatus
      PROVE  \E stale \in SUBSET Interrupted : Settled(stale)
  <2> DEFINE stale == client[c].requeue \cup client[c].giveUp
  <2> DEFINE outcome == [j \in stale |-> IF j \in client[c].requeue THEN "queued"
                                                                    ELSE "failed"]
  <2>1. stale \subseteq rows /\ packetStatus' = Recovered(packetStatus, c)
    BY <1>5 DEF RecoverWrite
  <2>2. stale \in SUBSET Interrupted
    BY <1>0, <1>5, <2>1, RecoverWrites DEF Interrupted
  <2>3. outcome \in [stale -> {"queued", "failed"}]
    OBVIOUS
  <2>4. packetStatus' = [j \in Jobs |-> IF j \in stale THEN outcome[j]
                                                       ELSE packetStatus[j]]
    BY <2>1 DEF Recovered
  <2> QED BY <2>2, <2>3, <2>4 DEF Settled
<1>6. ASSUME NEW c \in Clients, ClientStep(c), packetStatus' /= packetStatus
      PROVE  PromoteWrite(c) \/ RetryPacketWrite(c) \/ RecoverWrite(c)
  BY <1>6 DEF ClientStep, ClientWrite, PromoteRead, RetryRead, RecoverRead,
     RetryIntakeWrite
<1>7. ASSUME NEW j \in Jobs, JobStep(j), packetStatus' /= packetStatus
      PROVE  packetStatus' = [packetStatus EXCEPT ![j] = "not_requested"]
  BY <1>7 DEF JobStep, SetPriority, Archive, Restore, Delete, IntakeEnds, Rescore,
     ExpireLease
<1>8. CASE UNCHANGED vars
  BY <1>8 DEF vars
<1> QED BY <1>1, <1>2, <1>3, <1>4, <1>5, <1>6, <1>7, <1>8 DEF Next

\* Each of these is a step of the lifecycle or none.
LEMMA StepImplements ==
  ASSUME RInv, [Next]_vars
  PROVE  [Lifecycle!Next]_(Lifecycle!vars)
<1> DEFINE M == [j \in Jobs |-> Cardinality(Delivered(j))]
<1>0. /\ M = Counts /\ M' = Counts'
      /\ packetStatus \in [Jobs -> PacketStatuses]
  BY MappingIsCounts, MappingIsCountsNext, StepTypes DEF RInv
<1> HIDE DEF M
<1>1. CASE packetStatus' = packetStatus
  <2>1. M' = M
    BY <1>0, <1>1 DEF Counts
  <2> QED BY <1>1, <2>1 DEF Lifecycle!vars, M
<1>2. ASSUME NEW j \in Jobs, Moved(j)
      PROVE  Lifecycle!Next
  <2>1. CASE packetStatus'[j] = "ready"
    <3>1. packetStatus[j] = "generating"
      BY <1>2, <2>1 DEF Moved, Moves
    <3>2. M' = [M EXCEPT ![j] = 1]
      BY <1>0, <1>2, <2>1 DEF Moved, Counts
    <3>3. Lifecycle!Deliver(j)
      BY <1>2, <2>1, <3>1, <3>2 DEF Lifecycle!Deliver, Lifecycle!Move, Moved, M
    <3> QED BY <3>3 DEF Lifecycle!Next
  <2>2. CASE packetStatus'[j] /= "ready"
    <3>1. packetStatus[j] /= "ready"
      BY <1>2 DEF Moved, Moves
    <3>2. M' = M
      BY <1>0, <1>2, <2>2, <3>1 DEF Moved, Counts
    <3>3. Lifecycle!Request(j) \/ Lifecycle!Begin(j) \/ Lifecycle!Fail(j)
          \/ Lifecycle!Retry(j)
      BY <1>2, <2>2, <3>2 DEF Lifecycle!Request, Lifecycle!Begin, Lifecycle!Fail,
         Lifecycle!Retry, Lifecycle!Move, Moved, Moves, M
    <3> QED BY <3>3 DEF Lifecycle!Next
  <2> QED BY <2>1, <2>2
<1>3. ASSUME NEW j \in Jobs, packetStatus' = [packetStatus EXCEPT ![j] = "not_requested"]
      PROVE  Lifecycle!Next
  <2>1. M' = [M EXCEPT ![j] = 0]
    BY <1>0, <1>3 DEF Counts
  <2>2. Lifecycle!Remove(j)
    BY <1>3, <2>1 DEF Lifecycle!Remove, M
  <2> QED BY <2>2 DEF Lifecycle!Next
<1>4. ASSUME NEW stale \in SUBSET Interrupted, Settled(stale)
      PROVE  Lifecycle!Next
  <2>1. M' = M
    BY <1>0, <1>4 DEF Counts, Settled, Interrupted
  <2>2. Lifecycle!Recover
    BY <1>4, <2>1 DEF Lifecycle!Recover, Settled, Interrupted, M
  <2> QED BY <2>2 DEF Lifecycle!Next
<1> QED BY <1>1, <1>2, <1>3, <1>4, StatusMoves

LEMMA InitImplements == OneAtATime /\ Init => Lifecycle!Init
<1> SUFFICES ASSUME OneAtATime, Init PROVE Lifecycle!Init
  OBVIOUS
<1>1. [j \in Jobs |-> Cardinality(Delivered(j))] = Counts
  BY InitRInv, MappingIsCounts
<1>2. Counts = [j \in Jobs |-> 0] /\ packetStatus = [j \in Jobs |-> "not_requested"]
  BY DEF Init, Counts
<1> QED BY <1>1, <1>2 DEF Lifecycle!Init

\* With leases that outlive the work and one request at a time, Queue 2 keeps
\* the promise of PacketLifecycle: each job's packet is requested, generated and
\* delivered at most once, and stays until the job is removed.
THEOREM Refinement == OneAtATime /\ Spec => ImplementsLifecycle
<1>1. RInv /\ [Next]_vars => [Lifecycle!Next]_(Lifecycle!vars)
  BY StepImplements
<1> QED BY <1>1, InitImplements, RInvariance, PTL
        DEF Spec, ImplementsLifecycle, Lifecycle!Spec

=============================================================================
