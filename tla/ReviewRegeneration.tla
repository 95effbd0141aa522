------------------------- MODULE ReviewRegeneration -------------------------
(***************************************************************************)
(* The review_items, review_resolutions, review_regeneration_jobs and      *)
(* packets of one job: the users that open and resolve reviews, Queue 1    *)
(* and Queue 2, which open them too, and the workers that regenerate       *)
(* packets.  Rows of different jobs meet only in the order of the queue    *)
(* and in the recovery, where the resolutions of one job meet as well.     *)
(*                                                                         *)
(* As in PacketQueue, what a Repository method reads before its first      *)
(* write is a step of its own and may be stale in the step that writes,    *)
(* unless only the existence of the job is read: its row is what every     *)
(* other row hangs on by ON DELETE CASCADE, and the write looks again.     *)
(***************************************************************************)
EXTENDS Integers, Sequences, FiniteSets

CONSTANTS
  Workers,           \* loops and requests that run ReviewRegenerationWorker
  Clients,           \* API threads
  MaxAttempts,       \* REGENERATION_MAX_ATTEMPTS
  MaxReviews,        \* bound of the model: no review is opened past it
  MaxResolutions,    \* bound of the model: no user resolves past it
  MaxPackets,        \* bound of the model: Queue 2 starts no packet past it
  LeaseOutlivesWork  \* TRUE: no lease runs out under a worker still at it

ASSUME BoundAssumption ==
  /\ MaxAttempts \in Nat \ {0}
  /\ MaxReviews \in Nat /\ MaxResolutions \in Nat /\ MaxPackets \in Nat
  /\ LeaseOutlivesWork \in BOOLEAN

VARIABLES
  exists,       \* the job has its row
  packets,      \* its packets, oldest first: status, and the resolution that
                \* the idempotency key stands for; 0: a packet of Queue 2
  tailored,     \* the packet of its latest tailoring decision; 0: none
  reviews,      \* its review_items, oldest first
  resolutions,  \* its review_resolutions, oldest first
  jobs,         \* review_regeneration_jobs: jobs[i] is that of resolution i;
                \* no row while it is not_required
  worker,       \* where a worker is, and what it has read
  client        \* a review that a client found missing and is about to open

queue2Vars == <<packets, tailored>>
reviewVars == <<reviews, resolutions, jobs>>
vars == <<exists, queue2Vars, reviewVars, worker, client>>

Types == {"classification", "tailoring"}
PacketStates == {"generating", "ready", "failed"}
ReviewStates == {"pending", "approved", "overridden", "rejected", "deferred",
                 "regeneration_failed"}
JobStates == {"not_required", "queued", "processing", "complete", "failed"}
Steps == {"idle", "recover", "select", "claim", "inspect", "create", "insert",
          "render", "deliver", "finish", "fail", "failing"}

\* What an action of a review comes to: the review's status and whether a
\* packet is to be regenerated.
Outcomes == {<<"approved", "not_required">>, <<"deferred", "not_required">>,
             <<"rejected", "not_required">>, <<"rejected", "queued">>,
             <<"overridden", "not_required">>, <<"overridden", "queued">>}

Rest   == [at |-> "idle", job |-> 0, packet |-> 0, retry |-> FALSE,
           requeue |-> {}, giveUp |-> {}]
Silent == [opens |-> "none", packet |-> 0]

Init ==
  /\ exists = TRUE
  /\ packets = <<>>
  /\ tailored = 0
  /\ reviews = <<>>
  /\ resolutions = <<>>
  /\ jobs = <<>>
  /\ worker = [w \in Workers |-> Rest]
  /\ client = [c \in Clients |-> Silent]

-----------------------------------------------------------------------------
\* Queue 1, Queue 2 and the reviews they open.

Pending(type) ==
  \E i \in DOMAIN reviews : reviews[i].type = type /\ reviews[i].status = "pending"

OpenReview(type, packet) ==
  reviews' = Append(reviews, [type |-> type, status |-> "pending", packet |-> packet])

\* _ensure_pending_review after a first write: its SELECT is in the transaction.
EnsurePending(type, packet) ==
  IF Pending(type) THEN UNCHANGED reviews
  ELSE Len(reviews) < MaxReviews /\ OpenReview(type, packet)

\* save_scoring_result of a classification that needs review.
ScoreIsSaved ==
  /\ exists
  /\ EnsurePending("classification", 0)
  /\ UNCHANGED <<exists, queue2Vars, resolutions, jobs, worker, client>>

\* create_packet_attempt.
PacketStarts ==
  /\ exists
  /\ Cardinality({p \in DOMAIN packets : packets[p].key = 0}) < MaxPackets
  /\ packets' = Append(packets, [status |-> "generating", key |-> 0])
  /\ UNCHANGED <<exists, tailored, reviewVars, worker, client>>

InGeneration(p) == packets[p].key = 0 /\ packets[p].status = "generating"

\* save_tailoring_decision, by Queue 2 for the packet it generates or by
\* reanalyze_projects for the newest packet.
DecisionIsSaved(p) ==
  /\ exists
  /\ InGeneration(p) \/ p = Len(packets)
  /\ tailored' = p
  /\ EnsurePending("tailoring", p) \/ UNCHANGED reviews
  /\ UNCHANGED <<exists, packets, resolutions, jobs, worker, client>>

\* complete_packet_attempt and fail_packet_attempt.
PacketEnds(p, status) ==
  /\ exists
  /\ InGeneration(p)
  /\ packets' = [packets EXCEPT ![p].status = status]
  /\ UNCHANGED <<exists, tailored, reviewVars, worker, client>>

\* Mutant: the review tables do not cascade.
DeletePacketsOnly ==
  /\ exists
  /\ exists' = FALSE
  /\ packets' = <<>>
  /\ tailored' = 0
  /\ UNCHANGED <<reviewVars, worker, client>>

\* delete_or_archive_job and clear_demo_jobs: everything cascades.
Delete ==
  /\ exists
  /\ exists' = FALSE
  /\ packets' = <<>>
  /\ tailored' = 0
  /\ reviews' = <<>> /\ resolutions' = <<>> /\ jobs' = <<>>
  /\ UNCHANGED <<worker, client>>

-----------------------------------------------------------------------------
\* The users.

\* create_manual_review, up to the SELECT of _ensure_pending_review.
CreateRead(c, type) ==
  /\ client[c] = Silent /\ exists
  /\ ~Pending(type) /\ Len(reviews) < MaxReviews
  /\ client' = [client EXCEPT ![c] =
                  [opens |-> type,
                   packet |-> IF type = "tailoring" THEN tailored ELSE 0]]
  /\ UNCHANGED <<exists, queue2Vars, reviewVars, worker>>

\* create_manual_review, the INSERT; without the job its foreign key fails.
CreateWrite(c) ==
  /\ client[c] /= Silent
  /\ client' = [client EXCEPT ![c] = Silent]
  /\ IF exists THEN OpenReview(client[c].opens, client[c].packet)
               ELSE UNCHANGED reviews
  /\ UNCHANGED <<exists, queue2Vars, resolutions, jobs, worker>>

Ready == {p \in DOMAIN packets : packets[p].status = "ready"}

\* get_latest_ready_packet_for_job: a ready packet stays ready, so which one
\* it is does not matter here.
LatestReady == IF Ready = {} THEN 0 ELSE CHOOSE p \in Ready : \A q \in Ready : q <= p

\* resolve_review.  It asks neither whether the review is still pending nor
\* whether an earlier resolution of it is being regenerated.
Resolve(i, outcome) ==
  LET source == IF reviews[i].packet /= 0 THEN reviews[i].packet ELSE LatestReady IN
  /\ exists
  /\ Len(resolutions) < MaxResolutions
  /\ resolutions' = Append(resolutions,
                      [review |-> i, status |-> outcome[2], packet |-> 0])
  /\ jobs' = Append(jobs, [status |-> outcome[2], attempts |-> 0,
                           lease |-> "none", source |-> source])
  /\ reviews' = [reviews EXCEPT ![i].status = outcome[1]]
  /\ UNCHANGED <<exists, queue2Vars, worker, client>>

-----------------------------------------------------------------------------
\* The worker: WorkerRunner._process_one recovers, then process_next.

At(w, step)   == worker[w].at = step
JobOf(w)      == worker[w].job
Become(w, state) == worker' = [worker EXCEPT ![w] = state]
Goto(w, step) == worker' = [worker EXCEPT ![w].at = step]

\* process_next returns, or an exception leaves it.
Drop(w) == Become(w, Rest)

\* A regeneration job and the regeneration_status of its resolution are written
\* by two statements of one transaction.
Settle(rows, status) ==
  /\ jobs' = [i \in DOMAIN jobs |->
                IF i \in rows THEN [jobs[i] EXCEPT !.status = status[i], !.lease = "none"]
                ELSE jobs[i]]
  /\ resolutions' = [i \in DOMAIN resolutions |->
                IF i \in rows THEN [resolutions[i] EXCEPT !.status = status[i]]
                ELSE resolutions[i]]

\* Mutant: whatever holds no live lease is stale.
StaleUnleased == {i \in DOMAIN jobs : jobs[i].status \notin {"queued", "not_required"}
                                        /\ jobs[i].lease /= "live"}

\* recover_stale_regeneration_jobs, its SELECT.
Stale == {i \in DOMAIN jobs : jobs[i].status = "processing" /\ jobs[i].lease = "expired"}

RecoverRead(w) ==
  LET requeue == {i \in Stale : jobs[i].attempts < MaxAttempts} IN
  /\ At(w, "idle")
  /\ IF Stale = {} THEN Goto(w, "select")
     ELSE Become(w, [Rest EXCEPT !.at = "recover", !.requeue = requeue,
                                 !.giveUp = Stale \ requeue])
  /\ UNCHANGED <<exists, queue2Vars, reviewVars, client>>

\* Mutant: the resolution of a job that is given up is not updated.
RecoverWriteJobOnly(w) ==
  LET rows == worker[w].requeue \cup worker[w].giveUp IN
  /\ At(w, "recover")
  /\ jobs' = [i \in DOMAIN jobs |->
                IF i \in rows
                THEN [jobs[i] EXCEPT !.lease = "none", !.status =
                        IF i \in worker[w].requeue THEN "queued" ELSE "failed"]
                ELSE jobs[i]]
  /\ resolutions' = [i \in DOMAIN resolutions |->
                IF i \in worker[w].requeue
                THEN [resolutions[i] EXCEPT !.status = "queued"] ELSE resolutions[i]]
  /\ Become(w, [Rest EXCEPT !.at = "select"])
  /\ UNCHANGED <<exists, queue2Vars, reviews, client>>

\* The transaction, on the rows read before it.  The review is left alone.
RecoverWrite(w) ==
  LET requeue == worker[w].requeue
      rows    == requeue \cup worker[w].giveUp
  IN
  /\ At(w, "recover")
  /\ IF exists
     THEN /\ Settle(rows, [i \in rows |-> IF i \in requeue THEN "queued" ELSE "failed"])
          /\ Become(w, [Rest EXCEPT !.at = "select"])
     ELSE Drop(w) /\ UNCHANGED <<resolutions, jobs>>
  /\ UNCHANGED <<exists, queue2Vars, reviews, client>>

\* claim_next_regeneration_job, its SELECT.
Claimable == {i \in DOMAIN jobs : jobs[i].status = "queued" /\ jobs[i].attempts < MaxAttempts}

ClaimSelect(w) ==
  /\ At(w, "select")
  /\ IF Claimable = {} THEN Drop(w)
     ELSE \E i \in Claimable :
            /\ \A k \in Claimable : i <= k
            /\ Become(w, [Rest EXCEPT !.at = "claim", !.job = i])
  /\ UNCHANGED <<exists, queue2Vars, reviewVars, client>>

\* Mutant: the claim takes no lease.
ClaimWriteUnleased(w) ==
  LET i == JobOf(w) IN
  /\ At(w, "claim")
  /\ IF exists /\ jobs[i].status = "queued"
     THEN /\ jobs' = [jobs EXCEPT ![i].status = "processing",
                                  ![i].attempts = jobs[i].attempts + 1]
          /\ resolutions' = [resolutions EXCEPT ![i].status = "processing"]
          /\ Goto(w, "inspect")
     ELSE Drop(w) /\ UNCHANGED <<jobs, resolutions>>
  /\ UNCHANGED <<exists, queue2Vars, reviews, client>>

\* claim_next_regeneration_job, the transaction.  The UPDATE is conditional on
\* 'queued', but whoever finds the row 'processing' afterwards goes on with it.
ClaimWrite(w) ==
  LET i == JobOf(w) IN
  /\ At(w, "claim")
  /\ \/ /\ exists /\ jobs[i].status = "queued"
        /\ jobs' = [jobs EXCEPT ![i].status = "processing", ![i].lease = "live",
                                ![i].attempts = jobs[i].attempts + 1]
        /\ resolutions' = [resolutions EXCEPT ![i].status = "processing"]
        /\ Goto(w, "inspect")
     \/ /\ exists /\ jobs[i].status = "processing"
        /\ Goto(w, "inspect")
        /\ UNCHANGED <<jobs, resolutions>>
     \/ /\ exists => jobs[i].status \notin {"queued", "processing"}
        /\ Drop(w)
        /\ UNCHANGED <<jobs, resolutions>>
  /\ UNCHANGED <<exists, queue2Vars, reviews, client>>

ReadyWith(key) == {p \in Ready : packets[p].key = key}

SourceIsReady(i) ==
  IF jobs[i].source /= 0 THEN jobs[i].source \in Ready ELSE Ready /= {}

Refuse(w, retryable) ==
  worker' = [worker EXCEPT ![w].at = "fail", ![w].retry = retryable]

\* _process up to create_review_packet_attempt: a resolution that is complete or
\* an equivalent ready packet is reused, any validation may refuse, the disk may
\* (OSError: retryable), and a source packet that is not ready does.
Inspect(w) ==
  LET i == JobOf(w) IN
  /\ At(w, "inspect")
  /\ \/ ~exists /\ Drop(w)
     \/ /\ exists
        /\ resolutions[i].status = "complete" /\ resolutions[i].packet /= 0
        /\ worker' = [worker EXCEPT ![w].at = "finish", ![w].packet = resolutions[i].packet]
     \/ /\ exists
        /\ resolutions[i].status /= "complete"
        /\ \E p \in ReadyWith(i) :
             worker' = [worker EXCEPT ![w].at = "finish", ![w].packet = p]
     \/ /\ exists
        /\ resolutions[i].status /= "complete" /\ ReadyWith(i) = {}
        /\ \/ \E retryable \in BOOLEAN : Refuse(w, retryable)
           \/ SourceIsReady(i) /\ Goto(w, "create")
  /\ UNCHANGED <<exists, queue2Vars, reviewVars, client>>

\* create_review_packet_attempt, its SELECT.
CreatePacketRead(w) ==
  /\ At(w, "create")
  /\ IF ReadyWith(JobOf(w)) = {} THEN Goto(w, "insert")
     ELSE \E p \in ReadyWith(JobOf(w)) :
            worker' = [worker EXCEPT ![w].at = "finish", ![w].packet = p]
  /\ UNCHANGED <<exists, queue2Vars, reviewVars, client>>

\* Mutant: the attempt is written over the source packet.
CreatePacketInPlace(w) ==
  LET i == JobOf(w) IN
  /\ At(w, "insert")
  /\ IF exists
     THEN /\ packets' = [packets EXCEPT ![LatestReady] =
                           [status |-> "generating", key |-> i]]
          /\ worker' = [worker EXCEPT ![w].at = "render", ![w].packet = LatestReady]
     ELSE Drop(w) /\ UNCHANGED packets
  /\ UNCHANGED <<exists, tailored, reviewVars, client>>

\* create_review_packet_attempt, the INSERT.
CreatePacketWrite(w) ==
  /\ At(w, "insert")
  /\ IF exists
     THEN /\ packets' = Append(packets, [status |-> "generating", key |-> JobOf(w)])
          /\ worker' = [worker EXCEPT ![w].at = "render", ![w].packet = Len(packets) + 1]
     ELSE Drop(w) /\ UNCHANGED packets
  /\ UNCHANGED <<exists, tailored, reviewVars, client>>

\* Mutant: a rendered packet is taken as delivered.
RenderSkipsDelivery(w) ==
  /\ At(w, "render")
  /\ Goto(w, "finish") \/ \E retryable \in BOOLEAN : Refuse(w, retryable)
  /\ UNCHANGED <<exists, queue2Vars, reviewVars, client>>

\* The artifacts are built, or a check refuses them, or the disk does (OSError:
\* retryable).  The attempt's packet stays 'generating' if they are not.
Render(w) ==
  /\ At(w, "render")
  /\ Goto(w, "deliver") \/ \E retryable \in BOOLEAN : Refuse(w, retryable)
  /\ UNCHANGED <<exists, queue2Vars, reviewVars, client>>

\* Mutant: the idempotency index is missing.
DeliverUnindexed(w) ==
  /\ At(w, "deliver")
  /\ IF exists
     THEN /\ packets' = [packets EXCEPT ![worker[w].packet].status = "ready"]
          /\ Goto(w, "finish")
     ELSE Drop(w) /\ UNCHANGED packets
  /\ UNCHANGED <<exists, tailored, reviewVars, client>>

\* complete_review_packet_attempt: idx_packets_regen_idempotency rejects a second
\* ready packet of the same key, and nothing catches the IntegrityError.
Deliver(w) ==
  /\ At(w, "deliver")
  /\ IF exists /\ ReadyWith(JobOf(w)) = {}
     THEN /\ packets' = [packets EXCEPT ![worker[w].packet].status = "ready"]
          /\ Goto(w, "finish")
     ELSE Drop(w) /\ UNCHANGED packets
  /\ UNCHANGED <<exists, tailored, reviewVars, client>>

\* complete_regeneration_job: whatever the job's status is by now, and whatever
\* the review has been resolved to since.
Finish(w) ==
  LET i == JobOf(w) IN
  /\ At(w, "finish")
  /\ IF exists
     THEN /\ jobs' = [jobs EXCEPT ![i].status = "complete", ![i].lease = "none"]
          /\ resolutions' = [resolutions EXCEPT ![i].status = "complete",
                                                ![i].packet = worker[w].packet]
          /\ reviews' = [reviews EXCEPT ![resolutions[i].review].status = "approved"]
     ELSE UNCHANGED reviewVars
  /\ Drop(w)
  /\ UNCHANGED <<exists, queue2Vars, client>>

\* fail_regeneration_job, its SELECT: a retry is decided on the attempts it reads.
FailRead(w) ==
  /\ At(w, "fail")
  /\ IF exists
     THEN worker' = [worker EXCEPT ![w].at = "failing", ![w].retry =
                       worker[w].retry /\ jobs[JobOf(w)].attempts < MaxAttempts]
     ELSE Drop(w)
  /\ UNCHANGED <<exists, queue2Vars, reviewVars, client>>

\* fail_regeneration_job, the transaction: whatever the job's status is by now.
FailWrite(w) ==
  LET i      == JobOf(w)
      status == IF worker[w].retry THEN "queued" ELSE "failed"
  IN
  /\ At(w, "failing")
  /\ IF exists
     THEN /\ Settle({i}, [k \in {i} |-> status])
          /\ reviews' = IF status = "queued" THEN reviews ELSE
               [reviews EXCEPT ![resolutions[i].review].status = "regeneration_failed"]
     ELSE UNCHANGED reviewVars
  /\ Drop(w)
  /\ UNCHANGED <<exists, queue2Vars, client>>

\* The worker's process dies, or an exception that process_next does not catch
\* ends it.  Before the claim that is one more poll that did nothing.
Crash(w) ==
  /\ worker[w].at \notin {"idle", "recover", "select", "claim"}
  /\ Drop(w)
  /\ UNCHANGED <<exists, queue2Vars, reviewVars, client>>

\* stale_processing_seconds pass.
ExpireLease(i) ==
  /\ jobs[i].lease = "live"
  /\ LeaseOutlivesWork => \A w \in Workers : JobOf(w) /= i
  /\ jobs' = [jobs EXCEPT ![i].lease = "expired"]
  /\ UNCHANGED <<exists, queue2Vars, reviews, resolutions, worker, client>>

-----------------------------------------------------------------------------
WorkerStep(w) ==
  \/ RecoverRead(w) \/ RecoverWrite(w)
  \/ ClaimSelect(w) \/ ClaimWrite(w)
  \/ Inspect(w) \/ CreatePacketRead(w) \/ CreatePacketWrite(w)
  \/ Render(w) \/ Deliver(w) \/ Finish(w)
  \/ FailRead(w) \/ FailWrite(w)

ClientStep(c) ==
  \/ \E type \in Types : CreateRead(c, type)
  \/ CreateWrite(c)

Queue2Step ==
  \/ PacketStarts
  \/ \E p \in DOMAIN packets :
       DecisionIsSaved(p) \/ \E status \in {"ready", "failed"} : PacketEnds(p, status)

Next ==
  \/ \E w \in Workers : WorkerStep(w) \/ Crash(w)
  \/ \E c \in Clients : ClientStep(c)
  \/ \E i \in DOMAIN reviews : \E outcome \in Outcomes : Resolve(i, outcome)
  \/ \E i \in DOMAIN jobs : ExpireLease(i)
  \/ Queue2Step \/ ScoreIsSaved \/ Delete

Spec == Init /\ [][Next]_vars

\* A worker polls its queue, a request once begun ends, the clock reaches leases.
Fairness ==
  /\ \A w \in Workers : WF_vars(WorkerStep(w))
  /\ \A c \in Clients : WF_vars(CreateWrite(c))
  /\ WF_vars(\E i \in DOMAIN jobs : ExpireLease(i))

FairSpec == Spec /\ Fairness

-----------------------------------------------------------------------------
\* Properties.

\* Every row has its type and refers to rows that exist, without the job there
\* are none, and a worker at a packet works for a regeneration job.
TypeOK ==
  /\ exists \in BOOLEAN
  /\ packets \in Seq([status : PacketStates, key : 0..Len(resolutions)])
  /\ tailored \in 0..Len(packets)
  /\ reviews \in Seq([type : Types, status : ReviewStates, packet : 0..Len(packets)])
  /\ resolutions \in Seq([review : DOMAIN reviews, status : JobStates,
                          packet : 0..Len(packets)])
  /\ jobs \in Seq([status : JobStates, attempts : Nat,
                   lease : {"none", "live", "expired"}, source : 0..Len(packets)])
  /\ Len(jobs) = Len(resolutions)
  /\ worker \in [Workers -> [at : Steps, job : Nat, packet : Nat, retry : BOOLEAN,
                             requeue : SUBSET Nat, giveUp : SUBSET Nat]]
  /\ client \in [Clients -> [opens : Types \cup {"none"}, packet : Nat]]
  /\ exists =>
       /\ \A w \in Workers : JobOf(w) \in 0..Len(jobs) /\ worker[w].packet \in 0..Len(packets)
       /\ \A w \in Workers : worker[w].requeue \cup worker[w].giveUp \subseteq DOMAIN jobs
  /\ ~exists => packets = <<>> /\ reviews = <<>> /\ resolutions = <<>>

\* A resolution shows the status of its regeneration job, in whatever order two
\* workers claim, fail, complete and recover it on stale reads.
StatusesAgree ==
  \A i \in DOMAIN jobs : jobs[i].status = resolutions[i].status

\* A resolution has one reviewed packet at most, even when two workers regenerate
\* it at once or one does it again after a crash.
OneReviewedPacket ==
  \A i \in DOMAIN resolutions : Cardinality(ReadyWith(i)) <= 1

\* A resolution that is complete is linked to a ready packet of its own.
CompleteIsLinked ==
  \A i \in DOMAIN resolutions :
    resolutions[i].status = "complete" => resolutions[i].packet \in ReadyWith(i)

\* No regeneration touches a packet that is ready: the automated one and earlier
\* reviewed ones remain retrievable.
ReadyIsPreserved ==
  [][exists' => \A p \in Ready : packets'[p] = packets[p]]_vars

\* A regeneration as the lifecycle sees it.
Request(i) ==
  [status    |-> jobs[i].status,
   delivered |-> Cardinality(ReadyWith(i)),
   link      |-> IF resolutions[i].packet \in ReadyWith(i) THEN "delivered" ELSE "none"]

Requests == [i \in DOMAIN jobs |-> Request(i)]

Lifecycle == INSTANCE RegenerationLifecycle WITH requests <- Requests

\* With one worker the queue implements the lifecycle, wherever the worker crashes: a
\* packet is delivered once, by a regeneration that is processing, and a regeneration
\* that is complete or failed is never reported otherwise again.
ImplementsRegeneration == Lifecycle!Spec

\* A regeneration once queued completes or fails in the end, whatever crashes: none
\* is queued again with its attempts used up, when no worker would claim it.
RegenerationSettles ==
  \A i \in 1..MaxResolutions :
    (i \in DOMAIN jobs /\ jobs[i].status = "queued") ~>
      (i \in DOMAIN jobs => jobs[i].status \in {"complete", "failed"})
=============================================================================
