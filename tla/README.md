# JobAgent V2 in TLA+

This directory specifies JobAgent V2 (`src/backend/src/jobagent_v2`): the SQLite
tables that hold jobs, analysis runs, packet tasks, packets, reviews and
regenerations, the worker loops that move them, the promotion cycles between
them, the API threads that change them under the workers' hands, the processes
the loops run in, and the decisions about a job that the queues carry. TLC checks
the models on small instances; TLAPS proves the safety
properties of the queues, the promotion cycles and the worker processes for every
number of jobs, workers, clients and threads, and those of the decisions for every
registry, posting and model answer, under the assumptions that section 6 names.

    tlc  -config packet_races.cfg MCPacketQueue.tla       # one run
    tlapm PacketQueueProofs.tla                           # the proofs of a module

`PROJECT.json` lists the components, the runs, the source lines every
definition stands for, the hazards and the theorems.

## 1. The system

### Components

| Component | State it keeps | Operations | Correct when |
|---|---|---|---|
| Status model (`statuses.py`) | none | `validate_intake_transition`, `validate_packet_transition`, `retry_available` | every status change follows the two tables |
| Queue 1 (`storage.py`, `Queue1Worker`, `JobService`) | `jobs.intake_status`, `archived_at`, `current_analysis_run_id`, `analysis_runs`, `job_scores`, `duplicate_warnings` | capture, analyse (transition, mark, save, end, compare, flag), re-score, restore and re-score, retry, archive, delete | a scored job has a score, one run is active at most, no job is lost in the middle, a repost is flagged |
| Queue 2 (`storage.py`, `Queue2Worker`) | `q2_tasks`, `packets`, `jobs.packet_status`, leases | promote, claim, start, create attempt, complete, fail, retry, recover, delete | task and job agree, a ready job has a packet and stays ready, a task is taken by one worker, every task settles within the retry limit |
| Promotion scheduler (`promotion.py`) | none of its own | recover stale tasks, promote eligible jobs within capacity and daily budget, every `interval_seconds` | capacity and budget are respected, a failure of one job does not stop the others |
| Reviews and regeneration (`storage.py`, `regeneration_worker.py`) | `review_items`, `review_resolutions`, `review_regeneration_jobs`, the `packets` they add | open, resolve, claim, regenerate, complete, fail, recover, delete | resolution and regeneration job agree, one reviewed packet per resolution, a complete one is linked to it, ready packets are untouched, every regeneration settles |
| Worker runner (`worker_runner.py`, `local_runtime.py`) and its health (`service.py`) | `worker_instances`, the process and its signal | register, poll, fail, back off, stop; kill | at most the unit about to be claimed is claimed after a stop, no row of a live worker is silent for longer than a round takes, no queue of a loop starves, unserved work is reported |
| Service and HTTP API (`service.py`, `api.py`, `server.py`) | a thread per request | the users' requests | each request is one of the operations above |
| Intake extraction (`intake.py`) | none | choice of text, candidates, quality band | a better page gets no worse band |
| Family classification (`family_classifier.py`) | none | scores of four families, decision | the scores stay a distribution whose best is chosen |
| Scoring (`scoring.py`, `hybrid_scoring.py`, `llm_client.py`) | none | fit score, blend with a model's assessment | the model overrules neither a blocker nor a clear match |
| Requirements (`requirements.py`) | none | find, complete by a model, fuse, score a portfolio | the model adds and supports, never weakens or invents |
| Tailoring (`tailoring.py`, `project_blocks.py`, `packets.py`) | a packet's directory | select one substitution, render, install or fall back | one approved substitution at most, no project twice, files that belong together, doubt is put to a person |
| URL normalisation, schema, calibration, dashboard, extension | | text, DDL, reports, DOM | see section 7 |

### How they interact

Everything meets in one SQLite file. A `ThreadingHTTPServer` runs each API
request in its own thread; the promotion loop is a thread of the server; each
worker loop (`q1`, `q2`, `regeneration`, or one loop over all three) is a
process, and the API can also run one iteration of a worker in a request
(`process-next`). There are no in-process locks: what keeps these apart is the
database.

Every `Repository` method opens a connection in Python's default isolation
mode. Its SELECTs before the first INSERT, UPDATE or DELETE run in autocommit
and hold no lock; the first write opens a transaction that holds the write lock
until the `with` block commits, or rolls back on an exception. So a method
whose guard is read first and whose write comes later is **two atomic steps**,
a `...Read` and a `...Write`, with anything in between; SELECTs made after the
first write belong to the `Write` step. This is the single most important
modelling decision here: almost every hazard of the code lives between the two.

### What is hard

* Guards read in autocommit and acted on later: claim, start, retry, recovery,
  re-score, mark-running, transition.
* `claim_next_q2_task` returns the task even when its conditional UPDATE
  changed nothing.
* Leases: a worker whose lease ran out is not told; it completes or fails its
  packet beside the worker that took over.
* Workers die between any two transactions. Queue 2 has leases; Queue 1 has
  nothing.
* Rows are deleted under workers that hold their ids.
* A re-score queues the job for the worker loop *and* runs the worker's program
  in the API thread.
* `created_at` has the resolution of a second and decides what is latest.
* One exception at the head of a queue comes back at every poll.
* A promotion cycle acts on counts and a list read earlier, while another cycle or
  a user promotes, archives or deletes.
* A signal only sets a flag that the loops look at between their steps; a killed
  process leaves its row as it was, and `run_all` stops its rows one transaction after
  the other, so that it may be killed between them.
* Two files of a packet are replaced one after the other, and either copy may fail.
* One decision is validated at several places, by different code: when it is
  selected, when a user queues it, when a worker carries it out.
* An external model may fail, time out, contradict the rules or invent things.

The full list, each at its line, is `hazards` in `PROJECT.json`.

## 2. Modules

| Module | Role |
|---|---|
| `Statuses` | the two vocabularies, the transition tables, `ValidIntakeTransition`, `ValidPacketTransition`, `Retryable` |
| `PacketQueue` | Queue 2 with its clients, and the mapping of its tables to `PacketLifecycle` |
| `PacketLifecycle` | what Queue 2 promises for a job: requested, generated, delivered once |
| `MCPacketQueue` | instances of `PacketQueue`, symmetry |
| `PacketQueueProofs` | the theorems about `PacketQueue` |
| `PacketRefinementProofs` | that `PacketQueue` implements `PacketLifecycle` |
| `AnalysisQueue` | Queue 1 with its clients |
| `MCAnalysisQueue` | instances of `AnalysisQueue` |
| `AnalysisQueueProofs` | the theorems about `AnalysisQueue` |
| `ReviewRegeneration` | reviews, resolutions and the regeneration queue of one job, with its clients and with Queue 2 as its environment, and the mapping of its tables to `RegenerationLifecycle` |
| `RegenerationLifecycle` | what the regeneration queue promises for a job's resolutions: asked for, begun, delivered once, complete or failed for good |
| `MCReviewRegeneration` | instances of `ReviewRegeneration` |
| `ReviewRegenerationProofs` | the theorems about `ReviewRegeneration`, also that it implements `RegenerationLifecycle` |
| `PromotionScheduler`, `MCPromotionScheduler` | promotion cycles and Generate now over reduced jobs and tasks |
| `WorkerRunner`, `MCWorkerRunner` | the worker processes: loops, heartbeats, stop, health, time |
| `PromotionSchedulerProofs`, `WorkerRunnerProofs` | the theorems about the two |
| `CVFamilies` | the four families and their two orders |
| `FamilyClassifier` | operators of `classify_job_family` |
| `FitScoring` | operators of `score_job` and `score_hybrid_job`; extends `FamilyClassifier` |
| `IntakeExtraction` | operators of `run_intake` |
| `Requirements` | operators of `extract_requirements`, `fuse_requirements`, `score_project_portfolio` |
| `ProjectTailoring` | the registry, `select_tailoring_decision`, what a reviewer may queue, and their validations |
| `JobDecisions` | composes the five: one job from its page to the files of its packets |
| `MCJobDecisions` | `JobDecisions` with the registry of the repository and inputs at the thresholds |
| `DecisionProofs` | folds, and the theorems about classification, scores, requirements and tailoring |
| `JobDecisionsProofs` | the theorems about `JobDecisions` |

The system modules contain, next to some definitions, an operator introduced by
a comment `Mutant:`; it is that definition with a plausible bug, used to see
that a property notices it, and no specification mentions it.

### PacketQueue and the code

| Variable | Code |
|---|---|
| `rows`, `archived`, `manualPriority` | rows of `jobs`, `archived_at`, `manual_priority` |
| `intake` | `jobs.intake_status` as promotion and retry see it: `queued` for every state Queue 1 has yet to leave, `failed` for failed and manual_review, `blocked` for scored with hard blockers |
| `packetStatus`, `taskStatus`, `attempts`, `lease`, `rank` | `jobs.packet_status`; `q2_tasks.status`, `attempt_count`, `lease_expires_at` (NULL, ahead of or behind the clock), the ORDER BY of the claim |
| `packets` | the status of each row of `packets` of a job, oldest first |
| `pc`, `target`, `slot` | the program counter and locals of a `Queue2Worker.process_next` |
| `client` | what an API thread or the promotion loop has read and is about to write |

| Action | Code |
|---|---|
| `ClaimCount`, `ClaimSelect`, `ClaimWrite` | `claim_next_q2_task`: the count, the SELECT, the transaction |
| `StartRead`, `StartWrite` | `start_q2_task` |
| `CreatePacket`, `GenerationFails` | `create_packet_attempt`; the rendering, external, succeeds or raises |
| `CompleteRead`, `CompleteWrite`, `FailPacket` | `complete_packet_attempt`, `fail_packet_attempt` |
| `PromoteRead`, `PromoteWrite` | `create_q2_task`, from the promotion loop or "generate now" |
| `RetryRead`, `RetryIntakeWrite`, `RetryPacketWrite` | `retry_job` |
| `RecoverRead`, `RecoverWrite` | `recover_stale_q2_tasks`: all stale tasks in one transaction, on the rows read before it |
| `SetPriority`, `Archive`, `Restore`, `Delete` | single-transaction requests; `Delete` removes task, packets and job |
| `IntakeEnds`, `Rescore` | what Queue 1 does to this module's view of a job |
| `Crash`, `ExpireLease` | the worker's process dies, or an exception ends its iteration; the clock passes a lease |

### AnalysisQueue and the code

A worker and an API thread that re-scores run the same program, so there is one
`thread` record for both, with the point it has reached (`at`), the job, the
status it is about to set (`goal`), the run it found (`run`) and whether the
fingerprint is stored with the next write (`print`). `Select` .. `Flag` are
`Queue1Worker.process_next` and `_score_job`, `TransitionRead/Write` is
`transition_intake`, `MarkRead/Write` is `mark_analysis_run_running`,
`SaveRead/Write` is `save_scoring_result`, `EndRead/Write` are
`complete_analysis_run` and `fail_analysis_run`, `Compare` and `Flag` are
`find_probable_duplicate` and `set_duplicate_warning`. `Follow` says what the
worker does after a transition: extraction ends in a quality band, scoring in a
score or an exception, each a nondeterministic choice. Clients do
`CaptureRead/Write`, `StartRead/Write` (re-score), `RestoreAndStart`,
`RetryRead/Write`, `Archive` (a toggle), `Delete`. Runs are sequences of statuses, the partial unique index over
active runs is a guard that makes the INSERT *or* the UPDATE that would create
a second active run raise.

### ReviewRegeneration and the code

The rows of one job; those of different jobs meet only in the order of the
regeneration queue and in the recovery, and two resolutions of one job meet
there too.

| Variable | Code |
|---|---|
| `packets`, `tailored` | the job's `packets`, oldest first, with status and `idempotency_key` (which names a resolution); the packet of the newest tailoring decision |
| `reviews`, `resolutions` | `review_items` (type, status, packet), `review_resolutions` (review, `regeneration_status`, `regeneration_packet_id`) |
| `jobs` | `review_regeneration_jobs` (status, `attempt_count`, lease, `source_packet_id`), by resolution |
| `worker`, `client` | the point a `ReviewRegenerationWorker` has reached and what it has read; a manual review about to be inserted |

| Action | Code |
|---|---|
| `ScoreIsSaved`, `PacketStarts`, `DecisionIsSaved`, `PacketEnds` | what Queue 1 and Queue 2 do to these rows, `_ensure_pending_review` included |
| `CreateRead`, `CreateWrite`, `Resolve` | `create_manual_review`, `resolve_review` |
| `RecoverRead`, `RecoverWrite`, `ClaimSelect`, `ClaimWrite` | `recover_stale_regeneration_jobs`, `claim_next_regeneration_job` |
| `Inspect`, `CreatePacketRead`, `CreatePacketWrite`, `Render`, `Deliver` | `_process`, up to `create_review_packet_attempt`, the artifacts (external) and `complete_review_packet_attempt` |
| `Finish`, `FailRead`, `FailWrite` | `complete_regeneration_job`, `fail_regeneration_job` |
| `Crash`, `ExpireLease`, `Delete` | as in `PacketQueue` |

An action of a resolution is abstracted to an `Outcomes` pair: the status the
review takes and whether a packet is to be regenerated. A resolution that needs
none has its entry of `jobs` in `not_required`, where the code has no row.
`jobs.current_packet_id` is written by the code and read by none of it; it is
left out.

`RegenerationLifecycle` sees of each resolution a `Request`: the status of its
regeneration job, how many of the packets with its key are ready, and whether the
packet it is linked to is one of these. Leases, attempts, workers, reviews and the
packets of Queue 2 are not part of it.

### PromotionScheduler and the code

`job` holds the columns of `jobs` that promotion reads (`intake` is `pending` for
every status that is not scored), `task` a job's row of `q2_tasks` (`stale` is
claimed or running with a lease that ran out; `again`, that the task had ended and was
queued or failed once more; `today`, that `created_at` is of the current UTC day;
`workers` counts those at work on it, the ones that lost their lease included),
`cycle` what a thread has read: the stale tasks, the room that is left, the rest of the
list, and the time for the INSERT.

| Action | Code |
|---|---|
| `RecoverRead`, `RecoverWrite` | `recover_stale_q2_tasks`: the SELECT, in autocommit; the UPDATEs by id, whatever the tasks are by then. Which tasks are requeued and which given up depends on attempts, and is left open |
| `CountActive`, `CountToday`, `SelectJobs` | the three calls that follow in `PromotionScheduler.run_once`, each a connection of its own |
| `ReadGuards`, `WriteTask` | `create_q2_task`: its guards, its transaction; an exception ends the cycle |
| `EndCycle` | no room, no budget or no job is left |
| `GenerateNow` | the same `create_q2_task`, alone and with `manual_override` |
| `Star`, `SetPriority`, `Archive`, `Rescore`, `Delete`, `Retry` | the requests |
| `AnalysisEnds`, `Claim`, `EndTask` | what Queue 1 and Queue 2 do to these rows; a worker may end its task at any time after its claim, as `complete_packet_attempt` asks whether the task is running and `fail_packet_attempt` nothing |
| `ExpireLease` | the clock passes a lease, of a dead worker or of one that works on |
| `Midnight` | the UTC day that `automatic_promotions_today` counts by changes |

The loop stops at the room or at the budget, and each promotion uses one of both,
so a cycle keeps the smaller (`room`). `Eligibility` is `q2_eligibility`, which is
nowhere called by the scheduler: that the two agree is a property.

### WorkerRunner and the code

`row` is a runner's row of `worker_instances` (state, consecutive failures, age of
the heartbeat), `proc` where its process is (`run_forever` of one runner, or
`run_all` over several), `signal` whether it was asked to stop and how long ago,
`late` counts the units claimed after that, `queued` the units in each queue.

| Action | Code |
|---|---|
| `Register`, `NextRound`, `NextTurn` | `register`, the `while` of both loops, the `for` of `run_all` |
| `RunOnce`, `Claim`, `EndWork`, `Fail` | `WorkerRunner.run_once` up to `_process_one`, the claim in it, its normal end, its `except` |
| `ReturnForever`, `ReturnAll`, `Wake` | what follows `run_once`: stop, go on, back off, sleep |
| `DatabaseFails` | an exception outside the `try` of `run_once` |
| `Stop`, `Exit` | the `finally` of both loops, one `stop_worker_instance` at a time, each a transaction of its own; the process ends |
| `RequestStop`, `Kill`, `Crash` | SIGTERM or SIGINT and its handler; the SIGKILL of `stop_tracked_processes`; any other end, an error in the `finally` too |
| `Tick` | time: only while every process sleeps or works |

`WorkerHealth` and `QueueHealth` are `_worker_health` and `_queue_health`.

### JobDecisions and the code

| Variable | Code |
|---|---|
| `desk` | the result of the last stage of an analysis: `IntakeResult`, `FamilyClassificationResult`, `ScoringResult`, or the report of `semantic_requirements_check` |
| `standing` | `family_classifications` and `jobs.selected_cv_family` of the job |
| `reviews`, `resolution` | the latest review of each type; the family and order a resolution has queued |
| `work`, `delivered` | the packet Queue 2 and the regeneration worker are making: its decision and its `cv.tex` and `cv.pdf`; the ready packets |

| Action | Code |
|---|---|
| `ExtractPage`, `SetAside` | `Queue1Worker.process_next` up to the quality band |
| `ClassifyJob`, `ScoreFacts`, `SaveScore`, `Rescore` | `classify_job_family`, `score_hybrid_job`, `save_scoring_result` with its review |
| `CheckRequirements`, `Report` | `semantic_requirements_check.main` |
| `Reanalyse`, `OpenReview`, `Resolve` | `reanalyze_project_selection`, `create_manual_review`, `resolve_review` with `_validate_review_resolution` |
| `StartPacket`, `StartRegeneration` | selection of the decision in Queue 2; `_process` and `_validate_blocks` of the regeneration worker |
| `CopyMaster`, `Compile`, `InstallTex`, `InstallPdf` | `build_master_packet_artifacts`, `evaluate_tailoring` after the selection, and its counterpart `_build_tailored` |
| `SaveDecision`, `Complete` | `save_tailoring_decision` with its review; the remaining files and the completion |

Text is data here: a page, a posting or an answer of a model is a record of what
the regular expressions and the parser find in it, and what the code computes
from that is modelled by its formula. Scores are integers: points of 100,
thousandths, or fractions of `Unit` for the classifier, where `Unit = 1000` in
place of the code's 10^6 makes rounding errors larger. Floats are exact fractions
in the model, and a tie that `round()` gives to the even neighbour goes up. An
order of blocks is a set kept and a set added: only membership decides anything.

## 3. Runs

All runs except `job_decisions` set `CHECK_DEADLOCK FALSE`: a queue with nothing
to do and nobody to ask it for more is at rest, the bounds stop users from asking
for ever, and processes end. `job_decisions` checks that it never stops.

| Run | Question | Result |
|---|---|---|
| `packet_races` | one job, two workers, two clients with every request, leases that run out under working workers, crashes | types; task and job agree; ready has a ready packet; held attempts are owned and open; verdicts on packets stand |
| `packet_delivery` | two jobs, two workers that crash, one client that promotes, retries, deletes and recovers, leases outlive the work, fairness | one generator per job; attempts stay within the retry limit; the queue refines `PacketLifecycle`; every queued task settles, unless a stale start lost its lease |
| `analysis_races` | one job, two Queue 1 workers, a client with every request, crashes | types; scored has a score; one active run |
| `analysis_settles` | one worker, one client that re-scores, archives and deletes, fairness, no crashes, three runs per job | every job queued, for the first time or again, is analysed: none is left in the middle |
| `analysis_reposts` | two captures of one posting, two workers, no crashes | one of the two is flagged |
| `review_races` | one resolution, two regeneration workers, leases that run out under working workers, crashes, Queue 2 and deletion beside them | types; a resolution shows the status of its job; one reviewed packet at most; complete is linked to it; no ready packet is touched |
| `review_settles` | two resolutions, also of one review, one worker that crashes, leases outlive the work, fairness | the queue implements `RegenerationLifecycle`; every queued regeneration completes or fails |
| `promotion_limits` | three jobs, two threads that run cycles, two leases that run out under workers that end their tasks before or after a recovery, one request of a user at any point, midnight | promotions exceed capacity and budget by no more than one cycle per thread, beside what came back after its end; the dashboard's eligibility is the scheduler's |
| `promotion_cycles` | two jobs, two threads, one lease that runs out, one request, midnight, fairness | a job that stays eligible is promoted although exceptions end cycles |
| `worker_stops` | `run_forever` with one runner or `run_all` with its three, work, failures, failing heartbeats, stop requests, kills and crashes anywhere, time, fairness | types and the rows at the end; no row of a live process is silent for longer than `LongestSilence`; one late unit; prompt and certain stop; every runner has its turns; unserved work is reported |
| `job_decisions` | one job; 288 pages, 7 signals, 2 answers of the classifier's model, 16 facts, 34 behaviours of the scoring model, 4 postings, 75 answers of the requirements model, 16 readings | the eight properties of `JobDecisions` |
| `retry_blocks_queue` | see section 5 | the code departs from its documentation |

### Bounds, and why they are enough

* **Jobs.** Rows of different jobs meet in the concurrency count, the order of
  the queues, the recovery transaction and the duplicate comparison; two jobs
  make all four happen. Races over one job need one, which leaves room for two
  workers *and* two clients.
* **Workers and clients.** Every race in the code is between a stale reader and
  one writer, or two readers of the same row; two workers and two clients give
  all pairs, also a client caught between two workers.
* **`RetryLimit = 2`** distinguishes the first recovery, which requeues, from
  the last, which fails. The default is 3.
* **`MaxAttempts`** of `PacketQueue` stops users, never the code, from retrying
  an attempt count past it: 2, so that `AttemptsBounded` is about tasks with attempts
  left when a user retries them; **`MaxRuns`** likewise stops users from starting
  another run. **`MaxAttempts`** of `ReviewRegeneration` is the code's
  `REGENERATION_MAX_ATTEMPTS`, 3; 2 again tells the first attempt from the last.
* **`MaxReviews`, `MaxResolutions`, `MaxPackets`** bound how many reviews are
  opened, resolutions made and packets started by Queue 2. Two workers race over
  one resolution, because `OneReviewedPacket` and the others speak of one at a
  time; two resolutions, which share the recovery and may share a review, meet
  in `review_settles`. One packet of Queue 2 is the source all attempts stand beside.
* **`promotion_limits`, `promotion_cycles`.** `Capacity = Budget = 1` is the smallest
  limit that can be overrun; two threads are the loop and one API thread, and the bounds
  of `CapacityHolds` and `BudgetHolds` grow with the threads. Three jobs, two above the
  threshold and one below, leave a candidate for each cycle and one to pass over; for
  `EligibleIsPromoted` two are enough, one that is promoted and one in its way.
  `MaxEdits = 1` lets one request fall between any two steps. `MaxExpired = 2` lets the
  leases of two tasks run out before one recovery reads both, or one lease twice.
  Threads are symmetric in `promotion_limits` (7.2 million states, two minutes), which
  has no liveness property; `promotion_cycles` has 1.0 million states.
* **`worker_stops`.** One tick is 15 seconds of the defaults, rounded up: poll 1,
  back-off at most 2, health threshold 2, grace 1, as 5 s, 30 s, 3 x 10 s and 5 s are.
  `run_all` has the three runners it has in the code. With `LongestWork = 1` a unit is as
  long as a poll, and the silence of `run_all`, 3 ticks, longer than the threshold;
  `MaxAge = 4` is more than either, so that no age that matters is cut off.
  `MaxFailures = 1` and a queue of one unit keep all branches.
* **`job_decisions`.** The registry is the one that is shipped. Every numeric
  threshold of the code has inputs on both sides: lengths, sections and noise of a
  page, scores and margins of the classifier, blockers, confidences, gains of a
  substitution, importance and specificity of a model's item. The reachable state is
  one job; jobs do not meet in these computations.
* **`Concurrency`** is 2, so that both workers may work. With 1, the default, they meet
  all the same, as the count and the claim are separate; and a task that lost its lease
  then takes the only place (section 5).

### `LeaseOutlivesWork` and `Crashes`

Nothing in the code renews a lease or stops a worker whose lease ran out.
`LeaseOutlivesWork = FALSE` lets that happen and shows what still holds
(`packet_races`); `TRUE` is the deployment the 300-second lease is meant for:
generation is faster than the lease, so only a dead worker's lease expires. The
refinement and the settling of tasks need it: without it a late failure makes a
delivered job a failed one (section 5). `ReviewRegeneration` has the same constant for the same reason. `Crashes` in `AnalysisQueue` separates what Queue 1 guarantees across crashes
(`analysis_races`) from what it guarantees without (`analysis_settles`).

## 4. Fairness

`FairSpec` has weak fairness of

* each worker's own steps: `WorkerRunner.run_forever` (and `run_all`) polls until
  stopped and catches every exception of an iteration;
* the write of a request that has been read: a handler thread runs to its end;
* `RecoverRead` in Queue 2: `start_promotion_loop` calls
  `run_promotion_once`, whose first act is the recovery, every interval, and
  swallows exceptions. This fairness is strong: the loop has a thread of its own, where
  the one client of the model carries out the users' requests too, and recovers if it is
  free again and again;
* `ExpireLease`: the clock reaches every lease. In `ReviewRegeneration` fairness of
  "some lease expires" is enough, as attempts, and so leases, are bounded.

`PromotionScheduler`: each thread's cycle (the loop of `start_promotion_loop` runs
for as long as the server, and a request is carried out to its end), the workers'
steps, the end of an analysis and midnight. `EligibleIsPromoted` needs midnight,
which refills the budget, and the workers, which free the capacity. Of the workers it
is fair that a queued task is claimed and that a running one ends while its lease lasts
or loses it; a worker whose lease ran out owes nothing. This is generous in one
respect: a task that `start_q2_task` set running without a lease and whose worker died
(section 5) blocks a place for good in the code, and has no counterpart here.
`WorkerRunner`: the steps of a process and the tick of the clock; neither claims,
failures nor signals are fair, so `StopIsHonoured` holds for a process that always
finds work.

No user request and no crash is fair. Crashes are not bounded in number either
where they are allowed: `TasksSettle` holds because each attempt consumes one of
`RetryLimit`, so an infinite sequence of crashes ends in failure of the task.

## 5. Where the code departs from its documents

One departure has a run that TLC must find violated, and a `findings` entry that
quotes the document.

* `retry_blocks_queue`: the intake outcomes failed and manual_review leave the
  analysis run running. After the user's retry `mark_analysis_run_running` finds
  no queued run and inserts a running one beside it, which the unique index
  rejects: it raises at every poll, and as the job is the oldest queued one, no
  job behind it is analysed.

Observations without a run, met while modelling. The first three contradict a
document and are visible in one line of code each, so they need no search:
`fail_packet_attempt` sets the job to failed whatever its task is by then, so a
worker whose lease ran out and who fails late turns a job another worker made ready
into a failed one (`jobagent_v2_plan/status_model.md:79`); nothing selects or resets
a job in extracting, structuring or scoring whose worker died
(`docs/release_checklist.md:61`, "Worker restart recovers stale eligible work.");
`get_packet_for_job` returns the newest packet whatever its status, so a
regeneration that fails after it inserted its attempt hides the ready packet
(`docs/review_api.md:275`, "keeps the previous valid packet visible").

Of the queues: a recovery that read a task
before its delivery and writes after it queues a delivered job again (which is
why the refinement assumes `LeaseOutlivesWork`, and why `CapacityHolds` leaves out
tasks that came back after their end: two cycles promote two jobs, a recovery reads
both as stale, their late workers deliver them, another cycle counts nothing and
promotes a third, and then the recovery queues the first two again, three tasks where
two cycles of capacity 1 have a bound of 2); `start_q2_task` writes by id
alone, so a task requeued between its guard and its write runs without a lease
and recovery never selects it: if its worker dies it stays running, and with the default
concurrency of 1 no other task is claimed again (the exception that `TasksSettle`
makes; no expired lease is needed, a failure by the other worker and a user's retry do); `q2_tasks.priority` is copied at promotion and a
later star changes nothing; a failed or manual_review intake keeps its run
active, so a re-score only returns that run; `mark_analysis_run_running` can set
a run that has ended running again; a re-score's run can be scored by the worker
loop and the API thread both. The count of active tasks and the claim are
separate statements, so two worker processes pass a concurrency limit of 1,
against `jobagent_v2_plan/architecture.md:440` ("only one packet is generated at a
time"); `archived_at` is checked at promotion and never at the claim, against
`jobagent_v2_plan/pipeline.md:261` ("archived job → never packet"); of two scores
saved in one second `get_score` returns the older, as `created_at` has the
resolution of a second.

Of reviews and regeneration: `create_manual_review` selects and then inserts, so
two users open two pending reviews of a type, against `docs/review_api.md:18`; the
loser of a claim race finds the row processing and regenerates too, against
`docs/review_api.md:75` ("atomically"), though only one packet becomes ready, since
the other attempt's delivery raises an IntegrityError that nothing before the
runner catches; a recovery that gives up sets job and resolution to failed and
leaves the review overridden or rejected, so that it is not listed under
`regeneration_failed`; with leases that run out under workers a late refusal
overwrites a completed regeneration, and a late retry requeues one whose
attempts are used up, which no claim takes; two workers need no expired lease for
that, as a recovery writes by id what it read before the other one ended it; a
recovery that gives up after the delivery and before the completion leaves a failed
regeneration whose reviewed packet is ready; `resolve_review` asks neither whether
the review is pending nor whether its packet is being regenerated, so a
completion sets a review that was rejected since to approved.

Of promotion and processes: `q2_eligibility` says "eligible" of a job whose task
failed, which `eligible_scored_jobs` never selects (the property speaks of jobs
without a task); the stale count of Queue 1 (`storage.py:3560`) compares
`2026-07-01T10:00:00Z` with `2026-07-01 09:45:00` as strings, so that on one UTC day
no row counts as stale; the sleep of `run_all` and the grace of
`stop_tracked_processes` are both 5 seconds by default, so a process asked to stop
in its sleep may be killed before it marks its rows stopped, or when it has marked one
or two of three, against `docs/worker_operations.md`; the longest idle back-off, 30
seconds, is exactly the heartbeat age that health tolerates, and `run_all` writes a
runner's row only at its own turn, so that two units of 20 seconds of the other runners
and the sleep of 5 report a live worker as offline, and no code bounds a unit; a failure's `unhealthy` is overwritten by
`backing_off` at once; `run_all` registers its runners before its `try`.

Of tailoring and reviews: a candidate that fails after `cv.tex` was written
(`tailoring.py:130`) leaves the tailored TeX beside the master's PDF in a packet that
says it fell back, against `docs/bounded_tailoring.md` ("the approved master .tex and
.pdf remain the packet outputs"), and its saved decision keeps the tailored order;
`reject_tailoring` regenerates from the classified family, which need not be the
family the tailoring was based on (`storage.py:2924`); an `approve_...` that names a
family changes the family of the resolution and regenerates nothing; `resolve_review`
does not ask whether the action is among the `allowed_actions` of the review; a
pending review keeps referring to the older packet when a newer decision would open
it; a reanalysis of a delivered job saves a decision the packet was not built from;
`validate_tailoring_decision` does not look for a project that stands twice, which
`_validate_blocks` does (`NoProjectTwice` is proved from what selection does).

Of classification: a clear match takes a share of 0.65 and a margin of 0.25
(`data/family_classifier.json`), and as the shares add up to one the first makes the
margin at least 0.30, so that `clear_min_margin` never decides (`ScoresAreShares`).
Of scoring: the family named by the scoring model is not looked up among the four
(`hybrid_scoring.py:74`); a job whose family became unknown that way fails in Queue 2
and makes a reanalysis raise `KeyError`. Of requirements: an id can be given to two of
them, since a generic one takes the number of the next
(`requirements.py:210-228`); an item of the model that matches an earlier item of the
model clears its `semantic_only` (`requirements.py:377`); outside the checking tool
`extract_requirements` is never given a provider.

## 6. What is proved

`PacketQueueProofs` proves, for arbitrary `Jobs`, `Workers`, `Clients` and
limits, from `NoJobAssumption` (the absent id is no job) and `LimitAssumption` (limits are
naturals, `LeaseOutlivesWork` a Boolean):

* `TypeCorrect`: `Spec => []TypeOK`
* `Agreement`: `Spec => []TaskAndJobAgree`
* `Ownership`: `Spec => []AttemptsAreOwned`
* `ReadyIsBacked`: `Spec => []ReadyHasPacket`
* `VerdictsAreFinal`: `Spec => VerdictsStand`
* `AttemptsAreBounded`: `Unretried /\ Spec => []AttemptsBounded`

The inductive invariant is

    IInv == TypeOK /\ TaskAndJobAgree /\ RequestsAreBacked
                   /\ AttemptsAreOwned /\ ReadyHasPacket

`TypeOK` is inductive alone, and `AttemptsAreOwned` with it; the others lean on
each other. `TaskAndJobAgree` needs `RequestsAreBacked`, and the reverse: a recovery or a retry writes both tables by what it read, and
the task's UPDATE would touch no row, while the job's would, had the task gone
and the job stayed. `ReadyHasPacket` needs `AttemptsAreOwned`: completion sets the
packet it holds to ready, which makes the job's claim true only if that packet
exists. That no
two workers hold one attempt, because attempts are numbered by the sequence they
are appended to, gives `VerdictsStand` with leases running out. The proofs go
action by action: `WorkerKeeps...`, `ClientKeeps...` and `JobStepKeeps...` lemmas
over the disjuncts of `Next`, and `Next...` lemmas that join them. Each conjunct of
`IInv` but `RequestsAreBacked` is an invariant of `packet_races`.

`AttemptsAreBounded` holds for leases that expire under their workers too. `Unretried` says
that there is one client, that it never retries a packet by hand, and that the limit is
positive (3 in the code). The strengthening is `AttemptsAreLeft`: a queued task has an
attempt left, and so has a task that a recovery has read and not yet written back, which
is not queued. Each hypothesis is needed: a retry queues a task whatever its attempts
are, as the user asked for it; two recoveries that read one expired task queue it twice,
the second after the first one's attempt.

`PacketRefinementProofs` proves, from `OneAtATime` (no lease runs out under a worker
that is at it, and there is at most one client; the bounds of `packet_delivery`
without its two jobs and two workers),

* `OneGeneratorPerJob`: `OneAtATime /\ Spec => []OneGenerator`
* `Refinement`: `OneAtATime /\ Spec => ImplementsLifecycle`

`RInv` adds to `IInv` that a job with a worker past its start shows `generating`, that a
lease belongs to a task under way and an expired one to no worker, that what a retry or
a recovery read is still so when it writes, and that a ready job has one ready attempt
and any other none. The second of two starts fails because the first left the job
`generating`: that is all that keeps two workers apart, as the claim and the start write
by id. The status of each job moves as `StatusMoves` lists; `delivered` is the number of
ready attempts, which `RInv` makes a function of the status (`Counts`), so each move is
a step of the lifecycle (`StepImplements`). What the assumption excludes is real, and
the code does it: a recovery that read a task before its delivery queues it again.

`DecisionProofs` proves what the algorithms of the decisions compute. Of the
classifier, for all weights and answers, from `UnitAssumption`:

* `ScoresAreShares`: the scores of `classify_job_family` are shares that add up to one,
  though they are rounded up to three times and the drift is added to one of them, and
  the job is given to a family that has the most. The crux is `DriftIs`: the drift of
  four rounded shares is at most two steps, and the best one can bear it.

Of scores and requirements, for any number of blocks, mentions and items:

* `BlockersHold`: `score_hybrid_job` gives points of 0 to 100, and at most 71 with a
  blocker, whatever the model answers or fails to;
* `RulesStand`: what `extract_requirements` returns has every requirement of the rules,
  with its importance and capabilities, and of the model's only strong ones with known
  capabilities, in a run in which it took part.

These are folds: means over blocks, requirements merged one by one. The library's
induction theorems take an operator as a parameter, which the provers cannot instantiate,
so that the module has induction in the form of sets, `Induction` and `LeastOf`, from
`NatLessThanWellFounded` and `WFMin`, whose parameters are sets. `FoldExists` derives from
it that the recursive function by which a community module folds over a finite set
exists, and `FoldStays` that what holds of the base and is kept by every step holds of
the fold; sums, bounds on means and facts kept along a sequence follow.

Of tailoring, for every registry, profile, reading of a posting and request, from

* `RegistryAssumption`: what `validate_project_block_registry` and its helpers
  enforce before a registry is used;
* `MastersAreDistinct`, `RulesKeepProjectsApart`: two facts about the registry that the
  code does not enforce. TLC evaluates them on the registry that is shipped;

* `DecisionsAreValid`: what `select_tailoring_decision` returns passes
  `validate_tailoring_decision` and shows no project twice;
* `ResolutionsAreValid`: what `_validate_review_resolution` queues passes
  `_validate_blocks`, although the two are written separately. The crux is that the
  worker recomputes the removed and the inserted block from the two orders
  (`PickFrom`), which a swap determines.

`JobDecisionsProofs` proves from these, for all pages, signals, answers, facts,
clients, mentions, responses and readings,

* `DeliveredProjectsAreDistinct`: `Spec => []NoProjectTwice`
* `DecidedIsAccepted`: `Spec => []AcceptedIsValid`
* `DeliveredFilesAgree`: `Spec => []TailoredFilesAgree`
* `DoubtfulPacketsAreReviewed`: `Spec => []DoubtIsReviewed`
* `ClearMatchesStand`: `Spec => []ClearMatchIsOfFamily`

with the inductive invariant

    IInv == WorkIsSound /\ DeliveredIsSound /\ QueuedIsSound
                       /\ ReviewsAreSound /\ DoubtIsAsked /\ ClearMatchIsOfFamily

`WorkIsSound` says of a packet in the making what its step has established so far:
its order is distinct and valid, and its files are what the steps before have
written. The delivered packet's properties are those of the packet at its last
step. `DoubtIsAsked` carries a saved doubt from `SaveDecision` to `Complete`, over
which a user may resolve the review: the property speaks of a review that was
opened, not of one that is pending. `QueuedIsSound` carries `ResolutionsAreValid` from
the user's request to the worker.

From `InputsAssumption`, which gives the shapes of the inputs (a job's facts, a model's
verdicts, mentions, items), follow with a second invariant

* `BlockedJobsStayBelow`: `Spec => []BlockedIsNotPromoted`
* `FusedRulesStand`: `Spec => []FusionKeepsRules`

`DeskIsRead` says that what the first analysis holds was computed, by the operators of
the code, from a posting and an answer of the model; `BlockersHold` and `RulesStand` say
what those operators compute.

`AnalysisQueueProofs` proves, from `NoJobAssumption`, `RepostsAssumption` and
`BoundAssumption`, with crashes or without,

* `TypesHold`: `Spec => []TypeOK`
* `OneRunAtATime`: `Spec => []OneActiveRun`
* `ScoredIsBacked`: `Spec => []ScoredHasScore`
* `RepostsAreWarned`: `Crashes = FALSE /\ Spec => []RepostsAreFlagged`

`Tables` holds of the rows, `Fits` of each thread with what it has read. The crux is
`ScoredHasScore`: `save_scoring_result` and the transition to scored are separate
transactions, and between them the job may be deleted. `Fits` says that a thread about
to set a row to scored finds a score with it, and that the row's job was `Born`: an id
that was deleted is not captured again, so the UPDATE touches no row rather than a
new one without a score. A capture brings only new ids, which no thread holds yet.

`RepostsAreWarned` covers any number of threads and every operation of the module,
re-scoring, retries, archiving and deletion included, where the run `analysis_reposts` has
two workers and two jobs. Its invariant adds to `IInv` that a job whose fingerprint is not
compared yet has an active run (`RowsArePrinted`), that a thread past structuring has
stored its posting, and has read the postings it compares with after that (`Knows`), and
that of two stored reposts one is flagged or in the hands of a thread that has the other
before it (`PairsAreSeen`): the one that reads later sees the one that stored earlier. A
worker that dies between the two steps leaves a repost without a flag, so that the theorem
is about executions without crashes.

`ReviewRegenerationProofs` proves, from `BoundAssumption`, for any number of
workers, clients and attempts, and whether leases outlive the work or not,

* `TypesHold`: `Spec => []TypeOK`
* `ResolutionsShowTheirJobs`: `Spec => []StatusesAgree`
* `OneRegenerationWins`: `Spec => []OneReviewedPacket`
* `CompletionIsBacked`: `Spec => []CompleteIsLinked`
* `ReadyPacketsStand`: `Spec => ReadyIsPreserved`
* `Refinement`: `OneWorker => (Spec => ImplementsRegeneration)`

Here `Fits` follows the packet of a worker: while it renders and delivers, the packet
carries the key of its resolution, and when it finishes the packet is ready. Two
workers on one resolution hold different packets of one key; that only one becomes
ready is the unique index, a guard of `Deliver` that `OneReady` turns into the
invariant. `Keeps` collects what no step undoes, rows, keys and ready packets, and
carries `Fits` over the steps of the others.

`Refinement` is about one regeneration worker (`OneWorker`), which is what `dev-up`
starts, with any number of clients, crashes anywhere and leases of any length. It rests on
`Alone`: what the worker has read to recover, and the job it is past claiming, are still
`processing`, as nobody else ends them; and on `Unlinked`: a resolution that is not
complete is linked to no packet, so that delivering one links nothing. Then each action
is a step of the lifecycle or none: `ClaimWrite` begins a request or finds it no longer
queued, `Deliver` delivers, and the unique index makes it the first; `Finish` completes, a failure or a recovery interrupts
(`SettleInterrupts`, several requests in one transaction), `Resolve` asks, `Delete`
removes all, and everything else leaves `Requests` alone. That a complete regeneration is
never reported otherwise is a consequence, as no step of the lifecycle leaves `complete`.
With two workers TLC finds a complete resolution taken back even where no lease runs out:
a recovery writes by id what it read before the other one completed it.

`PromotionSchedulerProofs` proves, from `PolicyAssumption` and `FiniteAssumption`,

* `OvershootIsBounded`: `Spec => []CapacityHolds`, of the tasks that cycles promoted
  and that have not ended since; what a user's retry or a late recovery brought back
  after its end comes on top, and nothing in the code bounds it
* `SpendingIsBounded`: `Spec => []BudgetHolds`
* `OnePolicy`: `Spec => []EligibilityAgrees`

The count of tasks alone is not inductive: a cycle that has read the capacity will
add to it later. `WithinCapacity` and `WithinBudget` add to what is counted the
promotions that cycles may still make (`Places`, `Spendings`, sets of pairs of a thread
and an index, so that promoting takes one pair away for the task it adds). A cycle
that counts anew starts from at most the limit less what is there, and the bound of
all threads but itself was below the sum before. A recovery adds nothing
(`RecoverWriteKeeps`): a task it writes was unfinished already, or it had ended and is
now `again`; that it was read long before does not matter.

`WorkerRunnerProofs` proves, from `LoopAssumption`, `TimeAssumption` and `AgeAssumption`,

* `NoWorkAfterStop`: `Spec => []OneLateUnit`
* `StopsInTime`: `Spec => []StopIsPrompt`
* `TypesHold`: `Spec => []TypeOK`
* `SilenceHolds`: `Spec => []SilenceIsBounded`

`Fits` adds the ticks since the request to those left of the sleep or the work the
process is in, which together stay within `LongestStop`; where a process may still
claim, no tick has passed since the request and nothing was claimed since. The
longest sleep of `run_forever` is the larger of poll and back-off limit, as the
settings do not keep the first below the second.

`Rows` follows the heartbeats. A row is written when the turn of its runner begins, when
its unit is claimed and when it ends; `Quiet` counts what may have passed since, whole
turns of the other runners and, once a new round has begun, a sleep, and `Silent` bounds
the age of the heartbeat by it at every place of the loop. The longest silence of a loop
is thus a unit of its own work, or a unit of every other runner and a sleep, for loops
over any number of runners. `AgeAssumption` says only that the model counts ages that
far. Whether health tolerates that silence is no assumption and no theorem: no code
relates the two, and with the defaults it does not (section 5). `TypesHold` includes that
a row is `stopped` only once its process has left its loop, and that a process that ended
of itself has stopped all its rows: the rows before `turn` are stopped while the `finally`
runs. It needs that no two processes share a row (`LoopAssumption`; an instance id ends
in a `uuid4`).

`JobDecisionsProofs` also proves, from `PagesAssumption` (lengths and noise are naturals,
the share that is kept is one of 0 to 100),

* `RicherPagesRankHigher`: `Spec => []QualityIsMonotone`

for pages of any lengths. Each term of the points is monotone (`TextGrows`,
`ScoreGrows`), and `GradeIs` puts the bands in the order in which the code tests for them;
that a band is never reached by way of a worse one is arithmetic from there.

**Model-checked only:** liveness (`TasksSettle`, `JobsAreAnalysed`, `RegenerationSettles`,
`EligibleIsPromoted`, `StopIsHonoured`, `EveryRunnerPolls`, `UnservedIsReported`), as the
prover handles neither fairness nor ENABLED here. No RECURSIVE operator occurs in any
module.

## 7. What is not modelled, and why

* Text: the regular expressions of extraction, aliases and phrases, prompts,
  TeX. What they find is an input of the models; what the code decides from it is
  modelled.
* LLM calls, PDF tools, the content of files: external; success or failure at each
  step.
* The notes and versions of a review; the JSON files and the manifest of a packet.
* Structured postings, section scores, candidate lists of fields besides the title:
  they order a display, or repeat a mechanism that is modelled.
* URL normalisation: string rewriting; two captures are the same when their
  normalized URLs are equal.
* Schema and migrations: straight-line DDL at start.
* Dashboard and extension: they read, and send the requests that are modelled.
* Calibration reports, preflight and setup: they run beside the system.
* Queue metrics other than those worker health rests on: queries over the tables of
  the queue modules.
* Exact floating point: see `JobDecisions and the code`. The comparison of timestamps
  as strings: a lease is ahead of the clock or behind it.

## 8. Where to go on

* `PromotionScheduler` composed with `PacketQueue` instead of its reduction of tasks.
