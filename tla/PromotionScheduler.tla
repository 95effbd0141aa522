-------------------------- MODULE PromotionScheduler --------------------------
(***************************************************************************)
(* Automatic promotion from Queue 1 to Queue 2: the cycles of              *)
(* PromotionScheduler.run_once, started by the promotion loop of the       *)
(* server and by POST /api/workers/promotion/run-once, next to the user's  *)
(* Generate now.  A cycle reads the free capacity, then the rest of the    *)
(* daily budget, then the eligible jobs, and promotes from what it read;   *)
(* every read and every promotion is a connection of its own, and nothing  *)
(* keeps two cycles apart.                                                 *)
(*                                                                         *)
(* The tasks' lives are those of PacketQueue, reduced to what the counts   *)
(* tell apart: a worker whose lease ran out works on and is not told, and  *)
(* a recovery writes by id what it read before.  A job's packet_status is  *)
(* the one its task implies.                                               *)
(***************************************************************************)
EXTENDS Integers, FiniteSets, SequencesExt

CONSTANTS
  Jobs,             \* rows of the jobs table
  Threads,          \* the promotion loop and the API threads
  CreatedAt,        \* jobs.created_at, the last key of the order
  Scores,           \* the values of overall_score in this instance
  FirstScore,       \* what the first analyses gave the jobs
  Capacity,         \* PromotionConfig.q2_capacity
  Budget,           \* PromotionConfig.auto_packet_budget
  AutoThreshold,    \* PromotionConfig.auto_promote_threshold
  ReviewThreshold,  \* PromotionConfig.manual_review_threshold
  MaxEdits,         \* bound of the model: the user's requests
  MaxExpired        \* bound of the model: leases that run out

ASSUME PolicyAssumption ==
  /\ Capacity \in Nat \ {0} /\ Budget \in Nat \ {0}
  /\ AutoThreshold \in 0..100 /\ ReviewThreshold \in 0..100
  /\ Scores \subseteq 0..100 /\ FirstScore \in [Jobs -> Scores]
  /\ CreatedAt \in [Jobs -> Nat]
ASSUME FiniteAssumption == IsFiniteSet(Jobs) /\ IsFiniteSet(Threads)

VARIABLES
  job,     \* the columns of jobs that promotion reads
  task,    \* q2_tasks: status, manual_override, created today, back after its
           \* end, and the workers that work on it, late ones included
  cycle,   \* what a thread has read of the database and is about to do
  edits,   \* the user's requests so far
  expired  \* the leases that ran out so far

vars == <<job, task, cycle, edits, expired>>

\* intake is scored, pending for every other status, or absent: no row.
JobStates == [intake : {"scored", "pending", "absent"}, score : Scores,
              blocked : BOOLEAN, archived : BOOLEAN, starred : BOOLEAN,
              priority : {0, 1}]

\* running is claimed or running with a live lease, stale one without.
TaskStatuses == {"none", "queued", "running", "stale", "ready", "failed"}
Steps == {"idle", "recover", "count", "budget", "select", "read", "write"}

NoTask == [status |-> "none", manual |-> FALSE, again |-> FALSE, today |-> FALSE,
           workers |-> 0]
Idle   == [step |-> "idle", stale |-> {}, room |-> 0, list |-> <<>>, manual |-> FALSE,
           today |-> FALSE]

Init ==
  /\ job = [j \in Jobs |-> [intake |-> "scored", score |-> FirstScore[j],
                            blocked |-> FALSE, archived |-> FALSE,
                            starred |-> FALSE, priority |-> 0]]
  /\ task = [j \in Jobs |-> NoTask]
  /\ cycle = [t \in Threads |-> Idle]
  /\ edits = 0
  /\ expired = 0

-----------------------------------------------------------------------------
\* What the queries and the policy say of a job.

HasTask(j) == task[j].status /= "none"

\* Mutant: the count forgets the tasks that wait.
ActiveClaimed == {j \in Jobs : task[j].status \in {"running", "stale"}}

\* q2_active_count: queued, claimed and running tasks.
Active == {j \in Jobs : task[j].status \in {"queued", "running", "stale"}}

\* Mutant: the promotions that were finished no longer count.
PromotedUnfinished ==
  {j \in Jobs : task[j].status \in {"queued", "running"} /\ ~task[j].manual /\ task[j].today}

\* automatic_promotions_today: rows of today without manual_override.
PromotedToday == {j \in Jobs : HasTask(j) /\ ~task[j].manual /\ task[j].today}

\* Mutant: the query does not look at archived_at.
SelectableArchived(j) == job[j].intake = "scored" /\ ~HasTask(j)

\* eligible_scored_jobs: WHERE scored, not archived, without a task.
Selectable(j) == job[j].intake = "scored" /\ ~job[j].archived /\ ~HasTask(j)

\* eligible_scored_jobs: ORDER BY manual_priority DESC, starred DESC,
\* overall_score DESC, created_at ASC.
SortKey(j) == <<-job[j].priority, IF job[j].starred THEN 0 ELSE 1,
                -job[j].score, CreatedAt[j]>>
Before(j, k) ==
  \E i \in 1..4 :
    /\ SortKey(j)[i] < SortKey(k)[i]
    /\ \A h \in 1..(i - 1) : SortKey(j)[h] = SortKey(k)[h]

Favoured(j) == job[j].starred \/ job[j].priority > 0

\* run_once: blocked jobs and low scores are passed over.
Deserving(j) == ~job[j].blocked /\ (Favoured(j) \/ job[j].score >= AutoThreshold)

\* packet_status, as the task's operations keep it.
PacketStatus(j) ==
  CASE task[j].status = "none" -> "not_requested"
    [] task[j].status \in {"running", "stale"} -> "generating"
    [] OTHER -> task[j].status

\* q2_eligibility, the policy as the dashboard shows it.
Eligibility(j) ==
  IF job[j].archived THEN "archived"
  ELSE IF job[j].blocked THEN "blocked"
  ELSE IF PacketStatus(j) \in {"queued", "generating", "ready"} THEN "in_q2"
  ELSE IF job[j].intake /= "scored" THEN "not_scored"
  ELSE IF Favoured(j) THEN "eligible_manual_priority"
  ELSE IF job[j].score >= AutoThreshold THEN "eligible"
  ELSE IF job[j].score >= ReviewThreshold THEN "manual_review_range"
  ELSE "below_threshold"

-----------------------------------------------------------------------------
\* A promotion cycle.

\* The cycle is over: the loop has no room or no job left, or an exception leaves
\* run_once, which the promotion loop swallows and the API answers with an error.
Finish(t) == cycle' = [cycle EXCEPT ![t] = Idle]

\* run_once begins: recover_stale_q2_tasks reads the tasks whose lease ran out.
RecoverRead(t) ==
  LET stale == {j \in Jobs : task[j].status = "stale"} IN
  /\ cycle[t].step = "idle"
  /\ cycle' = [cycle EXCEPT ![t].step = IF stale = {} THEN "count" ELSE "recover",
                            ![t].stale = stale]
  /\ UNCHANGED <<job, task, edits, expired>>

\* A task has ended: only a user's retry or a late recovery brings it back.
Ended(j) == task[j].status \in {"ready", "failed"}

\* Its transaction requeues each of them, or gives it up after retry_limit attempts,
\* which only PacketQueue counts: by id, whatever the task is by now.  The row of a
\* deleted job raises, undoes the others and ends the cycle.
RecoverWrite(t) ==
  /\ cycle[t].step = "recover"
  /\ IF \E j \in cycle[t].stale : ~HasTask(j)
     THEN Finish(t) /\ UNCHANGED task
     ELSE /\ \E next \in [cycle[t].stale -> {"queued", "failed"}] :
               task' = [j \in Jobs |->
                 IF j \in cycle[t].stale
                 THEN [task[j] EXCEPT !.status = next[j], !.again = @ \/ Ended(j)]
                 ELSE task[j]]
          /\ cycle' = [cycle EXCEPT ![t].step = "count", ![t].stale = {}]
  /\ UNCHANGED <<job, edits, expired>>

Least(a, b) == IF a <= b THEN a ELSE b
Rest(limit, used) == IF used >= limit THEN 0 ELSE limit - used

\* available = max(0, q2_capacity - q2_active_count())
CountActive(t) ==
  /\ cycle[t].step = "count"
  /\ cycle' = [cycle EXCEPT ![t].step = "budget",
                            ![t].room = Rest(Capacity, Cardinality(Active))]
  /\ UNCHANGED <<job, task, edits, expired>>

\* budget_used = automatic_promotions_today(day).  The loop stops at either
\* limit, and every promotion uses up one of both: only the smaller counts.
CountToday(t) ==
  /\ cycle[t].step = "budget"
  /\ cycle' = [cycle EXCEPT ![t].step = "select",
       ![t].room = Least(cycle[t].room, Rest(Budget, Cardinality(PromotedToday)))]
  /\ UNCHANGED <<job, task, edits, expired>>

\* eligible_scored_jobs, without the jobs that the loop passes over.
SelectJobs(t) ==
  /\ cycle[t].step = "select"
  /\ cycle' = [cycle EXCEPT ![t].step = "read",
       ![t].list = SetToSortSeq({j \in Jobs : Selectable(j) /\ Deserving(j)}, Before)]
  /\ UNCHANGED <<job, task, edits, expired>>

\* The next job of the list, after n promotions.
Advance(t, n) ==
  cycle' = [cycle EXCEPT ![t].step = "read", ![t].room = @ - n,
                         ![t].list = Tail(@), ![t].today = FALSE]

EndCycle(t) ==
  /\ cycle[t].step = "read"
  /\ cycle[t].room = 0 \/ cycle[t].list = <<>>
  /\ Finish(t)
  /\ UNCHANGED <<job, task, edits, expired>>

\* Mutant: a job that can no longer be promoted keeps the cycle waiting.
ReadGuardsStuck(t) ==
  LET j == Head(cycle[t].list) IN
  /\ cycle[t].step = "read" /\ cycle[t].room > 0 /\ cycle[t].list /= <<>>
  /\ HasTask(j) \/ (job[j].intake = "scored" /\ ~job[j].archived /\ ~job[j].blocked)
  /\ IF HasTask(j) THEN Advance(t, 0)
     ELSE cycle' = [cycle EXCEPT ![t].step = "write", ![t].today = TRUE]
  /\ UNCHANGED <<job, task, edits, expired>>

\* create_q2_task, the guards read before the INSERT: an existing task is
\* returned, a job that may not be promoted raises, and ends the whole cycle.
\* created_at is taken here.
ReadGuards(t) ==
  LET j == Head(cycle[t].list) IN
  /\ cycle[t].step = "read" /\ cycle[t].room > 0 /\ cycle[t].list /= <<>>
  /\ IF job[j].intake = "absent" THEN Finish(t)
     ELSE IF HasTask(j) THEN Advance(t, 0)
     ELSE IF job[j].archived \/ job[j].intake /= "scored" \/ job[j].blocked
          THEN Finish(t)
     ELSE cycle' = [cycle EXCEPT ![t].step = "write", ![t].today = TRUE]
  /\ UNCHANGED <<job, task, edits, expired>>

\* create_q2_task, the transaction.  job_id is UNIQUE and a foreign key: the
\* INSERT raises when another thread's task, or no job, is there by now.
WriteTask(t) ==
  LET j == Head(cycle[t].list) IN
  /\ cycle[t].step = "write"
  /\ IF HasTask(j) \/ job[j].intake = "absent"
     THEN Finish(t) /\ UNCHANGED task
     ELSE /\ task' = [task EXCEPT ![j] =
               [status |-> "queued", manual |-> cycle[t].manual,
                again |-> FALSE, today |-> cycle[t].today, workers |-> 0]]
          /\ Advance(t, 1)
  /\ UNCHANGED <<job, edits, expired>>

Promote(t) ==
  \/ RecoverRead(t) \/ RecoverWrite(t) \/ CountActive(t) \/ CountToday(t) \/ SelectJobs(t)
  \/ ReadGuards(t) \/ WriteTask(t) \/ EndCycle(t)

-----------------------------------------------------------------------------
\* The user, the workers and the calendar.

Edit == edits < MaxEdits /\ edits' = edits + 1 /\ UNCHANGED expired

\* POST /api/jobs/{id}/generate: one create_q2_task with manual_override, under
\* no limit of capacity or budget.
GenerateNow(t, j) ==
  /\ Edit
  /\ cycle[t].step = "idle"
  /\ cycle' = [cycle EXCEPT ![t] =
       [step |-> "read", stale |-> {}, room |-> 1, list |-> <<j>>, manual |-> TRUE,
        today |-> FALSE]]
  /\ UNCHANGED <<job, task>>

\* set_star writes both columns, set_priority only the second.
Star(j, on) ==
  /\ Edit
  /\ job[j].intake /= "absent" /\ job[j].starred /= on
  /\ job' = [job EXCEPT ![j].starred = on, ![j].priority = IF on THEN 1 ELSE 0]
  /\ UNCHANGED <<task, cycle>>

SetPriority(j) ==
  /\ Edit
  /\ job[j].intake /= "absent"
  /\ job' = [job EXCEPT ![j].priority = 1 - @]
  /\ UNCHANGED <<task, cycle>>

Archive(j) ==
  /\ Edit
  /\ job[j].intake /= "absent"
  /\ job' = [job EXCEPT ![j].archived = ~@]
  /\ UNCHANGED <<task, cycle>>

Rescore(j) ==
  /\ Edit
  /\ job[j].intake = "scored" /\ ~job[j].archived
  /\ job' = [job EXCEPT ![j].intake = "pending"]
  /\ UNCHANGED <<task, cycle>>

AnalysisEnds(j) ==
  /\ job[j].intake = "pending"
  /\ \E score \in Scores, blocked \in BOOLEAN :
       job' = [job EXCEPT ![j].intake = "scored", ![j].score = score,
                          ![j].blocked = blocked]
  /\ UNCHANGED <<task, cycle, edits, expired>>

\* clear_demo_jobs: the task goes with its job.
Delete(j) ==
  /\ Edit
  /\ job[j].intake /= "absent"
  /\ job' = [job EXCEPT ![j].intake = "absent"]
  /\ task' = [task EXCEPT ![j] = NoTask]
  /\ UNCHANGED cycle

\* retry_job requeues a failed task, whatever the capacity.
Retry(j) ==
  /\ Edit
  /\ task[j].status = "failed"
  /\ task' = [task EXCEPT ![j].status = "queued", ![j].again = TRUE]
  /\ UNCHANGED <<job, cycle>>

\* Queue 2, as in PacketQueue.  A worker claims a task and starts it.
Claim(j) ==
  /\ task[j].status = "queued"
  /\ task' = [task EXCEPT ![j].status = "running", ![j].workers = @ + 1]
  /\ UNCHANGED <<job, cycle, edits, expired>>

\* complete_packet_attempt asks whether the task is running, not for how long nor by
\* whom; fail_packet_attempt, also after a completion that came too late, asks nothing.
EndTask(j) ==
  /\ task[j].workers > 0
  /\ \E ending \in {"ready", "failed"} :
       /\ ending = "ready" => task[j].status \in {"running", "stale"}
       /\ task' = [task EXCEPT ![j].status = ending, ![j].workers = @ - 1]
  /\ UNCHANGED <<job, cycle, edits, expired>>

\* The lease runs out: the worker is dead, or slow and still at work.
ExpireLease(j) ==
  /\ expired < MaxExpired
  /\ task[j].status = "running"
  /\ task' = [task EXCEPT ![j].status = "stale"]
  /\ expired' = expired + 1
  /\ UNCHANGED <<job, cycle, edits>>

\* A new UTC day: what was created, or is about to be written with the time
\* read before, is of yesterday.
Midnight ==
  /\ (\E j \in Jobs : task[j].today) \/ (\E t \in Threads : cycle[t].today)
  /\ task' = [j \in Jobs |-> [task[j] EXCEPT !.today = FALSE]]
  /\ cycle' = [t \in Threads |-> [cycle[t] EXCEPT !.today = FALSE]]
  /\ UNCHANGED <<job, edits, expired>>

-----------------------------------------------------------------------------
UserStep(j) ==
  \/ \E on \in BOOLEAN : Star(j, on)
  \/ SetPriority(j) \/ Archive(j) \/ Rescore(j) \/ Delete(j) \/ Retry(j)
  \/ \E t \in Threads : GenerateNow(t, j)

\* A worker takes the task on, or brings it to an end within its lease.
TaskStep(j) == Claim(j) \/ (task[j].status = "running" /\ EndTask(j))

Next ==
  \/ \E t \in Threads : Promote(t)
  \/ \E j \in Jobs :
       UserStep(j) \/ AnalysisEnds(j) \/ Claim(j) \/ EndTask(j) \/ ExpireLease(j)
  \/ Midnight

Spec == Init /\ [][Next]_vars

\* The promotion loop runs a cycle every interval, a request is carried out,
\* the workers poll and end what they run, and days pass.  A worker whose lease
\* ran out may do anything, or nothing.
Fairness ==
  /\ \A t \in Threads : WF_vars(Promote(t))
  /\ \A j \in Jobs : WF_vars(TaskStep(j)) /\ WF_vars(AnalysisEnds(j))
  /\ WF_vars(Midnight)

FairSpec == Spec /\ Fairness

-----------------------------------------------------------------------------
\* Properties.

\* However the cycles overlap, their unfinished tasks reach the capacity at most
\* once per thread that can run a cycle: a cycle never promotes more than the
\* room it read.  On top come what users generated, and the tasks that came back
\* after they had ended: by a user's retry, or by a recovery that had read them as
\* stale before a late worker ended them.  Nothing in the code bounds those.
CapacityHolds ==
  LET unfinished == {j \in Jobs : task[j].status \notin {"none", "ready", "failed"}} IN
  Cardinality({j \in unfinished : ~task[j].manual /\ ~task[j].again})
    <= Capacity * Cardinality(Threads)

\* The automatic promotions of a day exceed the budget at most once per thread,
\* also for a cycle that midnight interrupts.
BudgetHolds ==
  Cardinality({j \in Jobs : task[j].today /\ ~task[j].manual})
    <= Budget * Cardinality(Threads)

\* The dashboard's eligibility and the scheduler's selection are two pieces of
\* code for one policy: of a job without a task the dashboard says "eligible"
\* exactly when a cycle that selects now would promote it.
EligibilityAgrees ==
  \A j \in Jobs : job[j].intake /= "absent" /\ ~HasTask(j) =>
    (Selectable(j) /\ Deserving(j)
       <=> Eligibility(j) \in {"eligible", "eligible_manual_priority"})

\* A job that stays eligible is promoted in the end, although a cycle gives up
\* at the first job that someone archived, rescored or deleted meanwhile.
EligibleIsPromoted ==
  \A j \in Jobs : Selectable(j) /\ Deserving(j) ~> HasTask(j) \/ ~Selectable(j) \/ ~Deserving(j)
=============================================================================
