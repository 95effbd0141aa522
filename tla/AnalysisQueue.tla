---------------------------- MODULE AnalysisQueue ----------------------------
(***************************************************************************)
(* Queue 1: the intake_status of a job, its analysis_runs and job_scores,  *)
(* the workers that capture, analyse and score it, and the API threads     *)
(* that capture, re-score, retry, archive and delete it.  A re-score runs  *)
(* the second half of the worker's program in the API thread.              *)
(*                                                                         *)
(* As in PacketQueue, what a Repository method reads before its first      *)
(* write is a step of its own and may be stale in the step that writes.    *)
(***************************************************************************)
EXTENDS Integers, FiniteSets, Sequences, Statuses

CONSTANTS
  Jobs,        \* normalized URLs; each is captured at most once
  Workers,     \* loops and requests that call Queue1Worker.process_next
  Clients,     \* API threads
  NoJob,       \* the absent job id
  Reposts,     \* the jobs that carry the same posting
  MaxRuns,     \* bound of the model: no user starts another run of a job
  Operations,  \* the requests the clients of this instance make
  Crashes      \* TRUE: processes die and exceptions end iterations

ASSUME NoJobAssumption == NoJob \notin Jobs
ASSUME RepostsAssumption == Reposts \subseteq Jobs
ASSUME BoundAssumption == MaxRuns \in Nat /\ Crashes \in BOOLEAN

VARIABLES
  rows,      \* jobs that have a row
  born,      \* the rank of a job's capture, the ORDER BY created_at; 0: none
  intake,    \* jobs.intake_status
  archived,  \* jobs.archived_at IS NOT NULL
  runs,      \* analysis_runs.status of a job's runs, oldest first
  current,   \* jobs.current_analysis_run_id, as an index into runs
  scores,    \* job_scores of a job: the run of each, oldest first
  printed,   \* jobs whose fingerprint, company and title are stored
  warned,    \* jobs with a duplicate_warning
  thread     \* where a worker or an API thread is, and what it has read

jobVars == <<rows, born, intake, archived, printed, warned>>
runVars == <<runs, current>>
vars == <<jobVars, runVars, scores, thread>>

Threads == Workers \cup Clients

RunStatuses == {"queued", "running", "complete", "failed"}
Steps == {"idle", "capture", "start", "retry", "mark", "marking", "validate",
          "apply", "save", "saving", "end", "ending", "compare", "flag"}

Idle == [at |-> "idle", job |-> NoJob, goal |-> "queued", run |-> 0,
         print |-> FALSE]

Init ==
  /\ rows = {}
  /\ born = [j \in Jobs |-> 0]
  /\ intake = [j \in Jobs |-> "raw_added"]
  /\ archived = [j \in Jobs |-> FALSE]
  /\ runs = [j \in Jobs |-> <<>>]
  /\ current = [j \in Jobs |-> 0]
  /\ scores = [j \in Jobs |-> <<>>]
  /\ printed = {}
  /\ warned = {}
  /\ thread = [t \in Threads |-> Idle]

-----------------------------------------------------------------------------
Free(t) == thread[t].at = "idle"
At(t, step) == thread[t].at = step
JobOf(t) == thread[t].job
Offered(op) == op \in Operations

Continue(t, state) == thread' = [thread EXCEPT ![t] = state]
Goto(t, step) == thread' = [thread EXCEPT ![t].at = step]
Pursue(t, goal) == thread' = [thread EXCEPT ![t].at = "validate", ![t].goal = goal]
Found(t, run, step) == thread' = [thread EXCEPT ![t].at = step, ![t].run = run]

\* The call returns, or an exception leaves it.
Drop(t) == Continue(t, Idle)

RunsIn(j, statuses) == {i \in DOMAIN runs[j] : runs[j][i] \in statuses}
ActiveRuns(j) == RunsIn(j, {"queued", "running"})

\* A SELECT ... LIMIT 1 over runs that are at most one: its index, 0 for none.
Only(found) == IF found = {} THEN 0 ELSE CHOOSE i \in found : TRUE

\* _insert_analysis_run and the update of current_analysis_run_id.  The partial
\* unique index over active runs rejects a second one: see the callers' guards.
InsertRun(j, status) ==
  /\ runs' = [runs EXCEPT ![j] = Append(runs[j], status)]
  /\ current' = [current EXCEPT ![j] = Len(runs[j]) + 1]

\* UPDATE analysis_runs SET status = ... WHERE id = ...: no effect without a row.
SetRun(j, i, status) ==
  runs' = [runs EXCEPT ![j] = [k \in DOMAIN runs[j] |->
                                 IF k = i THEN status ELSE runs[j][k]]]

-----------------------------------------------------------------------------
\* Queue1Worker.process_next and Queue1Worker.rescore.

\* next_job_with_intake_status("queued").
Waiting == {j \in rows : intake[j] = "queued" /\ ~archived[j]}

Select(t) ==
  /\ t \in Workers /\ Free(t)
  /\ \E j \in Waiting :
       /\ \A k \in Waiting : born[j] <= born[k]
       /\ Continue(t, [Idle EXCEPT !.at = "mark", !.job = j, !.goal = "extracting"])
  /\ UNCHANGED <<jobVars, runVars, scores>>

\* mark_analysis_run_running, its SELECTs.
MarkRead(t) ==
  LET queued == RunsIn(JobOf(t), {"queued"}) IN
  /\ At(t, "mark")
  /\ IF JobOf(t) \in rows THEN Found(t, Only(queued), "marking") ELSE Drop(t)
  /\ UNCHANGED <<jobVars, runVars, scores>>

\* mark_analysis_run_running, the transaction: the queued run it found becomes
\* running whatever it is by now, without one a running run is inserted.  Either
\* way an IntegrityError ends the call when another run of the job is active.
MarkWrite(t) ==
  LET j == JobOf(t)
      run == thread[t].run
      rejected == (run = 0 /\ j \notin rows) \/ ~(ActiveRuns(j) \subseteq {run})
  IN
  /\ At(t, "marking")
  /\ \/ /\ rejected
        /\ Drop(t)
        /\ UNCHANGED runVars
     \/ /\ ~rejected
        /\ IF run = 0 THEN InsertRun(j, "running")
                      ELSE SetRun(j, run, "running") /\ UNCHANGED current
        /\ Goto(t, "validate")
  /\ UNCHANGED <<jobVars, scores>>

\* transition_intake, the guard read before the transaction.
TransitionRead(t) ==
  LET j == JobOf(t) IN
  /\ At(t, "validate")
  /\ IF j \in rows /\ ValidIntakeTransition(intake[j], thread[t].goal)
     THEN Goto(t, "apply") ELSE Drop(t)
  /\ UNCHANGED <<jobVars, runVars, scores>>

\* Mutants: the job is marked scored before its score is saved; a scoring error
\* ends the call.
FollowScoresLate(t, goal) ==
  CASE goal = "extracting"  -> Pursue(t, "structuring")
    [] goal = "structuring" -> Pursue(t, "scoring")
    [] goal = "scoring"     -> Pursue(t, "scored")
    [] goal = "scored"      -> Goto(t, "save")
    [] OTHER                -> Drop(t)
FollowWithoutHandler(t, goal) ==
  CASE goal = "extracting"  -> Pursue(t, "structuring")
    [] goal = "structuring" -> Pursue(t, "scoring")
    [] goal = "scoring"     -> Goto(t, "save") \/ Drop(t)
    [] goal = "scored"      -> Goto(t, "end")
    [] OTHER                -> Drop(t)

\* What follows a transition in process_next and _score_job: the quality band
\* of the extraction decides after structuring, and scoring raises or not.
Follow(t, goal) ==
  CASE goal = "extracting"  -> Pursue(t, "structuring")
    [] goal = "structuring" -> \E next \in {"failed", "manual_review", "scoring"} :
                                 Pursue(t, next)
    [] goal = "scoring"     ->
         \/ Goto(t, "save")
         \/ thread' = [thread EXCEPT ![t].at = "end", ![t].goal = "failed"]
    [] goal = "scored"      -> Goto(t, "end")
    [] OTHER                -> Drop(t)

\* transition_intake, the transaction; the structuring step stores what the
\* extraction found.  A row deleted meanwhile raises JobNotFoundError.
TransitionWrite(t) ==
  LET j == JobOf(t)
      goal == thread[t].goal
  IN
  /\ At(t, "apply")
  /\ IF j \in rows
     THEN /\ intake' = [intake EXCEPT ![j] = goal]
          /\ printed' = IF goal = "structuring" THEN printed \cup {j} ELSE printed
          /\ Follow(t, goal)
     ELSE Drop(t) /\ UNCHANGED <<intake, printed>>
  /\ UNCHANGED <<rows, born, archived, warned, runVars, scores>>

\* get_job at the head of _score_job, and the job row that save_scoring_result
\* reads for its current_analysis_run_id.
SaveRead(t) ==
  LET j == JobOf(t) IN
  /\ At(t, "save")
  /\ IF j \in rows
     THEN thread' = [thread EXCEPT ![t].at = "saving", ![t].run = current[j],
                                   ![t].print = j \in printed]
     ELSE Drop(t)
  /\ UNCHANGED <<jobVars, runVars, scores>>

\* Mutant: foreign keys are not enforced.
SaveWriteOrphan(t) ==
  LET j == JobOf(t) IN
  /\ At(t, "saving")
  /\ scores' = [scores EXCEPT ![j] = Append(scores[j], thread[t].run)]
  /\ Pursue(t, "scored")
  /\ UNCHANGED <<jobVars, runVars>>

\* save_scoring_result, the transaction: the foreign key rejects a deleted job.
SaveWrite(t) ==
  LET j == JobOf(t) IN
  /\ At(t, "saving")
  /\ IF j \in rows
     THEN /\ scores' = [scores EXCEPT ![j] = Append(scores[j], thread[t].run)]
          /\ Pursue(t, "scored")
     ELSE Drop(t) /\ UNCHANGED scores
  /\ UNCHANGED <<jobVars, runVars>>

\* complete_analysis_run and fail_analysis_run, their SELECT of the active run.
EndRead(t) ==
  /\ At(t, "end")
  /\ Found(t, Only(ActiveRuns(JobOf(t))), "ending")
  /\ UNCHANGED <<jobVars, runVars, scores>>

\* complete_analysis_run and fail_analysis_run, the UPDATE of the run read.
EndWrite(t) ==
  LET failing == thread[t].goal = "failed" IN
  /\ At(t, "ending")
  /\ SetRun(JobOf(t), thread[t].run, IF failing THEN "failed" ELSE "complete")
  /\ Goto(t, IF failing THEN "validate" ELSE "compare")
  /\ UNCHANGED <<jobVars, current, scores>>

\* Mutant: only older jobs are compared.
CompareOlder(t) ==
  LET twins == {k \in rows \cap printed \cap Reposts : born[k] < born[JobOf(t)]} IN
  /\ At(t, "compare")
  /\ IF thread[t].print /\ JobOf(t) \in Reposts /\ twins /= {}
     THEN Goto(t, "flag") ELSE Drop(t)
  /\ UNCHANGED <<jobVars, runVars, scores>>

\* find_probable_duplicate on the job as it was read before scoring.
Compare(t) ==
  LET twins == {k \in rows \cap printed \cap Reposts : k /= JobOf(t)} IN
  /\ At(t, "compare")
  /\ IF thread[t].print /\ JobOf(t) \in Reposts /\ twins /= {}
     THEN Goto(t, "flag") ELSE Drop(t)
  /\ UNCHANGED <<jobVars, runVars, scores>>

\* set_duplicate_warning.
Flag(t) ==
  /\ At(t, "flag")
  /\ warned' = warned \cup ({JobOf(t)} \cap rows)
  /\ Drop(t)
  /\ UNCHANGED <<rows, born, intake, archived, printed, runVars, scores>>

Crash(t) ==
  /\ Crashes
  /\ ~Free(t)
  /\ Drop(t)
  /\ UNCHANGED <<jobVars, runVars, scores>>

-----------------------------------------------------------------------------
\* The API threads.

Ask(c, step, j) == Continue(c, [Idle EXCEPT !.at = step, !.job = j])

\* create_or_get_job, its SELECT; an existing row is returned unchanged.
CaptureRead(c, j) ==
  /\ Free(c)
  /\ born[j] = 0
  /\ Ask(c, "capture", j)
  /\ UNCHANGED <<jobVars, runVars, scores>>

\* create_or_get_job, the transaction: a job inserted meanwhile violates
\* UNIQUE(normalized_url).
CaptureWrite(c) ==
  LET j == JobOf(c) IN
  /\ At(c, "capture")
  /\ IF born[j] = 0
     THEN /\ rows' = rows \cup {j}
          /\ born' = [born EXCEPT ![j] = 1 + Cardinality({k \in Jobs : born[k] /= 0})]
          /\ intake' = [intake EXCEPT ![j] = "queued"]
          /\ InsertRun(j, "queued")
     ELSE UNCHANGED <<rows, born, intake, runVars>>
  /\ Drop(c)
  /\ UNCHANGED <<archived, printed, warned, scores>>

MayRun(j) == j \in rows /\ Len(runs[j]) < MaxRuns

\* start_analysis_run, the insertion, and rescore in the same thread.
Enqueue(c, j) ==
  /\ InsertRun(j, "queued")
  /\ intake' = [intake EXCEPT ![j] = "queued"]
  /\ Continue(c, [Idle EXCEPT !.at = "mark", !.job = j, !.goal = "scoring"])

\* start_analysis_run, its SELECTs: an archived job raises, and an active run is
\* returned as it is.
StartRead(c, j) ==
  /\ Offered("rescore")
  /\ Free(c)
  /\ MayRun(j)
  /\ ~archived[j]
  /\ ActiveRuns(j) = {}
  /\ Ask(c, "start", j)
  /\ UNCHANGED <<jobVars, runVars, scores>>

\* Mutant: there is no unique index over the active runs.
StartWriteUnindexed(c) ==
  /\ At(c, "start")
  /\ JobOf(c) \in rows
  /\ Enqueue(c, JobOf(c))
  /\ UNCHANGED <<rows, born, archived, printed, warned, scores>>

\* start_analysis_run, the transaction.
StartWrite(c) ==
  LET j == JobOf(c) IN
  /\ At(c, "start")
  /\ IF j \in rows /\ ActiveRuns(j) = {}
     THEN Enqueue(c, j)
     ELSE Drop(c) /\ UNCHANGED <<intake, runVars>>
  /\ UNCHANGED <<rows, born, archived, printed, warned, scores>>

\* start_analysis_run with restore, on an archived job: its first statement
\* writes, and all the rest is in that transaction.
RestoreAndStart(c, j) ==
  /\ Offered("rescore")
  /\ Free(c)
  /\ MayRun(j)
  /\ archived[j]
  /\ archived' = [archived EXCEPT ![j] = FALSE]
  /\ IF ActiveRuns(j) = {}
     THEN Enqueue(c, j)
     ELSE UNCHANGED <<intake, runVars, thread>>
  /\ UNCHANGED <<rows, born, printed, warned, scores>>

\* retry_job, its guard on the intake branch.
RetryRead(c, j) ==
  /\ Offered("retry")
  /\ Free(c)
  /\ MayRun(j)
  /\ intake[j] \in Retryable
  /\ Ask(c, "retry", j)
  /\ UNCHANGED <<jobVars, runVars, scores>>

\* retry_job, the transaction: no run is created or touched.
RetryWrite(c) ==
  /\ At(c, "retry")
  /\ intake' = IF JobOf(c) \in rows THEN [intake EXCEPT ![JobOf(c)] = "queued"]
               ELSE intake
  /\ Drop(c)
  /\ UNCHANGED <<rows, born, archived, printed, warned, runVars, scores>>

\* archive_job and restore_job.
Archive(j) ==
  /\ Offered("archive")
  /\ j \in rows
  /\ archived' = [archived EXCEPT ![j] = ~archived[j]]
  /\ UNCHANGED <<rows, born, intake, printed, warned, runVars, scores, thread>>

\* delete_or_archive_job and clear_demo_jobs on a demo or test job: its runs and
\* scores go with it.
Delete(j) ==
  /\ Offered("delete")
  /\ j \in rows
  /\ rows' = rows \ {j}
  /\ intake' = [intake EXCEPT ![j] = "raw_added"]
  /\ archived' = [archived EXCEPT ![j] = FALSE]
  /\ runs' = [runs EXCEPT ![j] = <<>>]
  /\ current' = [current EXCEPT ![j] = 0]
  /\ scores' = [scores EXCEPT ![j] = <<>>]
  /\ printed' = printed \ {j}
  /\ warned' = warned \ {j}
  /\ UNCHANGED <<born, thread>>

-----------------------------------------------------------------------------
Analyse(t) ==
  \/ Select(t)
  \/ MarkRead(t) \/ MarkWrite(t)
  \/ TransitionRead(t) \/ TransitionWrite(t)
  \/ SaveRead(t) \/ SaveWrite(t)
  \/ EndRead(t) \/ EndWrite(t)
  \/ Compare(t) \/ Flag(t)

Answer(c) == CaptureWrite(c) \/ StartWrite(c) \/ RetryWrite(c)

Request(c, j) ==
  CaptureRead(c, j) \/ StartRead(c, j) \/ RestoreAndStart(c, j) \/ RetryRead(c, j)

Next ==
  \/ \E t \in Threads : Analyse(t) \/ Crash(t)
  \/ \E c \in Clients : Answer(c) \/ \E j \in Jobs : Request(c, j)
  \/ \E j \in Jobs : Archive(j) \/ Delete(j)

Spec == Init /\ [][Next]_vars

\* A worker polls its queue and a call once begun runs to its end.
Fairness ==
  /\ \A t \in Threads : WF_vars(Analyse(t))
  /\ \A c \in Clients : WF_vars(Answer(c))

FairSpec == Spec /\ Fairness

-----------------------------------------------------------------------------
\* Properties.

States == [at : Steps, job : Jobs \cup {NoJob}, goal : IntakeStatuses,
           run : Nat, print : BOOLEAN]

\* Every variable keeps its type, a thread at work names a job, and only jobs
\* with a row have runs and scores.
TypeOK ==
  /\ rows \in SUBSET Jobs
  /\ born \in [Jobs -> Nat]
  /\ intake \in [Jobs -> IntakeStatuses]
  /\ archived \in [Jobs -> BOOLEAN]
  /\ runs \in [Jobs -> Seq(RunStatuses)]
  /\ current \in [Jobs -> Nat]
  /\ scores \in [Jobs -> Seq(Nat)]
  /\ printed \in SUBSET rows
  /\ warned \in SUBSET rows
  /\ thread \in [Threads -> States]
  /\ \A t \in Threads : Free(t) \/ JobOf(t) \in Jobs
  /\ \A j \in Jobs \ rows : runs[j] = <<>> /\ current[j] = 0 /\ scores[j] = <<>>

\* A job is scored only with a score: promotion and Queue 2 read it.
ScoredHasScore == \A j \in rows : intake[j] = "scored" => scores[j] /= <<>>

\* A job has at most one active run, the one that a repeated request returns.
OneActiveRun == \A j \in rows : Cardinality(ActiveRuns(j)) <= 1

\* Of two jobs with the same posting that were both scored, one is flagged as a
\* probable duplicate, whichever way the two analyses interleave.
Attended(j) == \E t \in Threads : JobOf(t) = j
RepostsAreFlagged ==
  \A j, k \in Reposts \cap rows :
    j /= k /\ intake[j] = "scored" /\ intake[k] = "scored"
      /\ ~Attended(j) /\ ~Attended(k) => {j, k} \cap warned /= {}

\* A job queued for analysis is analysed, archived or deleted in the end: no
\* interleaving leaves it in the middle of its analysis with nobody at work on it.
JobsAreAnalysed ==
  \A j \in Jobs : j \in rows /\ intake[j] = "queued" ~>
    j \notin rows \/ archived[j] \/ intake[j] \in {"scored", "failed", "manual_review"}
=============================================================================
