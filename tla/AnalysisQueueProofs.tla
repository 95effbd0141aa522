------------------------- MODULE AnalysisQueueProofs -------------------------
(***************************************************************************)
(* Theorems about AnalysisQueue, for any jobs, workers, clients and        *)
(* reposts, with crashes or without: its types, one active run of a job at *)
(* most, and no scored job without a score; and, without crashes, that of  *)
(* two scored reposts one carries the warning.                             *)
(***************************************************************************)
EXTENDS AnalysisQueue, FiniteSetTheorems, TLAPS

tables == <<rows, born, intake, archived, printed, warned, runs, current, scores>>


TableTypes ==
  /\ rows \in SUBSET Jobs
  /\ born \in [Jobs -> Nat]
  /\ intake \in [Jobs -> IntakeStatuses]
  /\ archived \in [Jobs -> BOOLEAN]
  /\ runs \in [Jobs -> Seq(RunStatuses)]
  /\ current \in [Jobs -> Nat]
  /\ scores \in [Jobs -> Seq(Nat)]
  /\ printed \in SUBSET rows
  /\ warned \in SUBSET rows
  /\ \A j \in Jobs \ rows : runs[j] = <<>> /\ current[j] = 0 /\ scores[j] = <<>>

\* Two active runs of a job are one: OneActiveRun without counting.
OneRun == \A j \in Jobs : \A a, b \in ActiveRuns(j) : a = b

\* The jobs captured so far are finitely many, and every row is one of them.
Born == {k \in Jobs : born[k] /= 0}
RowsAreBorn == rows \subseteq Born /\ IsFiniteSet(Born)

Tables == TableTypes /\ OneRun /\ RowsAreBorn /\ ScoredHasScore

\* What the tables owe a thread in state s.  The job it works on was captured,
\* and a capture is never undone, so a deleted job does not come back; before it
\* calls the job scored it saved a score; and when it has yet to mark a run it
\* has not got so far.
Fits(s) ==
  /\ s \in States
  /\ s.at = "idle" \/ s.job \in Jobs
  /\ s.at \in {"idle", "capture"} \/ s.job \in Born
  /\ s.at \in {"validate", "apply"} /\ s.goal = "scored" /\ s.job \in rows =>
       scores[s.job] /= <<>>
  /\ s.at \in {"mark", "marking"} => s.goal /= "scored"

\* The inductive invariant.
IInv ==
  /\ Tables
  /\ thread \in [Threads -> States]
  /\ \A t \in Threads : Fits(thread[t])

-----------------------------------------------------------------------------
\* Lemmas about steps in general.

\* A step under which the tables go on owing a thread no more than they hold: a
\* captured job stays captured, gets no row again, and loses scores only with it.
Keeps ==
  \A k \in Born : k \in Born' /\ (k \in rows' => k \in rows)
                   /\ (k \in rows' /\ scores[k] /= <<>> => scores'[k] /= <<>>)

LEMMA FitsIsKept ==
  ASSUME Tables, Tables', Keeps, NEW s, Fits(s)
  PROVE  Fits(s)'
BY DEF Fits, Keeps, Tables, TableTypes, States

\* A step that changes the tables, or not, and moves one thread.
LEMMA ThreadMoves ==
  ASSUME IInv, Tables', Keeps, NEW t \in Threads, NEW s, Fits(s)', Continue(t, s)
  PROVE  IInv'
<1>1. s \in States
  BY DEF Fits, States
<1>2. thread' \in [Threads -> States] /\ thread'[t] = s
  BY <1>1 DEF Continue, IInv
<1>3. ASSUME NEW u \in Threads
      PROVE  Fits(thread[u])'
  <2>1. CASE u = t
    BY <1>2, <2>1 DEF Fits, Born
  <2>2. CASE u /= t
    <3>1. thread'[u] = thread[u]
      BY <2>2 DEF Continue, IInv
    <3>2. \A r : Fits(r) => Fits(r)'
      BY FitsIsKept DEF IInv
    <3> QED BY <3>1, <3>2 DEF IInv, Fits, Born
  <2> QED BY <2>1, <2>2
<1> QED BY <1>2, <1>3 DEF IInv

\* A step that only moves a thread.
LEMMA OnlyThreadMoves ==
  ASSUME IInv, UNCHANGED tables, NEW t \in Threads, NEW s, Fits(s), Continue(t, s)
  PROVE  IInv'
<1>1. Tables'
  BY DEF IInv, Tables, TableTypes, OneRun, ActiveRuns, RunsIn, RowsAreBorn, Born,
         ScoredHasScore, tables
<1>2. Keeps
  BY DEF Keeps, tables, Born
<1>3. Fits(s)'
  BY DEF Fits, tables, Born, States
<1> QED BY <1>1, <1>2, <1>3, ThreadMoves

\* A crash, the end of a call and an exception leave the thread idle.
LEMMA DropFits ==
  ASSUME NEW t
  PROVE  Drop(t) <=> Continue(t, Idle)
BY DEF Drop

LEMMA IdleFits == Fits(Idle) /\ Fits(Idle)'
BY DEF Fits, Idle, States, Steps, IntakeStatuses

\* A thread that moves from one step of its program to another.
LEMMA StepFits ==
  ASSUME NEW s, Fits(s), s.at \notin {"idle", "capture"}, NEW step \in Steps,
         step \in {"mark", "marking"} => s.at \in {"mark", "marking"},
         step \in {"validate", "apply"} =>
           s.at \in {"validate", "apply"} \/ s.goal /= "scored"
  PROVE  Fits([s EXCEPT !.at = step])
BY DEF Fits, States, Steps

LEMMA FoundFits ==
  ASSUME NEW s, Fits(s), s.at \notin {"idle", "capture"},
         NEW step \in Steps \ {"validate", "apply"}, NEW run \in Nat,
         step \in {"mark", "marking"} => s.at \in {"mark", "marking"}
  PROVE  Fits([s EXCEPT !.at = step, !.run = run])
BY DEF Fits, States, Steps

LEMMA PursueFits ==
  ASSUME NEW s, Fits(s), s.at \notin {"idle", "capture"},
         NEW goal \in IntakeStatuses, NEW step \in {"validate", "end"},
         goal = "scored" /\ step = "validate" /\ s.job \in rows => scores[s.job] /= <<>>
  PROVE  Fits([s EXCEPT !.at = step, !.goal = goal])
BY DEF Fits, States, Steps

\* A request begins: the job is one that was captured, or is to be captured.
LEMMA AskFits ==
  ASSUME NEW j \in Jobs, NEW step \in Steps, NEW goal \in IntakeStatuses \ {"scored"},
         step \in {"idle", "capture"} \/ j \in Born
  PROVE  /\ Fits([Idle EXCEPT !.at = step, !.job = j, !.goal = goal])
         /\ step \notin {"mark", "marking"} => Fits([Idle EXCEPT !.at = step, !.job = j])
BY DEF Fits, Idle, States, Steps, IntakeStatuses

LEMMA RunsAreNumbered ==
  ASSUME TableTypes, NEW j \in Jobs, NEW statuses
  PROVE  RunsIn(j, statuses) \subseteq Nat \ {0} /\ Only(RunsIn(j, statuses)) \in Nat
<1>1. RunsIn(j, statuses) \subseteq Nat \ {0}
  BY DEF RunsIn, TableTypes
<1> QED BY <1>1 DEF Only

-----------------------------------------------------------------------------
\* The helpers that write a job's runs.

\* _insert_analysis_run adds one run.
LEMMA RunIsInserted ==
  ASSUME TableTypes, NEW j \in Jobs, NEW status \in RunStatuses, InsertRun(j, status)
  PROVE  /\ runs' \in [Jobs -> Seq(RunStatuses)] /\ current' \in [Jobs -> Nat]
         /\ \A k \in Jobs : k /= j => runs'[k] = runs[k] /\ current'[k] = current[k]
         /\ ActiveRuns(j)' \subseteq ActiveRuns(j) \cup {Len(runs[j]) + 1}
<1>1. /\ runs'[j] = Append(runs[j], status)
      /\ \A k \in Jobs : k /= j => runs'[k] = runs[k] /\ current'[k] = current[k]
      /\ Append(runs[j], status) \in Seq(RunStatuses)
  BY DEF InsertRun, TableTypes
<1>2. ActiveRuns(j)' \subseteq ActiveRuns(j) \cup {Len(runs[j]) + 1}
  BY <1>1 DEF ActiveRuns, RunsIn, TableTypes
<1> QED BY <1>1, <1>2 DEF InsertRun, TableTypes

\* An UPDATE of a run's status changes no other run.
LEMMA RunIsSet ==
  ASSUME TableTypes, NEW j \in Jobs, NEW i \in Nat,
         NEW status \in RunStatuses, SetRun(j, i, status)
  PROVE  /\ runs' \in [Jobs -> Seq(RunStatuses)]
         /\ \A k \in Jobs : k /= j => runs'[k] = runs[k]
         /\ ActiveRuns(j)' \subseteq ActiveRuns(j) \cup {i}
         /\ status \notin {"queued", "running"} => ActiveRuns(j)' \subseteq ActiveRuns(j)
         /\ runs[j] = <<>> => runs'[j] = <<>>
<1> DEFINE new == [k \in DOMAIN runs[j] |-> IF k = i THEN status ELSE runs[j][k]]
<1>1. new \in Seq(RunStatuses)
  <2>1. new \in [1..Len(runs[j]) -> RunStatuses] /\ Len(runs[j]) \in Nat
    BY DEF TableTypes
  <2> QED BY <2>1
<1>2. runs'[j] = new /\ \A k \in Jobs : k /= j => runs'[k] = runs[k]
  BY DEF SetRun, TableTypes
<1>3. DOMAIN new = DOMAIN runs[j]
      /\ \A k \in DOMAIN runs[j] : new[k] = IF k = i THEN status ELSE runs[j][k]
  OBVIOUS
<1>4. runs[j] = <<>> => new = <<>>
  BY <1>1, <1>3
<1>5. runs' \in [Jobs -> Seq(RunStatuses)]
  BY <1>1 DEF SetRun, TableTypes
<1> HIDE DEF new
<1>6. /\ ActiveRuns(j)' \subseteq ActiveRuns(j) \cup {i}
      /\ status \notin {"queued", "running"} => ActiveRuns(j)' \subseteq ActiveRuns(j)
  BY <1>2, <1>3 DEF ActiveRuns, RunsIn
<1> QED BY <1>2, <1>4, <1>5, <1>6

\* A step that rewrites the runs of one job leaves at most one of a job active
\* if it leaves one of that job.
LEMMA OneRunIsKept ==
  ASSUME OneRun, NEW j \in Jobs,
         \A k \in Jobs : k /= j => runs'[k] = runs[k],
         \A a, b \in ActiveRuns(j)' : a = b
  PROVE  OneRun'
<1> SUFFICES ASSUME NEW k \in Jobs, NEW a \in ActiveRuns(k)', NEW b \in ActiveRuns(k)'
             PROVE  a = b
  BY DEF OneRun
<1>1. CASE k = j
  BY <1>1
<1>2. CASE k /= j
  BY <1>2 DEF OneRun, ActiveRuns, RunsIn
<1> QED BY <1>1, <1>2

-----------------------------------------------------------------------------
\* The steps of an analysis.

LEMMA DropsKeep ==
  ASSUME IInv, UNCHANGED tables, NEW t \in Threads, Drop(t)
  PROVE  IInv'
BY DropFits, IdleFits, OnlyThreadMoves

\* The steps that read: only the thread changes.
LEMMA ReadsKeep ==
  ASSUME IInv, NEW t \in Threads,
         \/ Select(t) \/ MarkRead(t) \/ TransitionRead(t) \/ SaveRead(t)
         \/ EndRead(t) \/ Compare(t)
  PROVE  IInv'
<1> DEFINE s == thread[t]
<1> USE DEF At, JobOf
<1>1. Fits(s) /\ s \in States /\ TableTypes /\ RowsAreBorn
  BY DEF IInv, Fits, Tables
<1>2. UNCHANGED tables
  BY DEF Select, MarkRead, TransitionRead, SaveRead, EndRead, Compare, jobVars,
         runVars, tables
<1>3. CASE Drop(t)
  BY <1>2, <1>3, DropsKeep
<1>4. CASE Select(t)
  <2>1. PICK j \in Waiting : Continue(t, [Idle EXCEPT !.at = "mark", !.job = j,
                                                      !.goal = "extracting"])
    BY <1>4 DEF Select
  <2>2. j \in Jobs /\ j \in Born
    BY <1>1 DEF Waiting, RowsAreBorn, TableTypes
  <2> QED BY <1>2, <2>1, <2>2, AskFits, OnlyThreadMoves DEF Steps, IntakeStatuses
<1>5. CASE MarkRead(t) /\ ~Drop(t)
  <2>1. s.at = "mark" /\ s.job \in Jobs
        /\ Found(t, Only(RunsIn(s.job, {"queued"})), "marking")
    BY <1>1, <1>5 DEF MarkRead, TableTypes
  <2>2. Only(RunsIn(s.job, {"queued"})) \in Nat
    BY <1>1, <2>1, RunsAreNumbered
  <2>3. Fits([s EXCEPT !.at = "marking", !.run = Only(RunsIn(s.job, {"queued"}))])
    BY <1>1, <2>1, <2>2, FoundFits DEF Steps
  <2> QED BY <1>2, <2>1, <2>3, OnlyThreadMoves DEF Found, Continue
<1>6. CASE TransitionRead(t) /\ ~Drop(t)
  <2>1. s.at = "validate" /\ Goto(t, "apply")
    BY <1>6 DEF TransitionRead
  <2>2. Fits([s EXCEPT !.at = "apply"])
    BY <1>1, <2>1, StepFits DEF Steps
  <2> QED BY <1>2, <2>1, <2>2, OnlyThreadMoves DEF Goto, Continue
<1>7. CASE SaveRead(t) /\ ~Drop(t)
  <2> DEFINE new == [s EXCEPT !.at = "saving", !.run = current[s.job],
                              !.print = s.job \in printed]
  <2>1. s.at = "save" /\ s.job \in Jobs /\ Continue(t, new)
    BY <1>1, <1>7 DEF SaveRead, TableTypes, Continue
  <2>2. Fits(new)
    <3>1. current[s.job] \in Nat /\ (s.job \in printed) \in BOOLEAN
      BY <1>1, <2>1 DEF TableTypes
    <3>2. \A run \in Nat, print \in BOOLEAN :
            Fits([s EXCEPT !.at = "saving", !.run = run, !.print = print])
      BY <1>1, <2>1 DEF Fits, States, Steps
    <3> QED BY <3>1, <3>2
  <2> QED BY <1>2, <2>1, <2>2, OnlyThreadMoves
<1>8. CASE EndRead(t)
  <2>1. s.at = "end" /\ s.job \in Jobs /\ Found(t, Only(ActiveRuns(s.job)), "ending")
    BY <1>1, <1>8 DEF EndRead, Fits
  <2>2. Only(ActiveRuns(s.job)) \in Nat
    BY <1>1, <2>1, RunsAreNumbered DEF ActiveRuns
  <2>3. Fits([s EXCEPT !.at = "ending", !.run = Only(ActiveRuns(s.job))])
    BY <1>1, <2>1, <2>2, FoundFits DEF Steps
  <2> QED BY <1>2, <2>1, <2>3, OnlyThreadMoves DEF Found, Continue
<1>9. CASE Compare(t) /\ ~Drop(t)
  <2>1. s.at = "compare" /\ Goto(t, "flag")
    BY <1>9 DEF Compare
  <2>2. Fits([s EXCEPT !.at = "flag"])
    BY <1>1, <2>1, StepFits DEF Steps
  <2> QED BY <1>2, <2>1, <2>2, OnlyThreadMoves DEF Goto, Continue
<1> QED BY <1>3, <1>4, <1>5, <1>6, <1>7, <1>8, <1>9

\* A step that writes and moves a thread to a state that the tables allowed.
LEMMA WriteMoves ==
  ASSUME IInv, Tables', Keeps, NEW t \in Threads, NEW s, Fits(s), Continue(t, s)
  PROVE  IInv'
BY FitsIsKept, ThreadMoves DEF IInv

\* mark_analysis_run_running: when it inserts no run was active, and when it
\* sets the run it read no other was.
LEMMA MarkKeeps ==
  ASSUME IInv, NEW t \in Threads, MarkWrite(t)
  PROVE  IInv'
<1>a. PICK s \in States, j \in Jobs : s = thread[t] /\ j = s.job
  BY DEF IInv, Fits, MarkWrite, At
<1>1. /\ Fits(s) /\ Tables /\ TableTypes /\ RowsAreBorn
      /\ s.at = "marking" /\ s.run \in Nat
  BY <1>a DEF IInv, Tables, MarkWrite, At, States
<1>2. CASE Drop(t) /\ UNCHANGED runVars
  BY <1>2, DropsKeep DEF MarkWrite, jobVars, runVars, tables
<1>3. CASE ~(Drop(t) /\ UNCHANGED runVars)
  <2>1. /\ Goto(t, "validate")
        /\ ~(s.run = 0 /\ j \notin rows) /\ ActiveRuns(j) \subseteq {s.run}
        /\ IF s.run = 0 THEN InsertRun(j, "running")
                        ELSE SetRun(j, s.run, "running") /\ UNCHANGED current
        /\ UNCHANGED <<rows, born, intake, archived, printed, warned, scores>>
    BY <1>a, <1>3 DEF MarkWrite, JobOf, jobVars
  <2>2. Fits([s EXCEPT !.at = "validate"])
    <3>1. s.goal /= "scored"
      BY <1>1 DEF Fits
    <3> QED BY <1>1, <3>1, StepFits DEF Steps
  <2>3. ActiveRuns(j) \subseteq Nat \ {0}
    BY <1>1, RunsAreNumbered DEF ActiveRuns
  <2>4. /\ runs' \in [Jobs -> Seq(RunStatuses)] /\ current' \in [Jobs -> Nat]
        /\ \A k \in Jobs : k /= j => runs'[k] = runs[k] /\ current'[k] = current[k]
        /\ j \notin rows => runs'[j] = <<>> /\ current'[j] = 0
        /\ \A a, b \in ActiveRuns(j)' : a = b
    <3>1. CASE s.run = 0
      <4>1. j \in rows /\ ActiveRuns(j) = {} /\ InsertRun(j, "running")
        BY <1>a, <2>1, <2>3, <3>1
      <4> QED BY <1>1, <4>1, RunIsInserted DEF RunStatuses
    <3>2. CASE s.run /= 0
      <4>1. SetRun(j, s.run, "running") /\ UNCHANGED current
        BY <2>1, <3>2
      <4>2. /\ runs' \in [Jobs -> Seq(RunStatuses)]
            /\ \A k \in Jobs : k /= j => runs'[k] = runs[k]
            /\ ActiveRuns(j)' \subseteq ActiveRuns(j) \cup {s.run}
            /\ runs[j] = <<>> => runs'[j] = <<>>
        BY <1>1, <4>1, RunIsSet DEF RunStatuses
      <4> QED BY <1>1, <2>1, <4>1, <4>2 DEF TableTypes
    <3> QED BY <3>1, <3>2
  <2>5. OneRun'
    BY <1>1, <2>4, OneRunIsKept DEF Tables
  <2>6. Tables'
    BY <1>1, <2>1, <2>4, <2>5 DEF Tables, TableTypes, RowsAreBorn, Born, ScoredHasScore
  <2>7. Keeps
    BY <2>1 DEF Keeps, Born
  <2> QED BY <1>a, <2>1, <2>2, <2>6, <2>7, WriteMoves DEF Goto, Continue
<1> QED BY <1>2, <1>3

\* transition_intake: a job becomes scored only by a thread that saved a score.
LEMMA TransitionKeeps ==
  ASSUME IInv, NEW t \in Threads, TransitionWrite(t)
  PROVE  IInv'
<1> DEFINE s == thread[t]
           j == s.job
<1>1. /\ Fits(s) /\ s \in States /\ Tables /\ TableTypes /\ RowsAreBorn
      /\ s.at = "apply" /\ j \in Jobs /\ s.goal \in IntakeStatuses
  BY DEF IInv, Fits, Tables, TransitionWrite, At, States
<1>2. UNCHANGED <<rows, born, archived, warned, runs, current, scores>>
  BY DEF TransitionWrite, runVars
<1>3. CASE j \notin rows
  BY <1>2, <1>3, DropsKeep DEF TransitionWrite, JobOf, tables
<1>4. CASE j \in rows
  <2>1. /\ intake' = [intake EXCEPT ![j] = s.goal]
        /\ printed' = IF s.goal = "structuring" THEN printed \cup {j} ELSE printed
        /\ Follow(t, s.goal)
    BY <1>4 DEF TransitionWrite, JobOf
  <2>2. Tables'
    <3>1. TableTypes'
      BY <1>1, <1>2, <1>4, <2>1 DEF TableTypes
    <3>2. ScoredHasScore'
      BY <1>1, <1>2, <1>4, <2>1 DEF ScoredHasScore, Tables, TableTypes, Fits
    <3> QED BY <1>1, <1>2, <3>1, <3>2
            DEF Tables, OneRun, ActiveRuns, RunsIn, RowsAreBorn, Born
  <2>3. Keeps
    BY <1>2 DEF Keeps, Born
  <2>4. \E r : Fits(r) /\ Continue(t, r)
    <3>1. ASSUME NEW goal \in IntakeStatuses \ {"scored"}, Pursue(t, goal)
          PROVE  \E r : Fits(r) /\ Continue(t, r)
      <4>1. Fits([s EXCEPT !.at = "validate", !.goal = goal])
        BY <1>1, PursueFits
      <4> QED BY <3>1, <4>1 DEF Pursue, Continue
    <3>2. ASSUME NEW step \in {"save", "end"}, Goto(t, step)
          PROVE  \E r : Fits(r) /\ Continue(t, r)
      <4>1. Fits([s EXCEPT !.at = step])
        BY <1>1, StepFits DEF Steps
      <4> QED BY <3>2, <4>1 DEF Goto, Continue
    <3>3. ASSUME thread' = [thread EXCEPT ![t].at = "end", ![t].goal = "failed"]
          PROVE  \E r : Fits(r) /\ Continue(t, r)
      <4>1. Fits([s EXCEPT !.at = "end", !.goal = "failed"])
        BY <1>1, PursueFits DEF IntakeStatuses
      <4> QED BY <3>3, <4>1 DEF Continue
    <3>4. CASE Drop(t)
      BY <3>4, DropFits, IdleFits
    <3>5. \/ \E goal \in IntakeStatuses \ {"scored"} : Pursue(t, goal)
          \/ \E step \in {"save", "end"} : Goto(t, step)
          \/ thread' = [thread EXCEPT ![t].at = "end", ![t].goal = "failed"]
          \/ Drop(t)
      BY <2>1 DEF Follow, IntakeStatuses
    <3> QED BY <3>1, <3>2, <3>3, <3>4, <3>5
  <2> QED BY <2>2, <2>3, <2>4, WriteMoves
<1> QED BY <1>3, <1>4

\* save_scoring_result adds a score before the thread goes on to "scored".
LEMMA SaveKeeps ==
  ASSUME IInv, NEW t \in Threads, SaveWrite(t)
  PROVE  IInv'
<1>a. PICK s \in States, j \in Jobs : s = thread[t] /\ j = s.job
  BY DEF IInv, Fits, SaveWrite, At
<1>1. /\ Fits(s) /\ Tables /\ TableTypes /\ RowsAreBorn
      /\ s.at = "saving" /\ s.run \in Nat
  BY <1>a DEF IInv, Tables, SaveWrite, At, States
<1>2. CASE j \notin rows
  BY <1>a, <1>2, DropsKeep DEF SaveWrite, JobOf, jobVars, runVars, tables
<1>3. CASE j \in rows
  <2> DEFINE new == [s EXCEPT !.at = "validate", !.goal = "scored"]
  <2>1. /\ scores' = [scores EXCEPT ![j] = Append(scores[j], s.run)]
        /\ Continue(t, new)
        /\ UNCHANGED <<rows, born, intake, archived, printed, warned, runs, current>>
    BY <1>a, <1>3 DEF SaveWrite, JobOf, jobVars, runVars, Pursue, Continue
  <2>2. /\ scores' \in [Jobs -> Seq(Nat)] /\ scores'[j] /= <<>>
        /\ \A k \in Jobs : k /= j => scores'[k] = scores[k]
    <3>1. Append(scores[j], s.run) \in Seq(Nat)
          /\ Len(Append(scores[j], s.run)) = Len(scores[j]) + 1
          /\ Len(scores[j]) \in Nat
      BY <1>1 DEF TableTypes
    <3>2. Append(scores[j], s.run) /= <<>>
      BY <3>1
    <3> QED BY <1>1, <2>1, <3>1, <3>2 DEF TableTypes
  <2>3. Tables'
    BY <1>1, <1>3, <2>1, <2>2 DEF Tables, TableTypes, OneRun, ActiveRuns, RunsIn,
       RowsAreBorn, Born, ScoredHasScore
  <2>4. Keeps
    BY <2>1, <2>2 DEF Keeps, Born
  <2>5. Fits(new)'
    BY <1>a, <1>1, <2>1, <2>2 DEF Fits, States, Steps, IntakeStatuses, Born
  <2> QED BY <2>1, <2>3, <2>4, <2>5, ThreadMoves
<1> QED BY <1>2, <1>3

\* complete_analysis_run and fail_analysis_run end the run read before.
LEMMA EndKeeps ==
  ASSUME IInv, NEW t \in Threads, EndWrite(t)
  PROVE  IInv'
<1>a. PICK s \in States, j \in Jobs : s = thread[t] /\ j = s.job
  BY DEF IInv, Fits, EndWrite, At
<1>1. /\ Fits(s) /\ Tables /\ TableTypes /\ RowsAreBorn
      /\ s.at = "ending" /\ s.run \in Nat
  BY <1>a DEF IInv, Tables, EndWrite, At, States
<1>2. PICK status \in {"failed", "complete"} : SetRun(j, s.run, status)
  BY <1>a DEF EndWrite, JobOf
<1>3. UNCHANGED <<rows, born, intake, archived, printed, warned, current, scores>>
  BY DEF EndWrite, jobVars
<1>4. PICK step \in {"validate", "compare"} :
        Goto(t, step) /\ (step = "validate" => s.goal = "failed")
  BY <1>a DEF EndWrite
<1>5. Fits([s EXCEPT !.at = step])
  BY <1>1, <1>4, StepFits DEF Steps
<1>6. /\ runs' \in [Jobs -> Seq(RunStatuses)]
      /\ \A k \in Jobs : k /= j => runs'[k] = runs[k]
      /\ ActiveRuns(j)' \subseteq ActiveRuns(j)
      /\ runs[j] = <<>> => runs'[j] = <<>>
  BY <1>1, <1>2, RunIsSet DEF RunStatuses
<1>7. OneRun'
  BY <1>1, <1>6, OneRunIsKept DEF Tables, OneRun
<1>8. Tables'
  BY <1>1, <1>3, <1>6, <1>7 DEF Tables, TableTypes, RowsAreBorn, Born, ScoredHasScore
<1>9. Keeps
  BY <1>3 DEF Keeps, Born
<1> QED BY <1>a, <1>4, <1>5, <1>8, <1>9, WriteMoves DEF Goto, Continue

\* set_duplicate_warning.
LEMMA FlagKeeps ==
  ASSUME IInv, NEW t \in Threads, Flag(t)
  PROVE  IInv'
<1>1. warned' \in SUBSET rows
      /\ UNCHANGED <<rows, born, intake, archived, printed, runs, current, scores>>
  BY DEF Flag, IInv, Tables, TableTypes, runVars
<1>2. Tables'
  BY <1>1 DEF IInv, Tables, TableTypes, OneRun, ActiveRuns, RunsIn, RowsAreBorn, Born,
              ScoredHasScore
<1>3. Keeps
  BY <1>1 DEF Keeps, Born
<1>4. Continue(t, Idle)
  BY DropFits DEF Flag
<1> QED BY <1>2, <1>3, <1>4, IdleFits, WriteMoves

-----------------------------------------------------------------------------
\* The steps of a request.

LEMMA AsksKeep ==
  ASSUME IInv, NEW c \in Clients, NEW j \in Jobs,
         CaptureRead(c, j) \/ StartRead(c, j) \/ RetryRead(c, j)
  PROVE  IInv'
<1>1. UNCHANGED tables /\ c \in Threads /\ rows \subseteq Born
  BY DEF CaptureRead, StartRead, RetryRead, jobVars, runVars, tables, Threads, IInv,
         Tables, RowsAreBorn
<1>2. PICK step \in {"capture", "start", "retry"} :
        Ask(c, step, j) /\ (step = "capture" \/ j \in rows)
  BY DEF CaptureRead, StartRead, RetryRead, MayRun
<1>3. Fits([Idle EXCEPT !.at = step, !.job = j])
  <2>1. /\ step \in Steps /\ (step \in {"idle", "capture"} \/ j \in Born)
        /\ step \notin {"mark", "marking"} /\ "queued" \in IntakeStatuses \ {"scored"}
    BY <1>1, <1>2 DEF Steps, IntakeStatuses
  <2> QED BY <2>1, AskFits
<1>4. Continue(c, [Idle EXCEPT !.at = step, !.job = j])
  BY <1>2 DEF Ask
<1> QED BY <1>1, <1>3, <1>4, OnlyThreadMoves

\* create_or_get_job: the run it inserts is the first of the job.
LEMMA CaptureKeeps ==
  ASSUME IInv, NEW c \in Clients, CaptureWrite(c)
  PROVE  IInv'
<1>a. PICK j \in Jobs : j = JobOf(c)
  BY DEF IInv, Fits, CaptureWrite, At, JobOf, Threads
<1>1. Tables /\ TableTypes /\ RowsAreBorn /\ c \in Threads /\ Drop(c)
  BY DEF IInv, Tables, Threads, CaptureWrite
<1>2. CASE born[j] /= 0
  BY <1>a, <1>1, <1>2, DropsKeep DEF CaptureWrite, runVars, tables
<1>3. CASE born[j] = 0
  <2>1. /\ rows' = rows \cup {j}
        /\ born' = [born EXCEPT ![j] = 1 + Cardinality(Born)]
        /\ intake' = [intake EXCEPT ![j] = "queued"]
        /\ InsertRun(j, "queued")
        /\ UNCHANGED <<archived, printed, warned, scores>>
    BY <1>a, <1>3 DEF CaptureWrite, Born
  <2>2. j \notin rows /\ runs[j] = <<>> /\ ActiveRuns(j) = {}
    BY <1>1, <1>3 DEF RowsAreBorn, Born, TableTypes, ActiveRuns, RunsIn
  <2>3. /\ runs' \in [Jobs -> Seq(RunStatuses)] /\ current' \in [Jobs -> Nat]
        /\ \A k \in Jobs : k /= j => runs'[k] = runs[k] /\ current'[k] = current[k]
        /\ \A a, b \in ActiveRuns(j)' : a = b
    BY <1>1, <2>1, <2>2, RunIsInserted DEF RunStatuses
  <2>4. OneRun'
    BY <1>1, <2>3, OneRunIsKept DEF Tables
  <2>5. born' \in [Jobs -> Nat] /\ Born' = Born \cup {j} /\ IsFiniteSet(Born')
    <3>1. Cardinality(Born) \in Nat
      BY <1>1, FS_CardinalityType DEF RowsAreBorn
    <3>2. Born' = Born \cup {j}
      <4>1. 1 + Cardinality(Born) \in Nat \ {0}
        BY <3>1
      <4>2. \A k \in Jobs : born'[k] = IF k = j THEN 1 + Cardinality(Born) ELSE born[k]
        BY <1>1, <2>1 DEF TableTypes
      <4>3. \A k \in Jobs : born'[k] /= 0 <=> born[k] /= 0 \/ k = j
        BY <4>1, <4>2
      <4> QED BY <4>3 DEF Born
    <3>3. IsFiniteSet(Born \cup {j})
      BY <1>1, FS_AddElement DEF RowsAreBorn
    <3> QED BY <1>1, <2>1, <3>1, <3>2, <3>3 DEF TableTypes
  <2>6. TableTypes'
    BY <1>1, <2>1, <2>3, <2>5 DEF TableTypes, IntakeStatuses
  <2>7. ScoredHasScore'
    BY <1>1, <2>1 DEF ScoredHasScore, Tables, TableTypes
  <2>8. Tables'
    BY <1>1, <2>1, <2>4, <2>5, <2>6, <2>7 DEF Tables, RowsAreBorn
  <2>9. Keeps
    BY <1>3, <2>1, <2>5 DEF Keeps, Born
  <2> QED BY <1>1, <2>8, <2>9, DropFits, IdleFits, WriteMoves
<1> QED BY <1>2, <1>3

\* start_analysis_run inserts a run where none is active; the thread goes on to
\* mark it.
LEMMA EnqueueKeeps ==
  ASSUME IInv, NEW c \in Clients, NEW j \in rows, ActiveRuns(j) = {}, Enqueue(c, j),
         archived' \in [Jobs -> BOOLEAN],
         UNCHANGED <<rows, born, printed, warned, scores>>
  PROVE  IInv'
<1>1. Tables /\ TableTypes /\ RowsAreBorn /\ c \in Threads /\ j \in Jobs /\ j \in Born
  BY DEF IInv, Tables, Threads, TableTypes, RowsAreBorn
<1>2. /\ InsertRun(j, "queued") /\ intake' = [intake EXCEPT ![j] = "queued"]
      /\ Continue(c, [Idle EXCEPT !.at = "mark", !.job = j, !.goal = "scoring"])
  BY DEF Enqueue
<1>3. /\ runs' \in [Jobs -> Seq(RunStatuses)] /\ current' \in [Jobs -> Nat]
      /\ \A k \in Jobs : k /= j => runs'[k] = runs[k] /\ current'[k] = current[k]
      /\ \A a, b \in ActiveRuns(j)' : a = b
  BY <1>1, <1>2, RunIsInserted DEF RunStatuses
<1>4. OneRun'
  BY <1>1, <1>3, OneRunIsKept DEF Tables
<1>5. Tables'
  BY <1>1, <1>2, <1>3, <1>4
     DEF Tables, TableTypes, RowsAreBorn, Born, ScoredHasScore, IntakeStatuses
<1>6. Keeps
  BY DEF Keeps, Born
<1>7. Fits([Idle EXCEPT !.at = "mark", !.job = j, !.goal = "scoring"])
  BY <1>1, AskFits DEF Steps, IntakeStatuses
<1> QED BY <1>1, <1>2, <1>5, <1>6, <1>7, WriteMoves

LEMMA StartKeeps ==
  ASSUME IInv, NEW c \in Clients, StartWrite(c)
  PROVE  IInv'
<1>a. PICK j \in Jobs : j = JobOf(c)
  BY DEF IInv, Fits, StartWrite, At, JobOf, Threads
<1>1. UNCHANGED <<rows, born, archived, printed, warned, scores>>
  BY DEF StartWrite
<1>2. CASE j \in rows /\ ActiveRuns(j) = {}
  <2>1. Enqueue(c, j)
    BY <1>a, <1>2 DEF StartWrite
  <2>2. archived' \in [Jobs -> BOOLEAN]
    BY <1>1 DEF IInv, Tables, TableTypes
  <2> QED BY <1>1, <1>2, <2>1, <2>2, EnqueueKeeps
<1>3. CASE ~(j \in rows /\ ActiveRuns(j) = {})
  BY <1>a, <1>1, <1>3, DropsKeep DEF StartWrite, runVars, tables, Threads
<1> QED BY <1>2, <1>3

\* A step that changes only what no invariant but the types is about.
LEMMA TablesChange ==
  ASSUME IInv, UNCHANGED <<rows, born, printed, warned, runs, current, scores, thread>>,
         archived' \in [Jobs -> BOOLEAN], intake' \in [Jobs -> IntakeStatuses],
         \A j \in rows : intake'[j] = "scored" => intake[j] = "scored"
  PROVE  IInv'
<1>1. Tables'
  BY DEF IInv, Tables, TableTypes, OneRun, ActiveRuns, RunsIn, RowsAreBorn, Born,
         ScoredHasScore
<1>2. \A t \in Threads : Fits(thread[t])'
  BY DEF IInv, Fits, Born
<1> QED BY <1>1, <1>2 DEF IInv

LEMMA RestoreKeeps ==
  ASSUME IInv, NEW c \in Clients, NEW j \in Jobs, RestoreAndStart(c, j)
  PROVE  IInv'
<1>1. j \in rows /\ archived' \in [Jobs -> BOOLEAN]
      /\ UNCHANGED <<rows, born, printed, warned, scores>>
  BY DEF RestoreAndStart, MayRun, IInv, Tables, TableTypes
<1>2. CASE ActiveRuns(j) = {}
  BY <1>1, <1>2, EnqueueKeeps DEF RestoreAndStart
<1>3. CASE ActiveRuns(j) /= {}
  BY <1>1, <1>3, TablesChange DEF RestoreAndStart, runVars, IInv, Tables, TableTypes
<1> QED BY <1>2, <1>3

\* retry_job sets the intake status only.
LEMMA RetryKeeps ==
  ASSUME IInv, NEW c \in Clients, RetryWrite(c)
  PROVE  IInv'
<1>1. UNCHANGED <<rows, born, archived, printed, warned, runs, current, scores>>
      /\ c \in Threads /\ Drop(c)
  BY DEF RetryWrite, runVars, Threads
<1>2. /\ intake' \in [Jobs -> IntakeStatuses]
      /\ \A j \in rows : intake'[j] = "scored" => intake[j] = "scored"
  BY DEF RetryWrite, IInv, Tables, TableTypes, IntakeStatuses
<1>3. Tables'
  BY <1>1, <1>2 DEF IInv, Tables, TableTypes, OneRun, ActiveRuns, RunsIn,
                    RowsAreBorn, Born, ScoredHasScore
<1>4. Keeps
  BY <1>1 DEF Keeps, Born
<1> QED BY <1>1, <1>3, <1>4, DropFits, IdleFits, WriteMoves

LEMMA ArchiveKeeps ==
  ASSUME IInv, NEW j \in Jobs, Archive(j)
  PROVE  IInv'
<1>1. archived' \in [Jobs -> BOOLEAN]
  BY DEF Archive, IInv, Tables, TableTypes
<1> QED BY <1>1, TablesChange DEF Archive, runVars, IInv, Tables, TableTypes

\* delete_or_archive_job: the runs and scores go with the row, the capture stays.
LEMMA DeleteKeeps ==
  ASSUME IInv, NEW j \in Jobs, Delete(j)
  PROVE  IInv'
<1>1. Tables /\ TableTypes /\ RowsAreBorn
  BY DEF IInv, Tables
<1>2. /\ rows' = rows \ {j} /\ runs' = [runs EXCEPT ![j] = <<>>]
      /\ UNCHANGED <<born, thread>>
  BY DEF Delete
<1>3. TableTypes'
  BY <1>1 DEF Delete, TableTypes, IntakeStatuses
<1>4. OneRun'
  <2>1. ActiveRuns(j)' = {}
    BY <1>1, <1>2 DEF ActiveRuns, RunsIn, TableTypes
  <2> QED BY <1>1, <1>2, <2>1, OneRunIsKept DEF Tables, TableTypes
<1>5. ScoredHasScore'
  BY <1>1 DEF Delete, ScoredHasScore, Tables, TableTypes
<1>6. Tables'
  BY <1>1, <1>2, <1>3, <1>4, <1>5 DEF Tables, RowsAreBorn, Born
<1>7. Keeps
  BY <1>1 DEF Delete, Keeps, Born, TableTypes
<1>8. \A s : Fits(s) => Fits(s)'
  BY <1>1, <1>6, <1>7, FitsIsKept
<1> QED BY <1>2, <1>6, <1>8 DEF IInv, Fits, Born

-----------------------------------------------------------------------------
LEMMA InitHolds == Init => IInv
<1> SUFFICES ASSUME Init PROVE IInv
  OBVIOUS
<1>1. Born = {} /\ IsFiniteSet(Born)
  BY FS_EmptySet DEF Init, Born
<1>2. TableTypes
  BY DEF Init, TableTypes, IntakeStatuses
<1>3. Tables
  BY <1>1, <1>2 DEF Init, Tables, OneRun, ActiveRuns, RunsIn, RowsAreBorn, ScoredHasScore
<1>4. thread \in [Threads -> States] /\ \A t \in Threads : Fits(thread[t])
  BY IdleFits DEF Init, Fits
<1> QED BY <1>3, <1>4 DEF IInv

LEMMA NextKeeps == IInv /\ [Next]_vars => IInv'
<1> SUFFICES ASSUME IInv, [Next]_vars PROVE IInv'
  OBVIOUS
<1>1. ASSUME NEW t \in Threads, Analyse(t) PROVE IInv'
  BY <1>1, ReadsKeep, MarkKeeps, TransitionKeeps, SaveKeeps, EndKeeps, FlagKeeps
     DEF Analyse
<1>2. ASSUME NEW t \in Threads, Crash(t) PROVE IInv'
  BY <1>2, DropsKeep DEF Crash, jobVars, runVars, tables
<1>3. ASSUME NEW c \in Clients, Answer(c) PROVE IInv'
  BY <1>3, CaptureKeeps, StartKeeps, RetryKeeps DEF Answer
<1>4. ASSUME NEW c \in Clients, NEW j \in Jobs, Request(c, j) PROVE IInv'
  BY <1>4, AsksKeep, RestoreKeeps DEF Request
<1>5. ASSUME NEW j \in Jobs, Archive(j) \/ Delete(j) PROVE IInv'
  BY <1>5, ArchiveKeeps, DeleteKeeps
<1>6. CASE UNCHANGED vars
  <2>1. Tables'
    BY <1>6 DEF IInv, Tables, TableTypes, OneRun, ActiveRuns, RunsIn, RowsAreBorn, Born,
                ScoredHasScore, vars, jobVars, runVars
  <2>2. \A t \in Threads : Fits(thread[t])'
    BY <1>6 DEF IInv, Fits, Born, vars, jobVars, runVars
  <2> QED BY <1>6, <2>1, <2>2 DEF IInv, vars
<1> QED BY <1>1, <1>2, <1>3, <1>4, <1>5, <1>6 DEF Next

LEMMA Invariance == Spec => []IInv
BY InitHolds, NextKeeps, PTL DEF Spec

-----------------------------------------------------------------------------
\* The tables and the threads of Queue 1 keep their types, a thread at work names
\* a job, and a job without a row has no run and no score: whatever requests,
\* deletions and crashes come between the read and the write of a method.
THEOREM TypesHold == Spec => []TypeOK
<1>1. IInv => TypeOK
  BY DEF IInv, Tables, TableTypes, Fits, TypeOK, Free, JobOf
<1> QED BY <1>1, Invariance, PTL

\* A job never has two active analysis runs, although start_analysis_run and
\* mark_analysis_run_running select first and write in a later transaction.
THEOREM OneRunAtATime == Spec => []OneActiveRun
<1>1. IInv => OneActiveRun
  <2> SUFFICES ASSUME IInv, NEW j \in rows PROVE Cardinality(ActiveRuns(j)) <= 1
    BY DEF OneActiveRun
  <2>1. \A a, b \in ActiveRuns(j) : a = b
    BY DEF IInv, Tables, TableTypes, OneRun
  <2>2. CASE ActiveRuns(j) = {}
    BY <2>2, FS_EmptySet
  <2>3. CASE ActiveRuns(j) /= {}
    <3>1. PICK i \in ActiveRuns(j) : ActiveRuns(j) = {i}
      BY <2>1, <2>3
    <3> QED BY <3>1, FS_Singleton
  <2> QED BY <2>2, <2>3
<1> QED BY <1>1, Invariance, PTL

\* No job is scored without a score, whatever is deleted and captured between
\* save_scoring_result and the transition that follows it.
THEOREM ScoredIsBacked == Spec => []ScoredHasScore
<1>1. IInv => ScoredHasScore
  BY DEF IInv, Tables
<1> QED BY <1>1, Invariance, PTL

-----------------------------------------------------------------------------
\* Reposts, as long as no call is cut short: a job scored without a warning was
\* not compared after its last analysis if a crash came first.

\* A thread in state s works on a job whose posting has been stored.
PastStructuring(s) ==
  \/ s.at \in {"start", "save", "saving", "end", "ending", "compare", "flag"}
  \/ s.at \in {"mark", "marking"} /\ s.goal = "scoring"
  \/ s.at \in {"validate", "apply"}
       /\ s.goal \in {"scoring", "scored", "failed", "manual_review"}

\* It will compare the job with the others, and has read its posting for that.
Knows(s) ==
  /\ (PastStructuring(s) /\ s.job \in rows) => s.job \in printed
  /\ (s.goal = "scored" \/ s.at = "saving") => (s.print \/ s.job \notin rows)
  /\ s.at \in {"end", "ending"} => s.goal \in {"failed", "scored"}
  /\ s.at \in {"compare", "flag"} => s.goal = "scored"
  /\ s.at \in {"idle", "capture"} => s.goal = "queued"
  /\ s.at \in {"mark", "marking"} => s.goal \in {"extracting", "scoring"}

Comparing(s, j) ==
  s.job = j /\ s.goal = "scored" /\ s.at \in {"end", "ending", "compare", "flag"}

Busy(q) == \E i \in DOMAIN q : q[i] \in {"queued", "running"}

\* A posting that is not stored yet belongs to a run under way, so no re-score
\* begins without it.
RowsArePrinted ==
  \A j \in rows : j \in printed \/ (intake[j] /= "scored" /\ Busy(runs[j]))

\* Of two scored reposts one is flagged, or is about to be compared.
PairsAreSeen ==
  \A j, k \in Reposts \cap rows :
    (j /= k /\ intake[j] = "scored" /\ intake[k] = "scored") =>
      \/ {j, k} \cap warned /= {}
      \/ \E t \in Threads : Comparing(thread[t], j) \/ Comparing(thread[t], k)

PInv ==
  /\ IInv
  /\ \A t \in Threads : Knows(thread[t])
  /\ RowsArePrinted
  /\ PairsAreSeen

\* A posting stays stored, and a captured job gets no row again.
PrintsStand ==
  \A k \in Born : k \in rows' => k \in rows /\ (k \in printed => k \in printed')

LEMMA KnowsIsKept ==
  ASSUME PrintsStand, NEW s, Fits(s), Knows(s)
  PROVE  Knows(s)'
BY DEF Fits, Knows, PastStructuring, PrintsStand

\* No other repost of k is scored.
Lone(k) == \A m \in Reposts \cap rows : m /= k => intake[m] /= "scored"

\* A step that moves one thread keeps the pairs seen, if a job becomes scored
\* only under it and it leaves a comparison only with the job flagged or lone.
LEMMA PairsMove ==
  ASSUME PInv, NEW t \in Threads, NEW n, Continue(t, n),
         \A k \in warned : k \in rows' => k \in warned',
         \A k \in Reposts \cap rows' : intake'[k] = "scored" =>
           (k \in rows /\ intake[k] = "scored") \/ Comparing(n, k),
         \A k \in Reposts \cap rows' : Comparing(thread[t], k) =>
           Comparing(n, k) \/ k \in warned' \/ Lone(k)
  PROVE  PairsAreSeen'
<1> SUFFICES ASSUME NEW j \in Reposts \cap rows', NEW k \in Reposts \cap rows',
                    j /= k, intake'[j] = "scored", intake'[k] = "scored",
                    {j, k} \cap warned' = {}
             PROVE  \E u \in Threads : Comparing(thread'[u], j) \/ Comparing(thread'[u], k)
  BY DEF PairsAreSeen, Comparing
<1>1. thread'[t] = n /\ \A u \in Threads : u /= t => thread'[u] = thread[u]
  BY DEF Continue, PInv, IInv
<1>2. CASE Comparing(n, j) \/ Comparing(n, k)
  BY <1>1, <1>2
<1>3. CASE ~Comparing(n, j) /\ ~Comparing(n, k)
  <2>1. j \in rows /\ k \in rows /\ intake[j] = "scored" /\ intake[k] = "scored"
        /\ {j, k} \cap warned = {}
    BY <1>3
  <2>2. PICK u \in Threads : Comparing(thread[u], j) \/ Comparing(thread[u], k)
    BY <2>1 DEF PInv, PairsAreSeen
  <2>3. ~Comparing(thread[t], j) /\ ~Comparing(thread[t], k)
    BY <1>3, <2>1 DEF Lone
  <2> QED BY <1>1, <2>2, <2>3
<1> QED BY <1>2, <1>3

LEMMA PInvMoves ==
  ASSUME PInv, IInv', PrintsStand, RowsArePrinted', PairsAreSeen',
         NEW t \in Threads, NEW n, Continue(t, n), Knows(n)'
  PROVE  PInv'
<1>1. ASSUME NEW u \in Threads PROVE Knows(thread[u])'
  <2>1. CASE u = t
    <3>1. thread'[u] = n
      BY <2>1 DEF Continue, PInv, IInv
    <3> QED BY <3>1 DEF Knows
  <2>2. CASE u /= t
    <3>1. thread'[u] = thread[u]
      BY <2>2 DEF Continue, PInv, IInv
    <3>2. \A r : Fits(r) /\ Knows(r) => Knows(r)'
      BY KnowsIsKept
    <3> QED BY <3>1, <3>2 DEF PInv, IInv, Knows
  <2> QED BY <2>1, <2>2
<1> QED BY <1>1 DEF PInv

\* A step that only moves a thread.
LEMMA PReads ==
  ASSUME PInv, IInv', UNCHANGED tables, NEW t \in Threads, NEW n, Continue(t, n),
         Knows(n),
         \A k \in Reposts \cap rows : Comparing(thread[t], k) =>
           Comparing(n, k) \/ Lone(k)
  PROVE  PInv'
<1>1. PrintsStand /\ RowsArePrinted' /\ Knows(n)'
  BY DEF PInv, PrintsStand, RowsArePrinted, Knows, tables
<1>2. PairsAreSeen'
  BY PairsMove DEF tables
<1> QED BY <1>1, <1>2, PInvMoves

LEMMA IdleKnows == Knows(Idle) /\ Knows(Idle)'
BY DEF Knows, Idle, PastStructuring

LEMMA PDrops ==
  ASSUME PInv, IInv', UNCHANGED tables, NEW t \in Threads, Drop(t),
         thread[t].at \notin {"end", "ending", "compare", "flag"}
  PROVE  PInv'
BY PReads, IdleKnows DEF Drop, Comparing

LEMMA BusyRuns ==
  ASSUME NEW j
  PROVE  ActiveRuns(j) = {} <=> ~Busy(runs[j])
BY DEF ActiveRuns, RunsIn, Busy

LEMMA BusyInserted ==
  ASSUME NEW q \in Seq(RunStatuses), NEW status \in {"queued", "running"}
  PROVE  Busy(Append(q, status))
<1>1. Append(q, status)[Len(q) + 1] = status /\ Len(q) + 1 \in DOMAIN Append(q, status)
  OBVIOUS
<1> QED BY <1>1 DEF Busy

\* The steps of an analysis that read.
LEMMA ReadsPrint ==
  ASSUME PInv, IInv', NEW t \in Threads,
         \/ Select(t) \/ MarkRead(t) \/ TransitionRead(t) \/ SaveRead(t)
         \/ EndRead(t) \/ Compare(t)
  PROVE  PInv'
<1> USE DEF At, JobOf
<1>0. PICK s \in States : s = thread[t] /\ Knows(s)
  BY DEF PInv, IInv
<1>1. UNCHANGED tables
  BY DEF Select, MarkRead, TransitionRead, SaveRead, EndRead, Compare, jobVars,
         runVars, tables
<1>2. ASSUME NEW step, NEW run, NEW print,
             Continue(t, [s EXCEPT !.at = step, !.run = run, !.print = print]),
             Knows([s EXCEPT !.at = step, !.run = run, !.print = print]),
             s.at \in {"end", "ending", "compare", "flag"} =>
               step \in {"end", "ending", "compare", "flag"}
      PROVE  PInv'
  <2> DEFINE n == [s EXCEPT !.at = step, !.run = run, !.print = print]
  <2>1. \A k : Comparing(s, k) => Comparing(n, k)
    BY <1>2 DEF Comparing, States
  <2> QED BY <1>0, <1>1, <1>2, <2>1, PReads
<1>3. CASE Select(t)
  <2>1. PICK j : Continue(t, [Idle EXCEPT !.at = "mark", !.job = j, !.goal = "extracting"])
    BY <1>3 DEF Select
  <2>2. Knows([Idle EXCEPT !.at = "mark", !.job = j, !.goal = "extracting"])
    BY DEF Knows, Idle, PastStructuring
  <2>3. s.at = "idle"
    BY <1>0, <1>3 DEF Select, Free
  <2> QED BY <1>0, <1>1, <2>1, <2>2, <2>3, PReads DEF Comparing
<1>4. CASE MarkRead(t)
  <2>1. s.at = "mark"
    BY <1>0, <1>4 DEF MarkRead
  <2>2. CASE Drop(t)
    BY <1>0, <1>1, <2>1, <2>2, PDrops
  <2>3. ASSUME NEW run, Found(t, run, "marking") PROVE PInv'
    <3>1. Continue(t, [s EXCEPT !.at = "marking", !.run = run, !.print = s.print])
      BY <1>0, <2>3 DEF Found, Continue, States
    <3>2. Knows([s EXCEPT !.at = "marking", !.run = run, !.print = s.print])
      BY <1>0, <2>1 DEF Knows, PastStructuring, States
    <3> QED BY <1>2, <2>1, <3>1, <3>2
  <2> QED BY <1>4, <2>2, <2>3 DEF MarkRead
<1>5. CASE TransitionRead(t)
  <2>1. s.at = "validate"
    BY <1>0, <1>5 DEF TransitionRead
  <2>2. CASE Drop(t)
    BY <1>0, <1>1, <2>1, <2>2, PDrops
  <2>3. CASE Goto(t, "apply")
    <3>1. Continue(t, [s EXCEPT !.at = "apply", !.run = s.run, !.print = s.print])
      BY <1>0, <2>3 DEF Goto, Continue, States
    <3>2. Knows([s EXCEPT !.at = "apply", !.run = s.run, !.print = s.print])
      BY <1>0, <2>1 DEF Knows, PastStructuring, States
    <3> QED BY <1>2, <2>1, <3>1, <3>2
  <2> QED BY <1>5, <2>2, <2>3 DEF TransitionRead
<1>6. CASE SaveRead(t)
  <2>1. s.at = "save"
    BY <1>0, <1>6 DEF SaveRead
  <2>2. CASE Drop(t)
    BY <1>0, <1>1, <2>1, <2>2, PDrops
  <2>3. CASE ~Drop(t)
    <3>1. /\ s.job \in rows
          /\ Continue(t, [s EXCEPT !.at = "saving", !.run = current[s.job],
                                   !.print = s.job \in printed])
      BY <1>0, <1>6, <2>3 DEF SaveRead, Continue
    <3>2. s.job \in printed
      BY <1>0, <2>1, <3>1 DEF Knows, PastStructuring
    <3>3. Knows([s EXCEPT !.at = "saving", !.run = current[s.job],
                          !.print = s.job \in printed])
      BY <1>0, <2>1, <3>2 DEF Knows, PastStructuring, States
    <3> QED BY <1>2, <2>1, <3>1, <3>3
  <2> QED BY <2>2, <2>3
<1>7. CASE EndRead(t)
  <2>1. s.at = "end" /\ Found(t, Only(ActiveRuns(s.job)), "ending")
    BY <1>0, <1>7 DEF EndRead
  <2> DEFINE run == Only(ActiveRuns(s.job))
  <2> HIDE DEF run
  <2>2. Continue(t, [s EXCEPT !.at = "ending", !.run = run, !.print = s.print])
    BY <1>0, <2>1 DEF Found, Continue, States, run
  <2>3. Knows([s EXCEPT !.at = "ending", !.run = run, !.print = s.print])
    BY <1>0, <2>1 DEF Knows, PastStructuring, States
  <2> QED BY <1>2, <2>2, <2>3
<1>8. CASE Compare(t)
  <2>1. s.at = "compare"
    BY <1>0, <1>8 DEF Compare
  <2>2. CASE Goto(t, "flag")
    <3>1. Continue(t, [s EXCEPT !.at = "flag", !.run = s.run, !.print = s.print])
      BY <1>0, <2>2 DEF Goto, Continue, States
    <3>2. Knows([s EXCEPT !.at = "flag", !.run = s.run, !.print = s.print])
      BY <1>0, <2>1 DEF Knows, PastStructuring, States
    <3> QED BY <1>2, <3>1, <3>2
  <2>3. CASE ~Goto(t, "flag")
    <3> DEFINE twins == {k \in rows \cap printed \cap Reposts : k /= s.job}
    <3>1. Drop(t) /\ (~s.print \/ s.job \notin Reposts \/ twins = {})
      BY <1>0, <1>8, <2>3 DEF Compare
    <3>2. ASSUME NEW k \in Reposts \cap rows, Comparing(s, k) PROVE Lone(k)
      <4>1. k = s.job /\ s.goal = "scored" /\ s.print
        BY <1>0, <3>2 DEF Comparing, Knows
      <4>2. twins = {}
        BY <3>1, <3>2, <4>1
      <4>3. \A m \in Reposts \cap rows : intake[m] = "scored" => m \in printed
        BY DEF PInv, RowsArePrinted
      <4> QED BY <4>1, <4>2, <4>3 DEF Lone
    <3> QED BY <1>0, <1>1, <3>1, <3>2, PReads, IdleKnows DEF Drop
  <2> QED BY <2>2, <2>3
<1> QED BY <1>3, <1>4, <1>5, <1>6, <1>7, <1>8

\* mark_analysis_run_running: the run it leaves is active.
LEMMA MarkPrints ==
  ASSUME PInv, IInv', NEW t \in Threads, MarkWrite(t)
  PROVE  PInv'
<1> USE DEF At, JobOf
<1>0. PICK s \in States : s = thread[t] /\ Knows(s) /\ s.at = "marking"
  BY DEF PInv, IInv, MarkWrite
<1>1. UNCHANGED <<rows, born, intake, archived, printed, warned, scores>>
  BY DEF MarkWrite, jobVars
<1>2. CASE Drop(t) /\ UNCHANGED runVars
  BY <1>0, <1>1, <1>2, PDrops DEF runVars, tables
<1>3. CASE ~(Drop(t) /\ UNCHANGED runVars)
  <2> DEFINE j == s.job
  <2>1. /\ ActiveRuns(j) \subseteq {s.run} /\ Goto(t, "validate")
        /\ IF s.run = 0 THEN InsertRun(j, "running") ELSE SetRun(j, s.run, "running")
    BY <1>0, <1>3 DEF MarkWrite
  <2>2. j \in Jobs /\ runs \in [Jobs -> Seq(RunStatuses)] /\ rows \subseteq Jobs
    BY <1>0 DEF PInv, IInv, Fits, Tables, TableTypes
  <2>3. \A k \in Jobs : k /= j => runs'[k] = runs[k]
    BY <2>1, <2>2 DEF InsertRun, SetRun
  <2>4. Busy(runs[j]) => Busy(runs'[j])
    <3>1. CASE s.run = 0
      <4>1. runs'[j] = Append(runs[j], "running")
        BY <2>1, <2>2, <3>1 DEF InsertRun
      <4> QED BY <2>2, <4>1, BusyInserted
    <3>2. CASE s.run /= 0
      <4>1. runs'[j] = [k \in DOMAIN runs[j] |-> IF k = s.run THEN "running" ELSE runs[j][k]]
        BY <2>1, <2>2, <3>2 DEF SetRun
      <4> QED BY <4>1 DEF Busy
    <3> QED BY <3>1, <3>2
  <2>5. RowsArePrinted'
    BY <1>1, <2>2, <2>3, <2>4 DEF PInv, RowsArePrinted
  <2>6. Continue(t, [s EXCEPT !.at = "validate"])
    BY <1>0, <2>1 DEF Goto, Continue
  <2>7. Knows([s EXCEPT !.at = "validate"])'
    BY <1>0, <1>1 DEF Knows, PastStructuring, States
  <2>8. PrintsStand
    BY <1>1 DEF PrintsStand
  <2>9. PairsAreSeen'
    BY <1>0, <1>1, <2>6, PairsMove DEF Comparing
  <2> QED BY <2>5, <2>6, <2>7, <2>8, <2>9, PInvMoves
<1> QED BY <1>2, <1>3

\* transition_intake: structuring stores the posting, and a job becomes scored
\* under a thread that goes on to compare it.
LEMMA TransitionPrints ==
  ASSUME PInv, IInv', NEW t \in Threads, TransitionWrite(t)
  PROVE  PInv'
<1> USE DEF At, JobOf
<1>0. PICK s \in States : s = thread[t] /\ Knows(s) /\ s.at = "apply"
  BY DEF PInv, IInv, TransitionWrite
<1>1. UNCHANGED <<rows, born, archived, warned, runs, current, scores>>
  BY DEF TransitionWrite, runVars
<1>2. CASE s.job \notin rows
  BY <1>0, <1>1, <1>2, PDrops DEF TransitionWrite, tables
<1>3. CASE s.job \in rows
  <2>1. /\ intake' = [intake EXCEPT ![s.job] = s.goal]
        /\ printed' = IF s.goal = "structuring" THEN printed \cup {s.job} ELSE printed
        /\ Follow(t, s.goal)
    BY <1>0, <1>3 DEF TransitionWrite
  <2>2. s.job \in Jobs /\ intake \in [Jobs -> IntakeStatuses] /\ rows \subseteq Jobs
    BY <1>3 DEF PInv, IInv, Tables, TableTypes
  <2>3. PrintsStand
    BY <1>1, <2>1 DEF PrintsStand
  <2>4. s.goal = "scored" => s.job \in printed
    BY <1>0, <1>3 DEF Knows, PastStructuring
  <2>5. RowsArePrinted'
    BY <1>1, <2>1, <2>2, <2>4 DEF PInv, RowsArePrinted
  <2>6. \A k \in rows : intake'[k] = "scored" =>
          intake[k] = "scored" \/ (k = s.job /\ s.goal = "scored")
    BY <2>1, <2>2
  <2>7. ASSUME NEW n, Continue(t, n), Knows(n)',
               s.goal = "scored" => Comparing(n, s.job)
        PROVE  PInv'
    <3>1. PairsAreSeen'
      BY <1>0, <1>1, <2>6, <2>7, PairsMove DEF Comparing
    <3> QED BY <2>3, <2>5, <2>7, <3>1, PInvMoves
  <2>8. ASSUME NEW goal, Pursue(t, goal), s.goal /= "scored", goal /= "scored",
               goal \in {"failed", "manual_review", "scoring"} => s.job \in printed'
        PROVE  PInv'
    <3>1. Continue(t, [s EXCEPT !.at = "validate", !.goal = goal])
      BY <1>0, <2>8 DEF Pursue, Continue
    <3>2. Knows([s EXCEPT !.at = "validate", !.goal = goal])'
      BY <1>0, <2>8 DEF Knows, PastStructuring, States
    <3> QED BY <2>7, <2>8, <3>1, <3>2
  <2>9. CASE s.goal = "extracting"
    BY <2>1, <2>8, <2>9 DEF Follow
  <2>10. CASE s.goal = "structuring"
    BY <2>1, <2>8, <2>10 DEF Follow
  <2>11. CASE s.goal = "scoring"
    <3>0. s.job \in printed'
      BY <1>0, <1>3, <2>1, <2>11 DEF Knows, PastStructuring
    <3>1. CASE Goto(t, "save")
      <4>1. Continue(t, [s EXCEPT !.at = "save"])
        BY <1>0, <3>1 DEF Goto, Continue
      <4>2. Knows([s EXCEPT !.at = "save"])'
        BY <2>11, <3>0 DEF Knows, PastStructuring, States
      <4> QED BY <2>7, <2>11, <4>1, <4>2
    <3>2. CASE thread' = [thread EXCEPT ![t].at = "end", ![t].goal = "failed"]
      <4>1. Continue(t, [s EXCEPT !.at = "end", !.goal = "failed"])
        BY <1>0, <3>2 DEF Continue
      <4>2. Knows([s EXCEPT !.at = "end", !.goal = "failed"])'
        BY <3>0 DEF Knows, PastStructuring, States
      <4> QED BY <2>7, <2>11, <4>1, <4>2
    <3> QED BY <2>1, <2>11, <3>1, <3>2 DEF Follow
  <2>12. CASE s.goal = "scored"
    <3>1. Continue(t, [s EXCEPT !.at = "end"])
      BY <1>0, <2>1, <2>12 DEF Follow, Goto, Continue
    <3>2. Knows([s EXCEPT !.at = "end"])'
      BY <1>0, <1>1, <2>1, <2>4, <2>12 DEF Knows, PastStructuring, States
    <3>3. Comparing([s EXCEPT !.at = "end"], s.job)
      BY <2>12 DEF Comparing, States
    <3> QED BY <2>7, <3>1, <3>2, <3>3
  <2>13. CASE s.goal \notin {"extracting", "structuring", "scoring", "scored"}
    BY <2>1, <2>7, <2>13, IdleKnows DEF Follow, Drop
  <2> QED BY <2>9, <2>10, <2>11, <2>12, <2>13
<1> QED BY <1>2, <1>3

\* save_scoring_result, complete_analysis_run and fail_analysis_run.
LEMMA SavePrints ==
  ASSUME PInv, IInv', NEW t \in Threads, SaveWrite(t)
  PROVE  PInv'
<1> USE DEF At, JobOf
<1>0. PICK s \in States : s = thread[t] /\ Knows(s) /\ s.at = "saving"
  BY DEF PInv, IInv, SaveWrite
<1>1. UNCHANGED <<rows, born, intake, archived, printed, warned, runs, current>>
  BY DEF SaveWrite, jobVars, runVars
<1>2. CASE s.job \notin rows
  BY <1>0, <1>1, <1>2, PDrops DEF SaveWrite, tables
<1>3. CASE s.job \in rows
  <2>1. Continue(t, [s EXCEPT !.at = "validate", !.goal = "scored"])
    BY <1>0, <1>3 DEF SaveWrite, Pursue, Continue
  <2>2. Knows([s EXCEPT !.at = "validate", !.goal = "scored"])'
    BY <1>0, <1>1, <1>3 DEF Knows, PastStructuring, States
  <2>3. PrintsStand /\ RowsArePrinted'
    BY <1>1 DEF PrintsStand, PInv, RowsArePrinted
  <2>4. PairsAreSeen'
    BY <1>0, <1>1, <2>1, PairsMove DEF Comparing
  <2> QED BY <2>1, <2>2, <2>3, <2>4, PInvMoves
<1> QED BY <1>2, <1>3

LEMMA EndPrints ==
  ASSUME PInv, IInv', NEW t \in Threads, EndWrite(t)
  PROVE  PInv'
<1> USE DEF At, JobOf
<1>0. PICK s \in States : s = thread[t] /\ Knows(s) /\ s.at = "ending"
  BY DEF PInv, IInv, EndWrite
<1>1. UNCHANGED <<rows, born, intake, archived, printed, warned, current, scores>>
  BY DEF EndWrite, jobVars
<1>2. s.job \in rows => s.job \in printed
  BY <1>0 DEF Knows, PastStructuring
<1>3. PrintsStand /\ RowsArePrinted'
  <2>1. rows \subseteq Jobs /\ runs \in [Jobs -> Seq(RunStatuses)]
    BY DEF PInv, IInv, Tables, TableTypes
  <2>2. \A k \in Jobs : k /= s.job => runs'[k] = runs[k]
    BY <1>0, <2>1 DEF EndWrite, SetRun
  <2> QED BY <1>1, <1>2, <2>1, <2>2 DEF PrintsStand, PInv, RowsArePrinted
<1>4. PICK step \in {"validate", "compare"} :
        Goto(t, step) /\ step = IF s.goal = "failed" THEN "validate" ELSE "compare"
  BY <1>0 DEF EndWrite
<1>5. Continue(t, [s EXCEPT !.at = step])
  BY <1>0, <1>4 DEF Goto, Continue
<1>6. Knows([s EXCEPT !.at = step])'
  BY <1>0, <1>1, <1>2, <1>4 DEF Knows, PastStructuring, States
<1>7. \A k : Comparing(s, k) => Comparing([s EXCEPT !.at = step], k)
  BY <1>4 DEF Comparing, States
<1>8. PairsAreSeen'
  BY <1>0, <1>1, <1>5, <1>7, PairsMove
<1> QED BY <1>3, <1>5, <1>6, <1>8, PInvMoves

\* set_duplicate_warning.
LEMMA FlagPrints ==
  ASSUME PInv, IInv', NEW t \in Threads, Flag(t)
  PROVE  PInv'
<1>1. /\ UNCHANGED <<rows, born, intake, archived, printed, runs, current, scores>>
      /\ warned' = warned \cup ({thread[t].job} \cap rows) /\ Continue(t, Idle)
  BY DEF Flag, Drop, JobOf, runVars
<1>2. PrintsStand /\ RowsArePrinted'
  BY <1>1 DEF PrintsStand, PInv, RowsArePrinted
<1>3. PairsAreSeen'
  BY <1>1, PairsMove DEF Comparing
<1> QED BY <1>1, <1>2, <1>3, IdleKnows, PInvMoves

-----------------------------------------------------------------------------
\* The API threads.

LEMMA AsksPrint ==
  ASSUME PInv, IInv', NEW c \in Clients, NEW j \in Jobs,
         CaptureRead(c, j) \/ StartRead(c, j) \/ RetryRead(c, j)
  PROVE  PInv'
<1>1. c \in Threads /\ thread[c].at = "idle" /\ UNCHANGED tables
  BY DEF CaptureRead, StartRead, RetryRead, Free, Threads, jobVars, runVars, tables
<1>2. PICK step \in {"capture", "start", "retry"} :
        /\ Continue(c, [Idle EXCEPT !.at = step, !.job = j])
        /\ step = "start" => j \in rows /\ ActiveRuns(j) = {}
  BY DEF CaptureRead, StartRead, RetryRead, MayRun, Ask
<1>3. step = "start" => j \in printed
  BY <1>2, BusyRuns DEF PInv, RowsArePrinted
<1>4. Knows([Idle EXCEPT !.at = step, !.job = j])
  BY <1>3 DEF Knows, PastStructuring, Idle
<1> QED BY <1>1, <1>2, <1>4, PReads DEF Comparing

\* A new run is active, and a job queued again is no longer scored.
LEMMA QueuedPrints ==
  ASSUME PInv, NEW j \in Jobs, UNCHANGED printed, rows' \subseteq rows \cup {j},
         intake' = [intake EXCEPT ![j] = "queued"], InsertRun(j, "queued")
  PROVE  RowsArePrinted'
<1>1. /\ rows \subseteq Jobs /\ runs \in [Jobs -> Seq(RunStatuses)]
      /\ intake \in [Jobs -> IntakeStatuses]
  BY DEF PInv, IInv, Tables, TableTypes
<1>2. /\ runs'[j] = Append(runs[j], "queued") /\ intake'[j] = "queued"
      /\ \A k \in Jobs : k /= j => runs'[k] = runs[k] /\ intake'[k] = intake[k]
  BY <1>1 DEF InsertRun
<1>3. Busy(runs'[j])
  BY <1>1, <1>2, BusyInserted
<1> QED BY <1>1, <1>2, <1>3 DEF PInv, RowsArePrinted

LEMMA CapturePrints ==
  ASSUME PInv, IInv', NEW c \in Clients, CaptureWrite(c)
  PROVE  PInv'
<1>0. PICK s \in States : s = thread[c] /\ s.at = "capture" /\ s.job \in Jobs
  BY DEF PInv, IInv, Fits, CaptureWrite, At, Threads
<1>1. c \in Threads /\ Drop(c) /\ UNCHANGED <<archived, printed, warned, scores>>
  BY DEF CaptureWrite, Threads
<1>2. CASE born[s.job] /= 0
  BY <1>0, <1>1, <1>2, PDrops DEF CaptureWrite, JobOf, tables, runVars
<1>3. CASE born[s.job] = 0
  <2>1. /\ rows' = rows \cup {s.job} /\ intake' = [intake EXCEPT ![s.job] = "queued"]
        /\ InsertRun(s.job, "queued")
    BY <1>0, <1>3 DEF CaptureWrite, JobOf
  <2>2. /\ s.job \notin Born /\ s.job \notin rows
        /\ intake \in [Jobs -> IntakeStatuses] /\ rows \subseteq Jobs
    BY <1>3 DEF Born, PInv, IInv, Tables, TableTypes, RowsAreBorn
  <2>3. PrintsStand
    BY <1>1, <2>1, <2>2 DEF PrintsStand
  <2>4. RowsArePrinted'
    BY <1>0, <1>1, <2>1, QueuedPrints
  <2>5. PairsAreSeen'
    <3>1. \A k \in rows' : intake'[k] = "scored" => k \in rows /\ intake[k] = "scored"
      BY <1>0, <2>1, <2>2
    <3>2. \A k : ~Comparing(thread[c], k)
      BY <1>0 DEF Comparing
    <3>3. \A k \in warned : k \in warned'
      BY <1>1
    <3> QED BY <1>1, <3>1, <3>2, <3>3, PairsMove DEF Drop
  <2> QED BY <1>1, <2>3, <2>4, <2>5, IdleKnows, PInvMoves DEF Drop
<1> QED BY <1>2, <1>3

\* start_analysis_run, with or without restore: the job had no active run, so its
\* posting is stored.
LEMMA EnqueuePrints ==
  ASSUME PInv, IInv', NEW c \in Threads, NEW j \in Jobs, Enqueue(c, j),
         UNCHANGED <<rows, printed, warned>>, j \in rows => j \in printed,
         thread[c].at \notin {"end", "ending", "compare", "flag"}
  PROVE  PInv'
<1> DEFINE n == [Idle EXCEPT !.at = "mark", !.job = j, !.goal = "scoring"]
<1>1. /\ Continue(c, n) /\ intake' = [intake EXCEPT ![j] = "queued"]
      /\ InsertRun(j, "queued")
  BY DEF Enqueue
<1>2. Knows(n)'
  BY DEF Knows, PastStructuring, Idle
<1>3. PrintsStand /\ RowsArePrinted'
  BY <1>1, QueuedPrints DEF PrintsStand
<1>4. \A k \in rows : intake'[k] = "scored" => intake[k] = "scored"
  BY <1>1 DEF PInv, IInv, Tables, TableTypes
<1> HIDE DEF n
<1>5. PairsAreSeen'
  BY <1>1, <1>4, PairsMove DEF Comparing
<1> QED BY <1>1, <1>2, <1>3, <1>5, PInvMoves

LEMMA StartPrints ==
  ASSUME PInv, IInv', NEW c \in Clients, StartWrite(c)
  PROVE  PInv'
<1>0. PICK s \in States : /\ s = thread[c] /\ s.at = "start" /\ s.job \in Jobs
                          /\ s.job \in rows => s.job \in printed
  BY DEF PInv, IInv, Fits, Knows, PastStructuring, StartWrite, At, Threads
<1>1. c \in Threads /\ UNCHANGED <<rows, born, archived, printed, warned, scores>>
  BY DEF StartWrite, Threads
<1>2. CASE Enqueue(c, s.job)
  BY <1>0, <1>1, <1>2, EnqueuePrints
<1>3. CASE Drop(c) /\ UNCHANGED <<intake, runVars>>
  BY <1>0, <1>1, <1>3, PDrops DEF tables, runVars
<1> QED BY <1>0, <1>2, <1>3 DEF StartWrite, JobOf

\* A step that moves no thread, stores no posting and scores no job.
LEMMA TablesPrint ==
  ASSUME PInv, IInv', UNCHANGED thread, rows' \subseteq rows,
         \A k \in rows' : /\ k \in printed => k \in printed'
                          /\ k \in warned => k \in warned'
                          /\ intake'[k] = intake[k] /\ runs'[k] = runs[k]
  PROVE  PInv'
<1>1. PrintsStand
  BY DEF PrintsStand
<1>2. \A t \in Threads : Knows(thread[t])'
  <2>1. \A s : Fits(s) /\ Knows(s) => Knows(s)'
    BY <1>1, KnowsIsKept
  <2> QED BY <2>1 DEF PInv, IInv, Knows
<1>3. RowsArePrinted'
  BY DEF PInv, RowsArePrinted
<1>4. PairsAreSeen'
  BY DEF PInv, PairsAreSeen, Comparing
<1> QED BY <1>2, <1>3, <1>4 DEF PInv

LEMMA RestorePrints ==
  ASSUME PInv, IInv', NEW c \in Clients, NEW j \in Jobs, RestoreAndStart(c, j)
  PROVE  PInv'
<1>1. /\ c \in Threads /\ thread[c].at = "idle" /\ j \in rows
      /\ UNCHANGED <<rows, born, printed, warned, scores>>
  BY DEF RestoreAndStart, Free, MayRun, Threads
<1>2. CASE ActiveRuns(j) = {}
  <2>1. j \in printed
    BY <1>1, <1>2, BusyRuns DEF PInv, RowsArePrinted
  <2> QED BY <1>1, <1>2, <2>1, EnqueuePrints DEF RestoreAndStart
<1>3. CASE ActiveRuns(j) /= {}
  BY <1>1, <1>3, TablesPrint DEF RestoreAndStart, runVars
<1> QED BY <1>2, <1>3

LEMMA RetryPrints ==
  ASSUME PInv, IInv', NEW c \in Clients, RetryWrite(c)
  PROVE  PInv'
<1>1. /\ c \in Threads /\ thread[c].at = "retry" /\ Drop(c)
      /\ UNCHANGED <<rows, born, archived, printed, warned, runs, current, scores>>
  BY DEF RetryWrite, At, Threads, runVars
<1>2. \A k \in rows : intake'[k] = "scored" => intake[k] = "scored"
  BY DEF RetryWrite, PInv, IInv, Tables, TableTypes
<1>3. PrintsStand /\ RowsArePrinted'
  BY <1>1, <1>2 DEF PrintsStand, PInv, RowsArePrinted
<1>4. PairsAreSeen'
  BY <1>1, <1>2, PairsMove DEF Drop, Comparing
<1> QED BY <1>1, <1>3, <1>4, IdleKnows, PInvMoves DEF Drop

LEMMA RowStepsPrint ==
  ASSUME PInv, IInv', NEW j \in Jobs, Archive(j) \/ Delete(j)
  PROVE  PInv'
<1>1. /\ rows \subseteq Jobs /\ runs \in [Jobs -> Seq(RunStatuses)]
      /\ intake \in [Jobs -> IntakeStatuses]
  BY DEF PInv, IInv, Tables, TableTypes
<1>2. CASE Archive(j)
  BY <1>2, TablesPrint DEF Archive, runVars
<1>3. CASE Delete(j)
  BY <1>1, <1>3, TablesPrint DEF Delete
<1> QED BY <1>2, <1>3

LEMMA NextPrints == (Crashes = FALSE /\ PInv /\ [Next]_vars) => PInv'
<1> SUFFICES ASSUME Crashes = FALSE, PInv, [Next]_vars PROVE PInv'
  OBVIOUS
<1>0. IInv'
  BY NextKeeps DEF PInv
<1>1. ASSUME NEW t \in Threads, Analyse(t) PROVE PInv'
  BY <1>0, <1>1, ReadsPrint, MarkPrints, TransitionPrints, SavePrints, EndPrints,
     FlagPrints DEF Analyse
<1>2. ASSUME NEW t \in Threads PROVE ~Crash(t)
  BY DEF Crash
<1>3. ASSUME NEW c \in Clients, Answer(c) PROVE PInv'
  BY <1>0, <1>3, CapturePrints, StartPrints, RetryPrints DEF Answer
<1>4. ASSUME NEW c \in Clients, NEW j \in Jobs, Request(c, j) PROVE PInv'
  BY <1>0, <1>4, AsksPrint, RestorePrints DEF Request
<1>5. ASSUME NEW j \in Jobs, Archive(j) \/ Delete(j) PROVE PInv'
  BY <1>0, <1>5, RowStepsPrint
<1>6. CASE UNCHANGED vars
  BY <1>0, <1>6, TablesPrint DEF vars, jobVars, runVars
<1> QED BY <1>1, <1>2, <1>3, <1>4, <1>5, <1>6 DEF Next

\* Of two jobs with one posting that are scored and at rest, one carries the
\* warning: however their analyses interleave, and whatever is re-scored, retried,
\* archived or deleted meanwhile, the later comparison finds the other posting.
THEOREM RepostsAreWarned ==
  ASSUME Crashes = FALSE
  PROVE  Spec => []RepostsAreFlagged
<1>1. Init => PInv
  <2> SUFFICES ASSUME Init PROVE PInv
    OBVIOUS
  <2>1. \A t \in Threads : Knows(thread[t])
    BY IdleKnows DEF Init
  <2> QED BY <2>1, InitHolds DEF Init, PInv, RowsArePrinted, PairsAreSeen
<1>2. PInv /\ [Next]_vars => PInv'
  BY NextPrints
<1>3. PInv => RepostsAreFlagged
  BY DEF PInv, PairsAreSeen, RepostsAreFlagged, Attended, Comparing, JobOf
<1> QED BY <1>1, <1>2, <1>3, PTL DEF Spec
=============================================================================
