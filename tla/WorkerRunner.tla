----------------------------- MODULE WorkerRunner -----------------------------
(***************************************************************************)
(* The worker processes: WorkerRunner.run_forever, which serves one queue, *)
(* and run_all, which serves several in turn; the worker_instances rows    *)
(* they keep; the health that the API reads off those rows; and the signal *)
(* and the SIGKILL with which dev-down stops them.                         *)
(*                                                                         *)
(* Time passes in ticks, and only while every process sleeps or works: the *)
(* code between takes none.  A heartbeat is kept as its age.               *)
(***************************************************************************)
EXTENDS Integers, FiniteSets, Sequences

CONSTANTS
  Processes,      \* worker processes
  Together,       \* the sets of processes that an instance starts
  Runners,        \* WorkerRunner objects, one worker_instances row each
  Loop,           \* the runners of a process, in the order of their turns
  Forever,        \* the processes that run run_forever; the others run_all
  Types,          \* worker types, one queue each
  TypeOf,         \* runner -> worker type
  Poll,           \* poll_seconds
  MaxBackoff,     \* idle_backoff_max_seconds
  Offline,        \* the heartbeat age that _worker_health tolerates
  MaxFailures,    \* max_consecutive_failures
  Grace,          \* timeout_seconds of stop_tracked_processes
  LongestWork,    \* bound of the model: ticks that one unit of work takes
  MaxAge,         \* bound of the model: older heartbeats are not told apart
  MaxQueued       \* bound of the model: units that wait in a queue

ASSUME LoopAssumption ==
  /\ Together \subseteq SUBSET Processes
  /\ Loop \in [Processes -> Seq(Runners)]
  /\ \A p \in Processes : Loop[p] /= <<>>
  /\ Forever \subseteq Processes /\ \A p \in Forever : Len(Loop[p]) = 1
  /\ TypeOf \in [Runners -> Types]
  /\ \A p, q \in Processes : \A i \in DOMAIN Loop[p], j \in DOMAIN Loop[q] :
       Loop[p][i] = Loop[q][j] => p = q   \* a process has rows of its own
ASSUME TimeAssumption ==
  /\ {Poll, MaxBackoff, MaxFailures} \subseteq Nat \ {0}
  /\ {Offline, Grace, LongestWork, MaxAge, MaxQueued} \subseteq Nat

VARIABLES
  row,       \* worker_instances: state, consecutive failures, age of heartbeat
  proc,      \* where a process is in its loop
  signal,    \* what dev-down did: asked, ticks since, stop_requested as seen
  late,      \* units a process claimed after it was asked to stop
  queued     \* the units that wait in each queue

vars == <<row, proc, signal, late, queued>>

States == {"none", "starting", "idle", "processing", "backing_off", "unhealthy",
           "stopping", "stopped"}
Places == {"absent", "register", "round", "turn", "once", "claim", "work", "returned", "sleep",
           "finally", "exit", "ended", "killed"}

Init ==
  /\ row = [r \in Runners |-> [state |-> "none", failures |-> 0, age |-> 0]]
  /\ \E started \in Together :
       proc = [p \in Processes |->
         [at |-> IF p \in started THEN "register" ELSE "absent",
          turn |-> 1, left |-> 0, backoff |-> Poll, did |-> FALSE]]
  /\ signal = [p \in Processes |-> [asked |-> FALSE, since |-> 0, stop |-> FALSE]]
  /\ late = [p \in Processes |-> 0]
  /\ queued = [t \in Types |-> 0]

-----------------------------------------------------------------------------
Gone(p)   == proc[p].at \in {"absent", "ended", "killed"}
Runner(p) == Loop[p][proc[p].turn]
At(p, place) == proc[p].at = place
Goto(p, place) == proc' = [proc EXCEPT ![p].at = place]

Smaller(a, b) == IF a <= b THEN a ELSE b
Larger(a, b)  == IF a >= b THEN a ELSE b

\* update_worker_instance: a new state and a heartbeat.
Beat(r, state) == row' = [row EXCEPT ![r].state = state, ![r].age = 0]

\* register_worker_instance, of every runner before the first turn.
Register(p) ==
  /\ At(p, "register")
  /\ row' = [row EXCEPT ![Runner(p)] = [state |-> "starting", failures |-> 0, age |-> 0]]
  /\ IF proc[p].turn < Len(Loop[p])
     THEN proc' = [proc EXCEPT ![p].turn = @ + 1]
     ELSE proc' = [proc EXCEPT ![p].turn = 1, ![p].at = "round"]
  /\ UNCHANGED <<signal, late, queued>>

\* Both loops: while not stop_requested.
NextRound(p) ==
  /\ At(p, "round")
  /\ Goto(p, IF signal[p].stop THEN "finally"
             ELSE IF p \in Forever THEN "once" ELSE "turn")
  /\ UNCHANGED <<row, signal, late, queued>>

\* run_all looks at the signal before every turn; it leaves the round, and
\* still sleeps when no earlier turn of it did any work.
NextTurn(p) ==
  /\ At(p, "turn")
  /\ IF ~signal[p].stop THEN Goto(p, "once")
     ELSE proc' = [proc EXCEPT ![p].at = IF proc[p].did THEN "round" ELSE "sleep",
                               ![p].left = Poll, ![p].turn = 1, ![p].did = FALSE]
  /\ UNCHANGED <<row, signal, late, queued>>

\* run_once, before the claim: a stop request seen here ends it.
RunOnce(p) ==
  /\ At(p, "once")
  /\ IF signal[p].stop
     THEN Beat(Runner(p), "stopping") /\ Goto(p, "returned")
     ELSE Beat(Runner(p), "idle") /\ Goto(p, "claim")
  /\ UNCHANGED <<signal, late, queued>>

\* _process_one: process_next claims a unit of work, or finds none.
Claim(p) ==
  LET r == Runner(p)
      t == TypeOf[r]
  IN
  /\ At(p, "claim")
  /\ IF queued[t] > 0
     THEN /\ Beat(r, "processing")
          /\ queued' = [queued EXCEPT ![t] = @ - 1]
          /\ proc' = [proc EXCEPT ![p].at = "work", ![p].left = LongestWork]
          /\ late' = [late EXCEPT ![p] = IF signal[p].asked THEN Smaller(@ + 1, 2) ELSE @]
     ELSE Beat(r, "idle") /\ Goto(p, "returned") /\ UNCHANGED <<queued, late>>
  /\ UNCHANGED signal

\* The unit is done.
EndWork(p) ==
  /\ At(p, "work") /\ proc[p].left < LongestWork
  /\ row' = [row EXCEPT ![Runner(p)] = [state |-> "idle", failures |-> 0, age |-> 0]]
  /\ proc' = [proc EXCEPT ![p].at = "returned", ![p].did = TRUE, ![p].left = 0]
  /\ UNCHANGED <<signal, late, queued>>

\* An exception escapes process_next, and run_once catches it.
Fail(p) ==
  LET r == Runner(p) IN
  /\ At(p, "claim") \/ (At(p, "work") /\ proc[p].left < LongestWork)
  /\ row' = [row EXCEPT ![r].state = "unhealthy", ![r].age = 0,
                        ![r].failures = Smaller(@ + 1, MaxFailures)]
  /\ proc' = [proc EXCEPT ![p].at = "returned", ![p].left = 0]
  /\ UNCHANGED <<signal, late, queued>>

\* Mutant: the back-off doubles without a limit.
BackOffUnlimited(b) == Larger(Poll, 2 * b)

\* The next idle_sleep of run_forever.
BackOff(b) == Smaller(MaxBackoff, Larger(Poll, 2 * b))

\* Mutant: the signal is not looked at between run_once and the back-off.
ReturnForeverLate(p) ==
  /\ At(p, "returned") /\ p \in Forever
  /\ IF proc[p].did
     THEN /\ proc' = [proc EXCEPT ![p].at = "round", ![p].backoff = Poll, ![p].did = FALSE]
          /\ UNCHANGED row
     ELSE /\ Beat(Runner(p), "backing_off")
          /\ proc' = [proc EXCEPT ![p].at = "sleep", ![p].left = proc[p].backoff,
                                  ![p].backoff = BackOff(@)]
  /\ UNCHANGED <<signal, late, queued>>

\* run_forever after run_once: stop, go on at once, or back off.
ReturnForever(p) ==
  /\ At(p, "returned") /\ p \in Forever
  /\ IF signal[p].stop THEN Goto(p, "finally") /\ UNCHANGED row
     ELSE IF proc[p].did
     THEN /\ proc' = [proc EXCEPT ![p].at = "round", ![p].backoff = Poll, ![p].did = FALSE]
          /\ UNCHANGED row
     ELSE /\ Beat(Runner(p), "backing_off")
          /\ proc' = [proc EXCEPT ![p].at = "sleep", ![p].left = proc[p].backoff,
                                  ![p].backoff = BackOff(@)]
  /\ UNCHANGED <<signal, late, queued>>

\* Mutant: a runner that found work has its turn again.
ReturnAllGreedy(p) ==
  /\ At(p, "returned") /\ p \notin Forever
  /\ IF proc[p].did THEN proc' = [proc EXCEPT ![p].at = "turn", ![p].did = FALSE]
     ELSE IF proc[p].turn < Len(Loop[p])
     THEN proc' = [proc EXCEPT ![p].at = "turn", ![p].turn = @ + 1]
     ELSE proc' = [proc EXCEPT ![p].at = "sleep", ![p].left = Poll, ![p].turn = 1]
  /\ UNCHANGED <<row, signal, late, queued>>

\* run_all after run_once: the next runner, or after the last one a new round,
\* at once when the round did any work.
ReturnAll(p) ==
  /\ At(p, "returned") /\ p \notin Forever
  /\ IF proc[p].turn < Len(Loop[p])
     THEN proc' = [proc EXCEPT ![p].at = "turn", ![p].turn = @ + 1]
     ELSE IF proc[p].did
     THEN proc' = [proc EXCEPT ![p].at = "round", ![p].turn = 1, ![p].did = FALSE]
     ELSE proc' = [proc EXCEPT ![p].at = "sleep", ![p].left = Poll, ![p].turn = 1]
  /\ UNCHANGED <<row, signal, late, queued>>

\* time.sleep is over; a signal does not shorten it.
Wake(p) ==
  /\ At(p, "sleep") /\ proc[p].left = 0
  /\ Goto(p, "round")
  /\ UNCHANGED <<row, signal, late, queued>>

\* A database error in a heartbeat outside the try of run_once ends the loop.
DatabaseFails(p) ==
  /\ proc[p].at \in {"once", "returned"}
  /\ proc' = [proc EXCEPT ![p].at = "finally", ![p].turn = 1]
  /\ UNCHANGED <<row, signal, late, queued>>

\* Mutant: only the first runner's row is marked.
StopOne(p) ==
  /\ At(p, "finally")
  /\ Beat(Runner(p), "stopped")
  /\ Goto(p, "exit")
  /\ UNCHANGED <<signal, late, queued>>

\* finally: stop_worker_instance of one runner after the other, a transaction each.
Stop(p) ==
  /\ At(p, "finally")
  /\ Beat(Runner(p), "stopped")
  /\ IF proc[p].turn < Len(Loop[p])
     THEN proc' = [proc EXCEPT ![p].turn = @ + 1]
     ELSE Goto(p, "exit")
  /\ UNCHANGED <<signal, late, queued>>

\* The process exits of itself.
Exit(p) ==
  /\ At(p, "exit")
  /\ Goto(p, "ended")
  /\ UNCHANGED <<row, signal, late, queued>>

-----------------------------------------------------------------------------
\* dev-down and the rest of the world.

\* Mutant: the handler is that of another StopSignal than the runners'.
RequestStopElsewhere(p) ==
  /\ ~Gone(p) /\ ~signal[p].asked
  /\ signal' = [signal EXCEPT ![p].asked = TRUE]
  /\ UNCHANGED <<row, proc, late, queued>>

\* SIGTERM or SIGINT: StopSignal.request_stop.
RequestStop(p) ==
  /\ ~Gone(p) /\ ~signal[p].asked
  /\ signal' = [signal EXCEPT ![p].asked = TRUE, ![p].stop = TRUE]
  /\ UNCHANGED <<row, proc, late, queued>>

\* stop_tracked_processes sends SIGKILL when the grace is over.
Kill(p) ==
  /\ ~Gone(p) /\ signal[p].asked /\ signal[p].since >= Grace
  /\ Goto(p, "killed")
  /\ UNCHANGED <<row, signal, late, queued>>

\* The process dies of anything else, an error in its finally too.
Crash(p) ==
  /\ ~Gone(p)
  /\ Goto(p, "killed")
  /\ UNCHANGED <<row, signal, late, queued>>

\* A job reaches a queue.
Capture(t) ==
  /\ queued[t] < MaxQueued
  /\ queued' = [queued EXCEPT ![t] = @ + 1]
  /\ UNCHANGED <<row, proc, signal, late>>

\* The longest a process can take to see a signal: it is in the middle of a
\* sleep or of a unit of work, after which run_all may sleep once more.
LongestStop(p) ==
  IF p \in Forever THEN Larger(Larger(Poll, MaxBackoff), LongestWork) ELSE LongestWork + Poll

\* The longest sleep of a loop, and the longest that a row of it is not written:
\* while its own unit lasts, or those of all the others and then a sleep.
LongestSleep(p) == IF p \in Forever THEN Larger(Poll, MaxBackoff) ELSE Poll
LongestSilence(p) == Larger(LongestWork, (Len(Loop[p]) - 1) * LongestWork + LongestSleep(p))

ASSUME AgeAssumption ==
  Offline < MaxAge /\ \A p \in Processes : LongestSilence(p) < MaxAge

Waiting(p) == Gone(p) \/ (proc[p].at \in {"work", "sleep"} /\ proc[p].left > 0)

\* A tick: sleeps and units of work get shorter, heartbeats and requests older;
\* neither is counted further than any guard or property looks.
Tick ==
  /\ \A p \in Processes : Waiting(p)
  /\ proc' = [p \in Processes |-> IF Gone(p) THEN proc[p] ELSE [proc[p] EXCEPT !.left = @ - 1]]
  /\ row' = [r \in Runners |-> [row[r] EXCEPT !.age =
               IF row[r].state = "none" THEN 0 ELSE Smaller(@ + 1, MaxAge)]]
  /\ signal' = [p \in Processes |-> IF signal[p].asked /\ ~Gone(p)
                                    THEN [signal[p] EXCEPT !.since =
                                            Smaller(@ + 1, Larger(Grace, LongestStop(p)) + 1)]
                                    ELSE signal[p]]
  /\ UNCHANGED <<late, queued>>

-----------------------------------------------------------------------------
\* The health that GET /api/workers/status reports.

\* Mutant: the age of the heartbeat is not looked at.
WorkerHealthByState(r) ==
  IF row[r].state \in {"none", "stopped", "stopping"} THEN "offline"
  ELSE IF row[r].failures >= MaxFailures \/ row[r].state = "unhealthy" THEN "degraded"
  ELSE IF row[r].state = "idle" THEN "idle"
  ELSE "healthy"

\* _worker_health; "none" is a worker without a row.
WorkerHealth(r) ==
  IF row[r].state \in {"none", "stopped", "stopping"} \/ row[r].age > Offline THEN "offline"
  ELSE IF row[r].failures >= MaxFailures \/ row[r].state = "unhealthy" THEN "degraded"
  ELSE IF row[r].state = "idle" THEN "idle"
  ELSE "healthy"

HealthyWorkers(t) ==
  {r \in Runners : TypeOf[r] = t /\ WorkerHealth(r) \in {"healthy", "idle"}}

Processing(t) == \E p \in Processes : At(p, "work") /\ TypeOf[Runner(p)] = t

\* _queue_health.  Its other warnings (stale, exhausted, old and failed work)
\* come from the queues' own tables, and make the queue degraded too.
QueueHealth(t) ==
  IF queued[t] > 0 /\ HealthyWorkers(t) = {} THEN "degraded"
  ELSE IF queued[t] > 0 \/ Processing(t) THEN "healthy"
  ELSE IF HealthyWorkers(t) /= {} THEN "idle"
  ELSE "offline"

-----------------------------------------------------------------------------
Step(p) ==
  \/ Register(p) \/ NextRound(p) \/ NextTurn(p) \/ RunOnce(p) \/ Claim(p)
  \/ EndWork(p) \/ Fail(p) \/ ReturnForever(p) \/ ReturnAll(p) \/ Wake(p)
  \/ Stop(p) \/ Exit(p)

Next ==
  \/ \E p \in Processes :
       Step(p) \/ DatabaseFails(p) \/ RequestStop(p) \/ Kill(p) \/ Crash(p)
  \/ \E t \in Types : Capture(t)
  \/ Tick

Spec == Init /\ [][Next]_vars

\* A process runs, and time passes.
FairSpec == Spec /\ WF_vars(Tick) /\ \A p \in Processes : WF_vars(Step(p))

-----------------------------------------------------------------------------
\* Properties.

\* Every variable keeps its type.  A row is stopped only once its process leaves its
\* loop, and a process that ended of itself has stopped all its rows; one that was
\* killed on the way out may have stopped some.
TypeOK ==
  /\ row \in [Runners -> [state : States, failures : 0..MaxFailures, age : 0..MaxAge]]
  /\ proc \in [Processes -> [at : Places, turn : Nat \ {0}, left : Nat, backoff : Nat,
                             did : BOOLEAN]]
  /\ signal \in [Processes -> [asked : BOOLEAN, since : Nat, stop : BOOLEAN]]
  /\ late \in [Processes -> Nat]
  /\ queued \in [Types -> 0..MaxQueued]
  /\ \A p \in Processes : \A i \in DOMAIN Loop[p] :
       /\ row[Loop[p][i]].state = "stopped" =>
            proc[p].at \in {"finally", "exit", "ended", "killed"}
       /\ proc[p].at \in {"exit", "ended"} => row[Loop[p][i]].state = "stopped"

\* Whatever works, fails or finds nothing, a process that is alive and not asked to
\* stop leaves none of its rows alone for longer than LongestSilence: this, and not
\* one sleep or one unit, is what the age that the health tolerates has to cover.
\* No code relates the two, and with the defaults it does not cover it.
SilenceIsBounded ==
  \A p \in Processes : ~Gone(p) /\ ~signal[p].stop =>
    \A i \in DOMAIN Loop[p] : row[Loop[p][i]].age <= LongestSilence(p)

\* A process asked to stop claims at most the one unit it was about to claim.
OneLateUnit == \A p \in Processes : late[p] <= 1

\* A process stops within the sleep or the unit of work that it is in, and the
\* one sleep more of run_all: this is what dev-down's grace has to cover.
StopIsPrompt == \A p \in Processes : signal[p].since <= LongestStop(p)

\* A process asked to stop ends.
StopIsHonoured == \A p \in Processes : signal[p].asked ~> Gone(p)

\* Work that waits for workers that are all gone, however they went, is
\* reported in the end: the queue becomes degraded.
UnservedIsReported ==
  \A t \in Types :
    (queued[t] > 0 /\ \A p \in Processes :
                        Gone(p) \/ \A i \in DOMAIN Loop[p] : TypeOf[Loop[p][i]] /= t)
      ~> QueueHealth(t) = "degraded"

\* A queue that always has work does not keep run_all from its other queues:
\* every runner has its turn again and again until its process is gone.
EveryRunnerPolls ==
  \A p \in Processes : \A i \in DOMAIN Loop[p] :
    []<>(Gone(p) \/ (At(p, "claim") /\ proc[p].turn = i))
=============================================================================
