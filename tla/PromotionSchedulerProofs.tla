----------------------- MODULE PromotionSchedulerProofs -----------------------
(***************************************************************************)
(* Theorems about PromotionScheduler, for any number of jobs and threads   *)
(* and any limits: how far overlapping cycles can exceed the capacity and  *)
(* the daily budget, and that dashboard and scheduler agree.               *)
(***************************************************************************)
EXTENDS PromotionScheduler, FiniteSetTheorems, TLAPS

\* A thread's cycle, but for the order of its list.
IsCycle(c) ==
  /\ c \in [step : Steps, stale : SUBSET Jobs, room : 0..Capacity, list : {c.list},
            manual : BOOLEAN, today : BOOLEAN]
  /\ c.step \in {"idle", "recover", "count"} => c.room = 0 /\ ~c.manual
  /\ c.step \in {"select", "read", "write"} /\ ~c.manual => c.room <= Budget
  /\ c.step = "write" => c.room > 0

TaskRows == [status : TaskStatuses, manual : BOOLEAN, again : BOOLEAN, today : BOOLEAN,
             workers : Nat]

Typed ==
  /\ job \in [Jobs -> JobStates]
  /\ task \in [Jobs -> TaskRows]
  /\ \A j \in Jobs : task[j].today => HasTask(j)
  /\ cycle = [t \in Threads |-> cycle[t]]
  /\ \A t \in Threads : IsCycle(cycle[t])

\* What counts against the capacity and against the budget.
Unfinished ==
  {j \in Jobs : task[j].status \notin {"none", "ready", "failed"}
                /\ ~task[j].manual /\ ~task[j].again}
OfToday == {j \in Jobs : task[j].today /\ ~task[j].manual}

\* The promotions that the cycles may still make, as far as they have read the
\* capacity and the budget: a pair for each.
Places == {s \in Threads \X (1..Capacity) :
             ~cycle[s[1]].manual /\ s[2] <= cycle[s[1]].room}
Spendings == {s \in Threads \X (1..Budget) :
                /\ ~cycle[s[1]].manual /\ s[2] <= cycle[s[1]].room
                /\ cycle[s[1]].step \in {"select", "read", "write"}}

\* The inductive invariant: what is there and what is still to come.
WithinCapacity ==
  Cardinality(Unfinished) + Cardinality(Places) <= Capacity * Cardinality(Threads)
WithinBudget ==
  Cardinality(OfToday) + Cardinality(Spendings) <= Budget * Cardinality(Threads)

IInv == Typed /\ WithinCapacity /\ WithinBudget

-----------------------------------------------------------------------------
\* Counting.

LEMMA Fewer ==
  ASSUME NEW A, IsFiniteSet(A), NEW B, IsFiniteSet(B), NEW C \in SUBSET A,
         NEW D \in SUBSET B, NEW n \in Nat, Cardinality(A) + Cardinality(B) <= n
  PROVE  Cardinality(C) + Cardinality(D) <= n
<1>1. Cardinality(C) <= Cardinality(A) /\ Cardinality(C) \in Nat
  BY FS_Subset, FS_CardinalityType
<1>2. Cardinality(D) <= Cardinality(B) /\ Cardinality(D) \in Nat
  BY FS_Subset, FS_CardinalityType
<1>3. Cardinality(A) \in Nat /\ Cardinality(B) \in Nat
  BY FS_CardinalityType
<1> QED BY <1>1, <1>2, <1>3

\* A promotion is made: one of those to come becomes one that is there.
LEMMA OneIsMade ==
  ASSUME NEW A, IsFiniteSet(A), NEW B, IsFiniteSet(B), NEW x, NEW s \in B,
         NEW C \in SUBSET (A \cup {x}), NEW D \in SUBSET (B \ {s}),
         NEW n \in Nat, Cardinality(A) + Cardinality(B) <= n
  PROVE  Cardinality(C) + Cardinality(D) <= n
<1>1. /\ IsFiniteSet(A \cup {x}) /\ Cardinality(A \cup {x}) <= Cardinality(A) + 1
      /\ Cardinality(A) \in Nat /\ Cardinality(A \cup {x}) \in Nat
  <2>1. Cardinality(A) \in Nat
    BY FS_CardinalityType
  <2>2. /\ IsFiniteSet(A \cup {x})
        /\ Cardinality(A \cup {x}) = IF x \in A THEN Cardinality(A) ELSE Cardinality(A) + 1
    BY FS_AddElement
  <2>3. Cardinality(A \cup {x}) \in Nat
    BY <2>2, FS_CardinalityType
  <2> QED BY <2>1, <2>2, <2>3
<1>2. /\ IsFiniteSet(B \ {s}) /\ Cardinality(B \ {s}) = Cardinality(B) - 1
      /\ Cardinality(B) \in Nat /\ Cardinality(B \ {s}) \in Nat
  BY FS_RemoveElement, FS_CardinalityType
<1>3. Cardinality(A \cup {x}) + Cardinality(B \ {s}) <= n
  BY <1>1, <1>2
<1> QED BY <1>1, <1>2, <1>3, Fewer

\* A cycle reads what is left of a limit: the others have no more than the limit
\* each, and what it may add it has seen to be free.
LEMMA RestIsRead ==
  ASSUME NEW l \in Nat, NEW r \in 0..l, NEW A, IsFiniteSet(A), Cardinality(A) <= l - r,
         NEW t \in Threads,
         NEW S \in SUBSET (((Threads \ {t}) \X (1..l)) \cup ({t} \X (1..r)))
  PROVE  Cardinality(A) + Cardinality(S) <= l * Cardinality(Threads)
<1> DEFINE O == (Threads \ {t}) \X (1..l)
           M == {t} \X (1..r)
           n == Cardinality(Threads)
<1>1. /\ IsFiniteSet(Threads \ {t}) /\ Cardinality(Threads \ {t}) = n - 1
      /\ n \in Nat /\ n - 1 \in Nat
  <2>1. IsFiniteSet(Threads) /\ n \in Nat
    BY FiniteAssumption, FS_CardinalityType
  <2>2. /\ IsFiniteSet(Threads \ {t})
        /\ Cardinality(Threads \ {t}) = IF t \in Threads THEN n - 1 ELSE n
    BY <2>1, FS_RemoveElement
  <2>3. Cardinality(Threads \ {t}) \in Nat
    BY <2>2, FS_CardinalityType
  <2> QED BY <2>1, <2>2, <2>3
<1>2. IsFiniteSet(1..l) /\ Cardinality(1..l) = l /\ IsFiniteSet(1..r) /\ Cardinality(1..r) = r
  BY FS_Interval
<1>3. IsFiniteSet({t}) /\ Cardinality({t}) = 1
  BY FS_Singleton
<1>4. IsFiniteSet(O) /\ Cardinality(O) = (n - 1) * l
  <2>1. /\ IsFiniteSet(O)
        /\ Cardinality(O) = Cardinality(Threads \ {t}) * Cardinality(1..l)
    BY <1>1, <1>2, FS_Product
  <2> QED BY <2>1, <1>1, <1>2
<1>5. IsFiniteSet(M) /\ Cardinality(M) = r
  <2>1. IsFiniteSet(M) /\ Cardinality(M) = Cardinality({t}) * Cardinality(1..r)
    BY <1>2, <1>3, FS_Product
  <2> QED BY <2>1, <1>2, <1>3
<1>6. IsFiniteSet(O \cup M) /\ Cardinality(O \cup M) <= Cardinality(O) + Cardinality(M)
  <2>1. Cardinality(O \cap M) \in Nat
    BY <1>4, FS_Intersection, FS_CardinalityType
  <2>2. Cardinality(O \cup M) = Cardinality(O) + Cardinality(M) - Cardinality(O \cap M)
    BY <1>4, <1>5, FS_Union
  <2>3. IsFiniteSet(O \cup M) /\ Cardinality(O) \in Nat /\ Cardinality(M) \in Nat
    BY <1>4, <1>5, FS_Union, FS_CardinalityType
  <2> QED BY <2>1, <2>2, <2>3
<1>7. Cardinality(S) <= Cardinality(O \cup M) /\ Cardinality(S) \in Nat
  BY <1>6, FS_Subset, FS_CardinalityType
<1>8. Cardinality(O \cup M) \in Nat /\ Cardinality(A) \in Nat
  BY <1>6, FS_CardinalityType
<1>9. (n - 1) * l + l = l * n
  BY <1>1
<1>10. (n - 1) * l \in Nat /\ l * n \in Nat
  BY <1>1
<1> HIDE DEF O, M, n
<1>11. Cardinality(S) <= (n - 1) * l + r
  BY <1>4, <1>5, <1>6, <1>7, <1>8, <1>10
<1>12. Cardinality(A) + Cardinality(S) <= l * n
  BY <1>8, <1>7, <1>9, <1>10, <1>11
<1> QED BY <1>12 DEF n

LEMMA FiniteCounts ==
  /\ IsFiniteSet(Unfinished) /\ IsFiniteSet(OfToday)
  /\ IsFiniteSet(Places) /\ IsFiniteSet(Spendings)
  /\ Capacity * Cardinality(Threads) \in Nat /\ Budget * Cardinality(Threads) \in Nat
<1>1. Unfinished \subseteq Jobs /\ OfToday \subseteq Jobs
  BY DEF Unfinished, OfToday
<1>2. IsFiniteSet(1..Capacity) /\ IsFiniteSet(1..Budget)
  BY PolicyAssumption, FS_Interval
<1>3. IsFiniteSet(Threads \X (1..Capacity)) /\ IsFiniteSet(Threads \X (1..Budget))
  BY <1>2, FiniteAssumption, FS_Product
<1>4. Places \subseteq Threads \X (1..Capacity) /\ Spendings \subseteq Threads \X (1..Budget)
  BY DEF Places, Spendings
<1>5. Cardinality(Threads) \in Nat
  BY FiniteAssumption, FS_CardinalityType
<1>6. Capacity * Cardinality(Threads) \in Nat /\ Budget * Cardinality(Threads) \in Nat
  BY <1>5, PolicyAssumption
<1> QED BY <1>1, <1>3, <1>4, <1>6, FiniteAssumption, FS_Subset

\* Steps that add nothing to what is there or to come.
LEMMA LessIsWithin ==
  /\ WithinCapacity /\ Unfinished' \subseteq Unfinished /\ Places' \subseteq Places
       => WithinCapacity'
  /\ WithinBudget /\ OfToday' \subseteq OfToday /\ Spendings' \subseteq Spendings
       => WithinBudget'
<1>1. SUFFICES ASSUME WithinCapacity, Unfinished' \subseteq Unfinished,
                      Places' \subseteq Places
               PROVE  WithinCapacity'
  <2>1. SUFFICES ASSUME WithinBudget, OfToday' \subseteq OfToday,
                        Spendings' \subseteq Spendings
                 PROVE  WithinBudget'
    BY <1>1
  <2> QED BY <2>1, FiniteCounts, Fewer DEF WithinBudget
<1> QED BY <1>1, FiniteCounts, Fewer DEF WithinCapacity

-----------------------------------------------------------------------------
\* Steps of the cycles.

LEMMA IdleIsCycle == IsCycle(Idle) /\ Idle.room = 0
BY PolicyAssumption DEF IsCycle, Idle, Steps

LEMMA Counted ==
  ASSUME NEW d, IsCycle(d), NEW s \in {"budget", "select"}, NEW r \in 0..Capacity,
         s = "budget" \/ r <= Budget
  PROVE  LET c == [d EXCEPT !.step = s, !.room = r] IN
         IsCycle(c) /\ c.room = r /\ c.step = s /\ c.manual = d.manual
BY DEF IsCycle, Steps

\* A thread moves on with the tasks as they are.
LEMMA CycleMoves ==
  ASSUME Typed, NEW t \in Threads, NEW c, IsCycle(c), cycle' = [cycle EXCEPT ![t] = c],
         UNCHANGED job, task' \in [Jobs -> TaskRows],
         \A j \in Jobs : task'[j].today => HasTask(j)'
  PROVE  Typed' /\ cycle'[t] = c /\ \A u \in Threads \ {t} : cycle'[u] = cycle[u]
<1>1. cycle'[t] = c /\ \A u \in Threads \ {t} : cycle'[u] = cycle[u]
  BY DEF Typed
<1>2. \A u \in Threads : IsCycle(cycle[u])'
  <2>1. \A u \in Threads : IsCycle(cycle'[u])
    BY <1>1 DEF Typed
  <2> QED BY <2>1 DEF IsCycle
<1>3. cycle' = [u \in Threads |-> cycle'[u]]
  BY DEF Typed
<1> QED BY <1>1, <1>2, <1>3 DEF Typed

\* It moves on without more room than it had.
LEMMA QuietMove ==
  ASSUME IInv, NEW t \in Threads, NEW c, IsCycle(c), cycle' = [cycle EXCEPT ![t] = c],
         UNCHANGED <<job, task>>,
         \/ c.manual
         \/ /\ c.manual = cycle[t].manual /\ c.room = cycle[t].room
            /\ cycle[t].step \in {"select", "read", "write"}
  PROVE  IInv'
<1>1. Typed' /\ cycle'[t] = c /\ \A u \in Threads \ {t} : cycle'[u] = cycle[u]
  BY CycleMoves DEF IInv, Typed, HasTask
<1>2. c.room \in Nat /\ cycle[t].room \in Nat
  BY PolicyAssumption DEF IInv, Typed, IsCycle
<1>3. Places' \subseteq Places
  BY <1>1, <1>2 DEF Places
<1>4. Spendings' \subseteq Spendings
  BY <1>1, <1>2, PolicyAssumption DEF Spendings
<1>5. Unfinished' = Unfinished /\ OfToday' = OfToday
  BY DEF Unfinished, OfToday
<1> QED BY <1>1, <1>3, <1>4, <1>5, LessIsWithin DEF IInv

\* A recovery goes on without any room.
LEMMA RecoveryMoves ==
  ASSUME IInv, NEW t \in Threads, NEW c, IsCycle(c), cycle' = [cycle EXCEPT ![t] = c],
         UNCHANGED job, task' \in [Jobs -> TaskRows],
         \A j \in Jobs : /\ task'[j].today => HasTask(j)' /\ task[j].today
                         /\ task'[j].manual = task[j].manual,
         Unfinished' \subseteq Unfinished, c.step \in {"idle", "recover", "count"}
  PROVE  IInv'
<1>1. Typed' /\ cycle'[t] = c /\ \A u \in Threads \ {t} : cycle'[u] = cycle[u]
  BY CycleMoves DEF IInv
<1>2. c.room = 0
  BY DEF IsCycle
<1>3. Places' \subseteq Places /\ Spendings' \subseteq Spendings
  BY <1>1, <1>2 DEF Places, Spendings
<1>4. OfToday' \subseteq OfToday
  BY DEF OfToday
<1> QED BY <1>1, <1>3, <1>4, LessIsWithin DEF IInv

LEMMA RecoverReadKeeps ==
  ASSUME IInv, NEW t \in Threads, RecoverRead(t)
  PROVE  IInv'
<1> DEFINE stale == {j \in Jobs : task[j].status = "stale"}
           next  == IF stale = {} THEN "count" ELSE "recover"
           c == [cycle[t] EXCEPT !.step = next, !.stale = stale]
<1>1. cycle[t].step = "idle" /\ UNCHANGED <<job, task>> /\ cycle' = [cycle EXCEPT ![t] = c]
  BY DEF RecoverRead
<1>2. stale \in SUBSET Jobs /\ next \in {"recover", "count"} /\ next \in Steps
  BY DEF Steps
<1> HIDE DEF stale, next
<1>3. IsCycle(c) /\ c.step = next
  <2>1. IsCycle(cycle[t])
    BY DEF IInv, Typed
  <2> QED BY <1>1, <1>2, <2>1 DEF IsCycle
<1> HIDE DEF c
<1>4. Unfinished' = Unfinished
  BY <1>1 DEF Unfinished
<1>5. /\ task' \in [Jobs -> TaskRows]
      /\ \A j \in Jobs : /\ task'[j].today => HasTask(j)' /\ task[j].today
                         /\ task'[j].manual = task[j].manual
  BY <1>1 DEF IInv, Typed, HasTask
<1> QED BY <1>1, <1>2, <1>3, <1>4, <1>5, RecoveryMoves

\* What it writes makes no task count that did not count: one that had ended counts as
\* back from its end.
LEMMA RecoverWriteKeeps ==
  ASSUME IInv, NEW t \in Threads, RecoverWrite(t)
  PROVE  IInv'
<1>1. cycle[t].step = "recover" /\ UNCHANGED job /\ IsCycle(cycle[t])
  BY DEF RecoverWrite, IInv, Typed
<1>2. CASE \E j \in cycle[t].stale : ~HasTask(j)
  <2>1. cycle' = [cycle EXCEPT ![t] = Idle] /\ UNCHANGED task
    BY <1>2 DEF RecoverWrite, Finish
  <2>2. Unfinished' = Unfinished
    BY <2>1 DEF Unfinished
  <2>3. /\ task' \in [Jobs -> TaskRows]
        /\ \A j \in Jobs : /\ task'[j].today => HasTask(j)' /\ task[j].today
                           /\ task'[j].manual = task[j].manual
    BY <2>1 DEF IInv, Typed, HasTask
  <2>4. IsCycle(Idle) /\ Idle.step = "idle"
    BY IdleIsCycle DEF Idle
  <2> QED BY <1>1, <2>1, <2>2, <2>3, <2>4, RecoveryMoves
<1>3. CASE ~\E j \in cycle[t].stale : ~HasTask(j)
  <2> DEFINE c == [cycle[t] EXCEPT !.step = "count", !.stale = {}]
  <2>1. cycle' = [cycle EXCEPT ![t] = c]
    BY <1>3 DEF RecoverWrite
  <2>2. PICK next \in [cycle[t].stale -> {"queued", "failed"}] :
          task' = [j \in Jobs |->
            IF j \in cycle[t].stale
            THEN [task[j] EXCEPT !.status = next[j], !.again = @ \/ Ended(j)]
            ELSE task[j]]
    BY <1>3 DEF RecoverWrite
  <2>3. IsCycle(c) /\ c.step = "count"
    BY <1>1 DEF IsCycle, Steps
  <2> HIDE DEF c
  <2>4. ASSUME NEW j \in Jobs
        PROVE  /\ task'[j] \in TaskRows /\ task'[j].manual = task[j].manual
               /\ task'[j].today = task[j].today
               /\ task'[j].status = "none" => task[j].status = "none"
               /\ \/ task'[j] = task[j] \/ task'[j].again
                  \/ /\ task[j].status \notin {"none", "ready", "failed"}
                     /\ task'[j].again = task[j].again
    <3>1. task[j] \in TaskRows
      BY DEF IInv, Typed
    <3>2. CASE j \notin cycle[t].stale
      BY <2>2, <3>1, <3>2
    <3>3. CASE j \in cycle[t].stale
      <4> DEFINE e == [task[j] EXCEPT !.status = next[j], !.again = task[j].again \/ Ended(j)]
      <4>1. next[j] \in {"queued", "failed"} /\ next[j] \in TaskStatuses
        BY <2>2, <3>3 DEF TaskStatuses
      <4>2. PICK b \in BOOLEAN : b = (task[j].again \/ Ended(j))
        OBVIOUS
      <4>3. task'[j] = [task[j] EXCEPT !.status = next[j], !.again = b]
        BY <2>2, <3>3, <4>2
      <4>4. /\ task'[j] \in TaskRows /\ task'[j].manual = task[j].manual
            /\ task'[j].today = task[j].today /\ task'[j].status = next[j]
            /\ task'[j].again = b
        BY <3>1, <4>1, <4>3 DEF TaskRows
      <4>5. b \/ (task[j].status \notin {"none", "ready", "failed"} /\ b = task[j].again)
        <5>1. task[j].again \in BOOLEAN /\ task[j].status /= "none"
          BY <1>3, <3>1, <3>3 DEF TaskRows, HasTask
        <5> QED BY <4>2, <5>1, Zenon DEF Ended
      <4> QED BY <4>1, <4>4, <4>5
    <3> QED BY <3>2, <3>3
  <2>5. task' \in [Jobs -> TaskRows]
    <3>1. task' = [j \in Jobs |-> task'[j]]
      BY <2>2
    <3> QED BY <2>4, <3>1
  <2>6. \A j \in Jobs : task'[j].today => HasTask(j)' /\ task[j].today
    BY <2>4 DEF IInv, Typed, HasTask
  <2>7. Unfinished' \subseteq Unfinished
    BY <2>4 DEF Unfinished
  <2> QED BY <1>1, <2>1, <2>3, <2>4, <2>5, <2>6, <2>7, RecoveryMoves
<1> QED BY <1>2, <1>3

\* The counts that the limits are compared with include what they limit.
LEMMA CountsInclude ==
  ASSUME Typed
  PROVE  /\ IsFiniteSet(Active) /\ IsFiniteSet(PromotedToday)
         /\ Unfinished \subseteq Active /\ OfToday \subseteq PromotedToday
<1>1. Active \subseteq Jobs /\ PromotedToday \subseteq Jobs
  BY DEF Active, PromotedToday
<1>2. Unfinished \subseteq Active /\ OfToday \subseteq PromotedToday
  BY DEF Typed, TaskRows, Unfinished, Active, OfToday, PromotedToday, TaskStatuses
<1> QED BY <1>1, <1>2, FiniteAssumption, FS_Subset

LEMMA RestIsFree ==
  ASSUME NEW l \in Nat, NEW A, IsFiniteSet(A), NEW B \in SUBSET A,
         Rest(l, Cardinality(A)) > 0
  PROVE  /\ IsFiniteSet(B) /\ Cardinality(B) <= l - Rest(l, Cardinality(A))
         /\ Rest(l, Cardinality(A)) \in 0..l
<1>1. IsFiniteSet(B) /\ Cardinality(B) <= Cardinality(A) /\ Cardinality(B) \in Nat
  BY FS_Subset, FS_CardinalityType
<1>2. Cardinality(A) \in Nat
  BY FS_CardinalityType
<1>3. Rest(l, Cardinality(A)) = l - Cardinality(A)
  BY DEF Rest
<1> QED BY <1>1, <1>2, <1>3

LEMMA RestType ==
  ASSUME NEW l \in Nat, NEW A, IsFiniteSet(A)
  PROVE  Rest(l, Cardinality(A)) \in 0..l
BY FS_CardinalityType DEF Rest

LEMMA CountActiveKeeps ==
  ASSUME IInv, NEW t \in Threads, CountActive(t)
  PROVE  IInv'
<1> DEFINE r == Rest(Capacity, Cardinality(Active))
           c == [cycle[t] EXCEPT !.step = "budget", !.room = r]
<1>1. cycle[t].step = "count" /\ UNCHANGED <<job, task>> /\ cycle' = [cycle EXCEPT ![t] = c]
  BY DEF CountActive
<1>2. r \in 0..Capacity
  BY CountsInclude, RestType, PolicyAssumption DEF IInv
<1>3. IsCycle(cycle[t])
  BY DEF IInv, Typed
<1> HIDE DEF r
<1>4. IsCycle(c) /\ c.room = r /\ c.step = "budget"
  BY <1>2, <1>3, Counted
<1> HIDE DEF c
<1>5. Typed' /\ cycle'[t] = c /\ \A u \in Threads \ {t} : cycle'[u] = cycle[u]
  BY <1>1, <1>4, CycleMoves DEF IInv, Typed, HasTask
<1>6. Spendings' \subseteq Spendings
  BY <1>4, <1>5 DEF Spendings
<1>7. Unfinished' = Unfinished /\ OfToday' = OfToday
  BY <1>1 DEF Unfinished, OfToday
<1>8. WithinBudget'
  BY <1>6, <1>7, LessIsWithin DEF IInv
<1>9. CASE r = 0
  <2>1. Places' \subseteq Places
    BY <1>4, <1>5, <1>9 DEF Places
  <2> QED BY <1>5, <1>7, <1>8, <2>1, LessIsWithin DEF IInv
<1>10. CASE r /= 0
  <2>1. Cardinality(Unfinished) <= Capacity - r /\ IsFiniteSet(Unfinished)
    <3>1. IsFiniteSet(Active) /\ Unfinished \subseteq Active /\ Capacity \in Nat
      BY CountsInclude, PolicyAssumption DEF IInv
    <3>2. Rest(Capacity, Cardinality(Active)) > 0
      BY <1>2, <1>10, PolicyAssumption DEF r
    <3> QED BY <3>1, <3>2, RestIsFree DEF r
  <2>2. Places' \subseteq ((Threads \ {t}) \X (1..Capacity)) \cup ({t} \X (1..r))
    BY <1>2, <1>4, <1>5, PolicyAssumption DEF Places
  <2>3. Cardinality(Unfinished) + Cardinality(Places') <= Capacity * Cardinality(Threads)
    BY <1>2, <2>1, <2>2, RestIsRead, PolicyAssumption
  <2> QED BY <1>5, <1>7, <1>8, <2>3 DEF IInv, WithinCapacity
<1> QED BY <1>9, <1>10

LEMMA CountTodayKeeps ==
  ASSUME IInv, NEW t \in Threads, CountToday(t)
  PROVE  IInv'
<1> DEFINE q == Rest(Budget, Cardinality(PromotedToday))
           r == Least(cycle[t].room, q)
           c == [cycle[t] EXCEPT !.step = "select", !.room = r]
<1>1. cycle[t].step = "budget" /\ UNCHANGED <<job, task>> /\ cycle' = [cycle EXCEPT ![t] = c]
  BY DEF CountToday
<1>2. q \in 0..Budget
  BY CountsInclude, RestType, PolicyAssumption DEF IInv
<1>3. IsCycle(cycle[t]) /\ cycle[t].room \in 0..Capacity
  BY DEF IInv, Typed, IsCycle
<1> HIDE DEF q
<1>4. r \in Nat /\ r <= q /\ r <= cycle[t].room /\ r \in 0..Capacity
  BY <1>2, <1>3, PolicyAssumption DEF Least
<1> HIDE DEF r
<1>5. IsCycle(c) /\ c.room = r /\ c.step = "select" /\ c.manual = cycle[t].manual
  <2>1. r <= Budget
    BY <1>2, <1>4, PolicyAssumption
  <2> QED BY <1>3, <1>4, <2>1, Counted
<1> HIDE DEF c
<1>6. Typed' /\ cycle'[t] = c /\ \A u \in Threads \ {t} : cycle'[u] = cycle[u]
  BY <1>1, <1>5, CycleMoves DEF IInv, Typed, HasTask
<1>7. Unfinished' = Unfinished /\ OfToday' = OfToday
  BY <1>1 DEF Unfinished, OfToday
<1>8. WithinCapacity'
  <2>1. Places' \subseteq Places
    BY <1>3, <1>4, <1>5, <1>6, PolicyAssumption DEF Places
  <2> QED BY <1>7, <2>1, LessIsWithin DEF IInv
<1>9. CASE q = 0
  <2>1. r = 0
    BY <1>4, <1>9
  <2>2. Spendings' \subseteq Spendings
    BY <2>1, <1>5, <1>6 DEF Spendings
  <2> QED BY <1>6, <1>7, <1>8, <2>2, LessIsWithin DEF IInv
<1>10. CASE q /= 0
  <2>1. Cardinality(OfToday) <= Budget - q /\ IsFiniteSet(OfToday)
    <3>1. IsFiniteSet(PromotedToday) /\ OfToday \subseteq PromotedToday /\ Budget \in Nat
      BY CountsInclude, PolicyAssumption DEF IInv
    <3>2. Rest(Budget, Cardinality(PromotedToday)) > 0
      BY <1>2, <1>10, PolicyAssumption DEF q
    <3> QED BY <3>1, <3>2, RestIsFree DEF q
  <2>2. Spendings' \subseteq ((Threads \ {t}) \X (1..Budget)) \cup ({t} \X (1..q))
    BY <1>2, <1>4, <1>5, <1>6, PolicyAssumption DEF Spendings
  <2>3. Cardinality(OfToday) + Cardinality(Spendings') <= Budget * Cardinality(Threads)
    BY <1>2, <2>1, <2>2, RestIsRead, PolicyAssumption
  <2> QED BY <1>6, <1>7, <1>8, <2>3 DEF IInv, WithinBudget
<1> QED BY <1>9, <1>10

LEMMA FinishKeeps ==
  ASSUME IInv, NEW t \in Threads, Finish(t), cycle[t].step \in {"select", "read", "write"},
         UNCHANGED <<job, task>>
  PROVE  IInv'
<1>1. cycle' = [cycle EXCEPT ![t] = Idle]
  BY DEF Finish
<1>2. Typed' /\ cycle'[t] = Idle /\ \A u \in Threads \ {t} : cycle'[u] = cycle[u]
  BY <1>1, IdleIsCycle, CycleMoves DEF IInv, Typed, HasTask
<1>3. Places' \subseteq Places /\ Spendings' \subseteq Spendings
  BY <1>2, IdleIsCycle DEF Places, Spendings
<1>4. Unfinished' = Unfinished /\ OfToday' = OfToday
  BY DEF Unfinished, OfToday
<1> QED BY <1>2, <1>3, <1>4, LessIsWithin DEF IInv

\* What a cycle in the middle of its list may become.
LEMMA Turned ==
  ASSUME NEW d, IsCycle(d), d.step \in {"select", "read", "write"}, NEW l, NEW y \in BOOLEAN,
         NEW n \in {0, 1}, d.room - n \in Nat
  PROVE  LET c == [d EXCEPT !.step = "read", !.room = @ - n, !.list = l, !.today = y] IN
         IsCycle(c) /\ c.room = d.room - n /\ c.manual = d.manual /\ c.step = "read"
<1> DEFINE c == [d EXCEPT !.step = "read", !.room = @ - n, !.list = l, !.today = y]
<1>1. d.room \in 0..Capacity /\ Capacity \in Nat /\ Budget \in Nat
  BY PolicyAssumption DEF IsCycle
<1>2. c \in [step : Steps, stale : SUBSET Jobs, room : {d.room - n}, list : {l},
            manual : BOOLEAN, today : BOOLEAN]
  BY DEF IsCycle, Steps
<1>3. /\ c.step = "read" /\ c.room = d.room - n /\ c.list = l /\ c.manual = d.manual
  BY DEF IsCycle
<1>4. d.room - n \in 0..Capacity /\ (d.room <= Budget => d.room - n <= Budget)
  BY <1>1
<1> HIDE DEF c
<1>5. IsCycle(c)
  BY <1>2, <1>3, <1>4 DEF IsCycle
<1> QED BY <1>3, <1>5 DEF c

LEMMA SelectJobsKeeps ==
  ASSUME IInv, NEW t \in Threads, SelectJobs(t)
  PROVE  IInv'
<1> DEFINE l == SetToSortSeq({j \in Jobs : Selectable(j) /\ Deserving(j)}, Before)
           c == [cycle[t] EXCEPT !.step = "read", !.list = l]
<1>1. cycle[t].step = "select" /\ UNCHANGED <<job, task>> /\ cycle' = [cycle EXCEPT ![t] = c]
  BY DEF SelectJobs
<1> HIDE DEF l
<1>2. IsCycle(c) /\ c.room = cycle[t].room /\ c.manual = cycle[t].manual
  BY <1>1 DEF IInv, Typed, IsCycle, Steps
<1> HIDE DEF c
<1> QED BY <1>1, <1>2, QuietMove

LEMMA ReadGuardsKeeps ==
  ASSUME IInv, NEW t \in Threads, ReadGuards(t)
  PROVE  IInv'
<1> DEFINE l == Tail(cycle[t].list)
           next == [cycle[t] EXCEPT !.step = "read", !.room = @ - 0, !.list = l, !.today = FALSE]
           ready == [cycle[t] EXCEPT !.step = "write", !.today = TRUE]
<1>1. /\ cycle[t].step = "read" /\ cycle[t].room > 0 /\ UNCHANGED <<job, task>>
      /\ \/ Finish(t)
         \/ cycle' = [cycle EXCEPT ![t] = next]
         \/ cycle' = [cycle EXCEPT ![t] = ready]
  BY DEF ReadGuards, Advance
<1>2. IsCycle(cycle[t]) /\ cycle[t].room \in Nat
  BY PolicyAssumption DEF IInv, Typed, IsCycle
<1> HIDE DEF l
<1>3. IsCycle(next) /\ next.room = cycle[t].room /\ next.manual = cycle[t].manual
  <2>1. cycle[t].room - 0 \in Nat /\ cycle[t].room - 0 = cycle[t].room
    BY <1>2
  <2> QED BY <1>1, <1>2, <2>1, Turned
<1>4. IsCycle(ready) /\ ready.room = cycle[t].room /\ ready.manual = cycle[t].manual
  BY <1>1, <1>2 DEF IsCycle, Steps
<1> HIDE DEF next, ready
<1>5. CASE cycle' = [cycle EXCEPT ![t] = next]
  BY <1>1, <1>2, <1>3, <1>5, QuietMove
<1>6. CASE cycle' = [cycle EXCEPT ![t] = ready]
  BY <1>1, <1>2, <1>4, <1>6, QuietMove
<1> QED BY <1>1, <1>5, <1>6, FinishKeeps

LEMMA EndCycleKeeps ==
  ASSUME IInv, NEW t \in Threads, EndCycle(t)
  PROVE  IInv'
BY FinishKeeps DEF EndCycle

\* The promotion itself: a task is inserted, and the cycle has one place less.
LEMMA WriteTaskKeeps ==
  ASSUME IInv, NEW t \in Threads, WriteTask(t)
  PROVE  IInv'
<1> DEFINE j == Head(cycle[t].list)
           l == Tail(cycle[t].list)
           c == [cycle[t] EXCEPT !.step = "read", !.room = @ - 1, !.list = l, !.today = FALSE]
           e == [status |-> "queued", manual |-> cycle[t].manual, again |-> FALSE,
                 today |-> cycle[t].today, workers |-> 0]
<1>1. cycle[t].step = "write" /\ UNCHANGED job
  BY DEF WriteTask
<1>2. CASE Finish(t) /\ UNCHANGED task
  BY <1>1, <1>2, FinishKeeps
<1>3. CASE cycle' = [cycle EXCEPT ![t] = c] /\ task' = [task EXCEPT ![j] = e]
  <2>1. IsCycle(cycle[t]) /\ cycle[t].room \in Nat \ {0} /\ cycle[t].room <= Capacity
    BY <1>1, PolicyAssumption DEF IInv, Typed, IsCycle
  <2>2. ~cycle[t].manual => cycle[t].room <= Budget
    BY <1>1, <2>1 DEF IsCycle
  <2> HIDE DEF j, l
  <2>3. IsCycle(c) /\ c.room = cycle[t].room - 1 /\ c.manual = cycle[t].manual
    <3>1. cycle[t].room - 1 \in Nat
      BY <2>1
    <3> QED BY <1>1, <2>1, <3>1, Turned
  <2> HIDE DEF c
  <2>4. e \in TaskRows /\ e.status = "queued" /\ e.manual = cycle[t].manual
    BY <2>1 DEF IsCycle, TaskRows, TaskStatuses
  <2> HIDE DEF e
  <2>5. /\ task' \in [Jobs -> TaskRows]
        /\ \A k \in Jobs : task'[k] = IF k = j THEN e ELSE task[k]
    BY <1>3, <2>4 DEF IInv, Typed, TaskRows
  <2>6. \A k \in Jobs : task'[k].today => HasTask(k)'
    BY <2>4, <2>5 DEF IInv, Typed, HasTask
  <2>7. Typed' /\ cycle'[t] = c /\ \A u \in Threads \ {t} : cycle'[u] = cycle[u]
    BY <1>1, <1>3, <2>3, <2>5, <2>6, CycleMoves DEF IInv, TaskRows
  <2>8. CASE cycle[t].manual
    <3>1. Unfinished' \subseteq Unfinished /\ OfToday' \subseteq OfToday
      BY <2>4, <2>5, <2>8 DEF Unfinished, OfToday
    <3>2. Places' \subseteq Places /\ Spendings' \subseteq Spendings
      BY <2>3, <2>7, <2>8 DEF Places, Spendings
    <3> QED BY <2>7, <3>1, <3>2, LessIsWithin DEF IInv
  <2>9. CASE ~cycle[t].manual
    <3> DEFINE s == <<t, cycle[t].room>>
    <3>1. Unfinished' \subseteq Unfinished \cup {j} /\ OfToday' \subseteq OfToday \cup {j}
      BY <2>5 DEF Unfinished, OfToday
    <3>2. s \in Places /\ s \in Spendings
      BY <1>1, <2>1, <2>2, <2>9, PolicyAssumption DEF Places, Spendings
    <3>3. Places' \subseteq Places \ {s}
      BY <2>1, <2>3, <2>7, <2>9, PolicyAssumption DEF Places
    <3>4. Spendings' \subseteq Spendings \ {s}
      BY <1>1, <2>1, <2>3, <2>7, <2>9, PolicyAssumption DEF Spendings
    <3> HIDE DEF s
    <3>5. WithinCapacity'
      BY <3>1, <3>2, <3>3, FiniteCounts, OneIsMade DEF IInv, WithinCapacity
    <3>6. WithinBudget'
      BY <3>1, <3>2, <3>4, FiniteCounts, OneIsMade DEF IInv, WithinBudget
    <3> QED BY <2>7, <3>5, <3>6 DEF IInv
  <2> QED BY <2>8, <2>9
<1> QED BY <1>2, <1>3 DEF WriteTask, Advance

LEMMA GenerateNowKeeps ==
  ASSUME IInv, NEW t \in Threads, NEW j \in Jobs, GenerateNow(t, j)
  PROVE  IInv'
<1> DEFINE c == [step |-> "read", stale |-> {}, room |-> 1, list |-> <<j>>, manual |-> TRUE,
                 today |-> FALSE]
<1>1. UNCHANGED <<job, task>> /\ cycle' = [cycle EXCEPT ![t] = c]
  BY DEF GenerateNow
<1>2. IsCycle(c) /\ c.manual
  BY PolicyAssumption DEF IsCycle, Steps
<1> HIDE DEF c
<1> QED BY <1>1, <1>2, QuietMove

-----------------------------------------------------------------------------
\* Steps of the users, the queues and the calendar.

\* The counts are those of the tasks and the cycles: a step on the jobs alone
\* changes none.
LEMMA JobsChange ==
  ASSUME IInv, job' \in [Jobs -> JobStates], UNCHANGED <<task, cycle>>
  PROVE  IInv'
<1>1. Typed'
  BY DEF IInv, Typed, HasTask, IsCycle
<1>2. /\ Unfinished' = Unfinished /\ OfToday' = OfToday
      /\ Places' = Places /\ Spendings' = Spendings
  BY DEF Unfinished, OfToday, Places, Spendings
<1> QED BY <1>1, <1>2, LessIsWithin DEF IInv

LEMMA RequestKeeps ==
  ASSUME IInv, NEW j \in Jobs,
         \/ \E on \in BOOLEAN : Star(j, on)
         \/ SetPriority(j) \/ Archive(j) \/ Rescore(j) \/ AnalysisEnds(j)
  PROVE  IInv'
<1>1. UNCHANGED <<task, cycle>>
  BY DEF Star, SetPriority, Archive, Rescore, AnalysisEnds
<1>2. ASSUME NEW on \in BOOLEAN, Star(j, on) PROVE job' \in [Jobs -> JobStates]
  <2> DEFINE e == [job[j] EXCEPT !.starred = on, !.priority = IF on THEN 1 ELSE 0]
  <2>1. (IF on THEN 1 ELSE 0) \in {0, 1}
    OBVIOUS
  <2>2. job[j] \in JobStates
    BY DEF IInv, Typed
  <2>3. e \in JobStates
    BY <2>1, <2>2 DEF JobStates
  <2> HIDE DEF e
  <2> QED BY <1>2, <2>3 DEF Star, IInv, Typed, e
<1>3. CASE SetPriority(j)
  <2>1. 1 - job[j].priority \in {0, 1}
    BY DEF IInv, Typed, JobStates
  <2>2. job' \in [Jobs -> JobStates]
    BY <1>3, <2>1 DEF SetPriority, IInv, Typed, JobStates
  <2> QED BY <1>1, <2>2, JobsChange
<1>4. CASE Archive(j)
  <2>1. PICK b \in BOOLEAN : job' = [job EXCEPT ![j].archived = b]
    <3>1. job' = [job EXCEPT ![j].archived = ~@]
      BY <1>4 DEF Archive
    <3> QED BY ONLY <3>1, Zenon
  <2>2. job' \in [Jobs -> JobStates]
    BY <2>1 DEF IInv, Typed, JobStates
  <2> QED BY <1>1, <2>2, JobsChange
<1>5. CASE Rescore(j)
  <2>1. job' \in [Jobs -> JobStates]
    BY <1>5 DEF Rescore, IInv, Typed, JobStates
  <2> QED BY <1>1, <2>1, JobsChange
<1>6. CASE AnalysisEnds(j)
  <2>1. PICK score \in Scores, blocked \in BOOLEAN :
          job' = [job EXCEPT ![j] = [@ EXCEPT !.intake = "scored", !.score = score,
                                              !.blocked = blocked]]
    BY <1>6 DEF AnalysisEnds
  <2>2. job[j] \in JobStates
    BY DEF IInv, Typed
  <2>3. [job[j] EXCEPT !.intake = "scored", !.score = score, !.blocked = blocked]
          \in JobStates
    BY <2>2 DEF JobStates
  <2>4. job' \in [Jobs -> JobStates]
    BY <2>1, <2>3 DEF IInv, Typed
  <2> QED BY <1>1, <2>4, JobsChange
<1> QED BY <1>1, <1>2, <1>3, <1>4, <1>5, <1>6, JobsChange

\* A step on a task that makes it count for no limit it did not count for.
LEMMA TaskChanges ==
  ASSUME IInv, NEW j \in Jobs, NEW e \in TaskRows, task' = [task EXCEPT ![j] = e],
         job' \in [Jobs -> JobStates], UNCHANGED cycle,
         e.today => e.status /= "none",
         e.today => task[j].today /\ e.manual = task[j].manual,
         \/ e.status \in {"none", "ready", "failed"} \/ e.again
         \/ /\ task[j].status \notin {"none", "ready", "failed"}
            /\ e.manual = task[j].manual /\ e.again = task[j].again
  PROVE  IInv'
<1>1. /\ task' \in [Jobs -> TaskRows]
      /\ \A k \in Jobs : task'[k] = IF k = j THEN e ELSE task[k]
  BY DEF IInv, Typed, TaskRows
<1>2. \A k \in Jobs : task'[k].today => HasTask(k)'
  BY <1>1 DEF IInv, Typed, HasTask
<1>3. Typed'
  BY <1>1, <1>2 DEF IInv, Typed, TaskRows, IsCycle
<1>4. Unfinished' \subseteq Unfinished /\ OfToday' \subseteq OfToday
  BY <1>1 DEF Unfinished, OfToday
<1>5. Places' = Places /\ Spendings' = Spendings
  BY DEF Places, Spendings
<1> QED BY <1>3, <1>4, <1>5, LessIsWithin DEF IInv

LEMMA DeleteKeeps ==
  ASSUME IInv, NEW j \in Jobs, Delete(j)
  PROVE  IInv'
<1>1. job' \in [Jobs -> JobStates]
  BY DEF Delete, IInv, Typed, JobStates
<1>2. NoTask \in TaskRows /\ ~NoTask.today /\ NoTask.status = "none"
  BY DEF NoTask, TaskRows, TaskStatuses
<1> QED BY <1>1, <1>2, TaskChanges DEF Delete

\* The workers' steps.
LEMMA StatusChanges ==
  ASSUME IInv, NEW j \in Jobs, NEW s \in TaskStatuses \ {"none"}, NEW n \in Nat,
         task' = [task EXCEPT ![j] = [@ EXCEPT !.status = s, !.workers = n]],
         UNCHANGED <<job, cycle>>,
         s \in {"ready", "failed"} \/ task[j].status \notin {"none", "ready", "failed"}
  PROVE  IInv'
<1> DEFINE e == [task[j] EXCEPT !.status = s, !.workers = n]
<1>1. task' = [task EXCEPT ![j] = e] /\ job' \in [Jobs -> JobStates]
  BY DEF IInv, Typed
<1>2. task[j] \in TaskRows
  BY DEF IInv, Typed
<1>3. /\ e \in TaskRows /\ e.status = s /\ e.manual = task[j].manual
      /\ e.today = task[j].today /\ e.again = task[j].again
  BY <1>2 DEF TaskRows
<1> HIDE DEF e
<1>4. e.today => e.status /= "none"
  BY <1>3
<1> QED BY <1>1, <1>3, <1>4, TaskChanges

LEMMA QueueKeeps ==
  ASSUME IInv, NEW j \in Jobs, Claim(j) \/ EndTask(j) \/ ExpireLease(j)
  PROVE  IInv'
<1>1. task[j] \in TaskRows /\ task[j].workers \in Nat /\ task[j].workers + 1 \in Nat
  BY DEF IInv, Typed, TaskRows
<1>2. CASE Claim(j)
  <2>1. task' = [task EXCEPT ![j] = [@ EXCEPT !.status = "running",
                                              !.workers = task[j].workers + 1]]
    BY <1>2 DEF Claim
  <2> QED BY <1>1, <1>2, <2>1, StatusChanges DEF Claim, TaskStatuses
<1>3. CASE EndTask(j)
  <2>1. PICK ending \in {"ready", "failed"} :
          task' = [task EXCEPT ![j] = [@ EXCEPT !.status = ending,
                                                !.workers = task[j].workers - 1]]
    BY <1>3 DEF EndTask
  <2>2. task[j].workers - 1 \in Nat
    BY <1>1, <1>3 DEF EndTask
  <2> QED BY <1>3, <2>1, <2>2, StatusChanges DEF EndTask, TaskStatuses
<1>4. CASE ExpireLease(j)
  <2>1. [task[j] EXCEPT !.status = "stale"]
          = [task[j] EXCEPT !.status = "stale", !.workers = task[j].workers]
    BY <1>1 DEF TaskRows
  <2>2. task' = [task EXCEPT ![j] = [@ EXCEPT !.status = "stale",
                                              !.workers = task[j].workers]]
    BY <1>4, <2>1 DEF ExpireLease
  <2>3. /\ "stale" \in TaskStatuses \ {"none"} /\ UNCHANGED <<job, cycle>>
        /\ task[j].status \notin {"none", "ready", "failed"}
    BY <1>4 DEF ExpireLease, TaskStatuses
  <2> QED BY <1>1, <2>2, <2>3, StatusChanges
<1> QED BY <1>2, <1>3, <1>4

LEMMA RetryKeeps ==
  ASSUME IInv, NEW j \in Jobs, Retry(j)
  PROVE  IInv'
<1> DEFINE e == [task[j] EXCEPT !.status = "queued", !.again = TRUE]
<1>1. task' = [task EXCEPT ![j] = e] /\ UNCHANGED <<job, cycle>>
  BY DEF Retry
<1>2. job' \in [Jobs -> JobStates]
  BY <1>1 DEF IInv, Typed
<1>3. /\ e \in TaskRows /\ e.status = "queued" /\ e.manual = task[j].manual
      /\ e.today = task[j].today /\ e.again
  BY DEF IInv, Typed, TaskRows, TaskStatuses
<1> HIDE DEF e
<1> QED BY <1>1, <1>2, <1>3, TaskChanges

\* At midnight nothing has been spent of the new day's budget.
LEMMA MidnightKeeps ==
  ASSUME IInv, Midnight
  PROVE  IInv'
<1>1. /\ task' = [j \in Jobs |-> [task[j] EXCEPT !.today = FALSE]]
      /\ cycle' = [t \in Threads |-> [cycle[t] EXCEPT !.today = FALSE]]
      /\ UNCHANGED job
  BY DEF Midnight
<1>2. \A j \in Jobs : /\ task'[j] \in TaskRows /\ ~task'[j].today
                      /\ task'[j].status = task[j].status
                      /\ task'[j].manual = task[j].manual
                      /\ task'[j].again = task[j].again
  BY <1>1 DEF IInv, Typed, TaskRows
<1>3. \A t \in Threads : /\ IsCycle(cycle'[t]) /\ cycle'[t].room = cycle[t].room
                         /\ cycle'[t].manual = cycle[t].manual
                         /\ cycle'[t].step = cycle[t].step
  <2> TAKE t \in Threads
  <2> DEFINE c == [cycle[t] EXCEPT !.today = FALSE]
  <2>1. cycle'[t] = c
    BY <1>1
  <2>2. IsCycle(c) /\ c.room = cycle[t].room /\ c.manual = cycle[t].manual
        /\ c.step = cycle[t].step
    BY DEF IInv, Typed, IsCycle
  <2> QED BY <2>1, <2>2
<1>4. Typed'
  <2>1. task' \in [Jobs -> TaskRows] /\ cycle' = [t \in Threads |-> cycle'[t]]
    BY <1>1, <1>2
  <2>2. \A t \in Threads : IsCycle(cycle[t])'
    BY <1>3 DEF IsCycle
  <2> QED BY <1>1, <1>2, <2>1, <2>2 DEF IInv, Typed, TaskRows
<1>5. Unfinished' = Unfinished /\ OfToday' = {}
  BY <1>2 DEF Unfinished, OfToday
<1>6. Places' = Places /\ Spendings' = Spendings
  BY <1>3 DEF Places, Spendings
<1> QED BY <1>4, <1>5, <1>6, LessIsWithin DEF IInv

-----------------------------------------------------------------------------
LEMMA InitHolds == Init => IInv
<1> SUFFICES ASSUME Init PROVE IInv
  OBVIOUS
<1>1. \A j \in Jobs : task[j] = NoTask
  BY DEF Init
<1>2. \A t \in Threads : cycle[t] = Idle
  BY DEF Init
<1>3. Typed
  <2>1. job \in [Jobs -> JobStates]
    BY PolicyAssumption DEF Init, JobStates
  <2>2. task \in [Jobs -> TaskRows] /\ \A j \in Jobs : ~task[j].today
    BY DEF Init, NoTask, TaskRows, TaskStatuses
  <2>3. cycle = [t \in Threads |-> cycle[t]]
    BY DEF Init
  <2> QED BY <1>2, <2>1, <2>2, <2>3, IdleIsCycle DEF Typed, TaskRows
<1>4. Unfinished = {} /\ OfToday = {}
  BY <1>1 DEF Unfinished, OfToday, NoTask
<1>5. Places = {} /\ Spendings = {}
  BY <1>2, IdleIsCycle, PolicyAssumption DEF Places, Spendings
<1>6. Cardinality({}) = 0
  BY FS_EmptySet
<1> QED BY <1>3, <1>4, <1>5, <1>6, FiniteCounts DEF IInv, WithinCapacity, WithinBudget

LEMMA NextKeeps == IInv /\ [Next]_vars => IInv'
<1> SUFFICES ASSUME IInv, [Next]_vars PROVE IInv'
  OBVIOUS
<1>1. ASSUME NEW t \in Threads, Promote(t) PROVE IInv'
  BY <1>1, RecoverReadKeeps, RecoverWriteKeeps, CountActiveKeeps, CountTodayKeeps,
     SelectJobsKeeps, ReadGuardsKeeps, WriteTaskKeeps, EndCycleKeeps DEF Promote
<1>2. ASSUME NEW j \in Jobs,
             UserStep(j) \/ AnalysisEnds(j) \/ Claim(j) \/ EndTask(j) \/ ExpireLease(j)
      PROVE IInv'
  <2>1. CASE \E t \in Threads : GenerateNow(t, j)
    BY <2>1, GenerateNowKeeps
  <2> QED BY <1>2, <2>1, RequestKeeps, DeleteKeeps, RetryKeeps, QueueKeeps
          DEF UserStep
<1>3. CASE Midnight
  BY <1>3, MidnightKeeps
<1>4. CASE UNCHANGED vars
  <2>1. job' \in [Jobs -> JobStates]
    BY <1>4 DEF vars, IInv, Typed
  <2> QED BY <1>4, <2>1, JobsChange DEF vars
<1> QED BY <1>1, <1>2, <1>3, <1>4 DEF Next

LEMMA Invariance == Spec => []IInv
BY InitHolds, NextKeeps, PTL DEF Spec

-----------------------------------------------------------------------------
\* However many cycles run at once, whatever users request, however late workers end
\* and recoveries write, the unfinished automatic promotions never exceed the capacity
\* more than once per thread, those that came back after they had ended left out.
THEOREM OvershootIsBounded == Spec => []CapacityHolds
<1>1. IInv => CapacityHolds
  <2> SUFFICES ASSUME IInv PROVE CapacityHolds
    OBVIOUS
  <2>1. Cardinality(Unfinished) \in Nat /\ Cardinality(Places) \in Nat
    BY FiniteCounts, FS_CardinalityType
  <2>2. Cardinality(Unfinished) <= Capacity * Cardinality(Threads)
    BY <2>1, FiniteCounts DEF IInv, WithinCapacity
  <2>3. Unfinished =
          {j \in {k \in Jobs : task[k].status \notin {"none", "ready", "failed"}} :
             ~task[j].manual /\ ~task[j].again}
    BY DEF Unfinished
  <2> QED BY <2>2, <2>3 DEF CapacityHolds
<1> QED BY <1>1, Invariance, PTL

\* The automatic promotions of one UTC day never exceed the daily budget more than
\* once per thread, also those of a cycle that midnight interrupts.
THEOREM SpendingIsBounded == Spec => []BudgetHolds
<1>1. IInv => BudgetHolds
  <2> SUFFICES ASSUME IInv PROVE BudgetHolds
    OBVIOUS
  <2>1. Cardinality(OfToday) \in Nat /\ Cardinality(Spendings) \in Nat
    BY FiniteCounts, FS_CardinalityType
  <2>2. Cardinality(OfToday) <= Budget * Cardinality(Threads)
    BY <2>1, FiniteCounts DEF IInv, WithinBudget
  <2> QED BY <2>2 DEF BudgetHolds, OfToday
<1> QED BY <1>1, Invariance, PTL

\* The dashboard and the scheduler, two pieces of code, name the same jobs eligible
\* of those without a task, for all thresholds and scores.
THEOREM OnePolicy == Spec => []EligibilityAgrees
<1>1. IInv => EligibilityAgrees
  <2> SUFFICES ASSUME NEW j \in Jobs, ~HasTask(j)
               PROVE  Selectable(j) /\ Deserving(j)
                        <=> Eligibility(j) \in {"eligible", "eligible_manual_priority"}
    BY DEF EligibilityAgrees
  <2>1. PacketStatus(j) = "not_requested"
    BY DEF PacketStatus, HasTask
  <2>2. CASE job[j].archived
    <3>1. Eligibility(j) = "archived"
      BY <2>2 DEF Eligibility
    <3> QED BY <2>2, <3>1 DEF Selectable
  <2>3. CASE ~job[j].archived /\ job[j].blocked
    <3>1. Eligibility(j) = "blocked"
      BY <2>3 DEF Eligibility
    <3> QED BY <2>3, <3>1 DEF Deserving
  <2>4. CASE ~job[j].archived /\ ~job[j].blocked /\ job[j].intake /= "scored"
    <3>1. Eligibility(j) = "not_scored"
      BY <2>1, <2>4 DEF Eligibility
    <3> QED BY <2>4, <3>1 DEF Selectable
  <2>5. CASE ~job[j].archived /\ ~job[j].blocked /\ job[j].intake = "scored"
    <3>1. Eligibility(j) = IF Favoured(j) THEN "eligible_manual_priority"
                           ELSE IF job[j].score >= AutoThreshold THEN "eligible"
                           ELSE IF job[j].score >= ReviewThreshold THEN "manual_review_range"
                           ELSE "below_threshold"
      BY <2>1, <2>5 DEF Eligibility
    <3>2. Selectable(j) /\ (Deserving(j) <=> Favoured(j) \/ job[j].score >= AutoThreshold)
      BY <2>5 DEF Selectable, Deserving
    <3> HIDE DEF Eligibility
    <3> QED BY <3>1, <3>2
  <2> QED BY <2>2, <2>3, <2>4, <2>5
<1> QED BY <1>1, Invariance, PTL
=============================================================================
