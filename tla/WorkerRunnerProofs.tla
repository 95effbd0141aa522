-------------------------- MODULE WorkerRunnerProofs --------------------------
(***************************************************************************)
(* Theorems about WorkerRunner, for any processes, loops and times: a      *)
(* process asked to stop claims one unit more at most, and stops within    *)
(* the sleep or the work that it is in; and a live one leaves none of its  *)
(* rows alone for longer than the sleep and the units of one round.        *)
(***************************************************************************)
EXTENDS WorkerRunner, TLAPS

ProcStates == [at : Places, turn : Int, left : Nat, backoff : Nat, did : BOOLEAN]

\* A process in state c, asked to stop as s says, with n units claimed since.
\* The ticks since the request and those that are left of a sleep or a unit of
\* work stay within the longest stop together; before a process claims or asks for
\* its turn no tick can have passed since the request, or none but those of the
\* work of an earlier turn.
Fits(p, c, s, n) ==
  /\ c \in ProcStates
  /\ c.backoff <= Larger(Poll, MaxBackoff)
  /\ s \in [asked : BOOLEAN, since : Nat, stop : BOOLEAN] /\ (s.stop <=> s.asked)
  /\ ~s.asked => s.since = 0 /\ n = 0
  /\ n \in {0, 1} /\ (c.at = "claim" => n = 0)
  /\ s.since <= LongestStop(p)
  /\ c.at \in {"register", "once", "claim"} => s.since = 0
  /\ c.at = "turn" => p \notin Forever
  /\ c.at \in {"turn", "returned"} => s.since <= LongestWork
  /\ c.at = "work" => s.since + c.left <= LongestWork
  /\ c.at = "sleep" => s.since + c.left <= LongestStop(p)

\* The inductive invariant.
IInv ==
  /\ proc = [p \in Processes |-> proc[p]]
  /\ signal = [p \in Processes |-> signal[p]]
  /\ late = [p \in Processes |-> late[p]]
  /\ \A p \in Processes : Fits(p, proc[p], signal[p], late[p])

LEMMA Times ==
  /\ Poll \in Nat /\ MaxBackoff \in Nat /\ LongestWork \in Nat /\ Grace \in Nat
  /\ Larger(Poll, MaxBackoff) \in Nat
  /\ \A p \in Processes :
       /\ LongestStop(p) \in Nat /\ LongestWork <= LongestStop(p)
       /\ p \in Forever => Larger(Poll, MaxBackoff) <= LongestStop(p)
       /\ p \notin Forever => LongestStop(p) = LongestWork + Poll
BY TimeAssumption DEF LongestStop, Larger

-----------------------------------------------------------------------------
\* A step of one process.
LEMMA ProcessMoves ==
  ASSUME IInv, NEW p \in Processes, NEW c, NEW s, NEW n, Fits(p, c, s, n),
         proc' = [proc EXCEPT ![p] = c], signal' = [signal EXCEPT ![p] = s],
         late' = [late EXCEPT ![p] = n]
  PROVE  IInv'
<1>1. \A q \in Processes : Fits(q, proc'[q], signal'[q], late'[q])
  BY DEF IInv
<1>2. \A q \in Processes : Fits(q, proc[q], signal[q], late[q])'
  BY <1>1 DEF Fits, LongestStop
<1>3. /\ proc' = [q \in Processes |-> proc'[q]]
      /\ signal' = [q \in Processes |-> signal'[q]]
      /\ late' = [q \in Processes |-> late'[q]]
  BY DEF IInv
<1> QED BY <1>2, <1>3 DEF IInv

\* A step of one process that leaves its signal and its count alone.
LEMMA LoopMoves ==
  ASSUME IInv, NEW p \in Processes, NEW c, Fits(p, c, signal[p], late[p]),
         proc' = [proc EXCEPT ![p] = c], UNCHANGED <<signal, late>>
  PROVE  IInv'
<1>1. signal' = [signal EXCEPT ![p] = signal[p]] /\ late' = [late EXCEPT ![p] = late[p]]
  BY DEF IInv
<1> QED BY <1>1, ProcessMoves

\* A step that only moves on.
LEMMA GoesTo ==
  ASSUME IInv, NEW p \in Processes, NEW place \in Places, Goto(p, place),
         UNCHANGED <<signal, late>>,
         place \notin {"register", "work", "sleep"},
         place = "turn" => p \notin Forever,
         place \in {"turn", "once", "claim"} => ~signal[p].stop,
         place = "returned" => ~signal[p].stop \/ proc[p].at = "once"
  PROVE  IInv'
<1> DEFINE c == [proc[p] EXCEPT !.at = place]
<1>1. proc' = [proc EXCEPT ![p] = c]
  BY DEF Goto
<1>2. Fits(p, proc[p], signal[p], late[p])
  BY DEF IInv
<1>3. c \in ProcStates /\ c.at = place /\ c.left = proc[p].left /\ c.backoff = proc[p].backoff
  BY <1>2 DEF Fits, ProcStates
<1> HIDE DEF c
<1>4. Fits(p, c, signal[p], late[p])
  BY <1>2, <1>3, Times DEF Fits
<1> QED BY <1>1, <1>4, LoopMoves

-----------------------------------------------------------------------------
\* The steps of a process.

LEMMA RegisterKeeps ==
  ASSUME IInv, NEW p \in Processes, Register(p)
  PROVE  IInv'
<1> DEFINE c == [proc[p] EXCEPT !.turn = @ + 1]
           d == [proc[p] EXCEPT !.turn = 1, !.at = "round"]
<1>1. /\ proc[p].at = "register" /\ UNCHANGED <<signal, late>>
      /\ proc' = [proc EXCEPT ![p] = c] \/ proc' = [proc EXCEPT ![p] = d]
  BY DEF Register, At
<1>2. Fits(p, proc[p], signal[p], late[p])
  BY DEF IInv
<1>3. c \in ProcStates /\ c.at = "register" /\ c.backoff = proc[p].backoff
  <2>1. /\ proc[p] \in ProcStates /\ proc[p].turn + 1 \in Int
        /\ proc[p].at = "register"
    BY <1>1, <1>2 DEF Fits, ProcStates
  <2> QED BY <2>1 DEF ProcStates
<1>4. d \in ProcStates /\ d.at = "round" /\ d.backoff = proc[p].backoff
  <2>1. proc[p] \in ProcStates /\ "round" \in Places /\ 1 \in Int
    BY <1>2 DEF Fits, Places
  <2> QED BY <2>1 DEF ProcStates
<1> HIDE DEF c, d
<1>5. Fits(p, c, signal[p], late[p]) /\ Fits(p, d, signal[p], late[p])
  BY <1>1, <1>2, <1>3, <1>4 DEF Fits
<1> QED BY <1>1, <1>5, LoopMoves

\* A process falls asleep for n ticks, or a turn begins.
LEMMA NextTurnKeeps ==
  ASSUME IInv, NEW p \in Processes, NextTurn(p)
  PROVE  IInv'
<1>1. CASE ~signal[p].stop
  BY <1>1, GoesTo DEF NextTurn, Places
<1>2. CASE signal[p].stop
  <2> DEFINE place == IF proc[p].did THEN "round" ELSE "sleep"
             c == [proc[p] EXCEPT !.at = place, !.left = Poll, !.turn = 1, !.did = FALSE]
  <2>1. proc[p].at = "turn" /\ UNCHANGED <<signal, late>> /\ proc' = [proc EXCEPT ![p] = c]
    BY <1>2 DEF NextTurn, At
  <2>2. Fits(p, proc[p], signal[p], late[p])
    BY DEF IInv
  <2>3. place \in {"round", "sleep"} /\ place \in Places
    BY DEF Places
  <2> HIDE DEF place
  <2>4. /\ c \in ProcStates /\ c.at = place /\ c.left = Poll /\ c.backoff = proc[p].backoff
    <3>1. proc[p] \in ProcStates /\ Poll \in Nat /\ 1 \in Int /\ FALSE \in BOOLEAN
      BY <2>2, Times DEF Fits
    <3>2. place \in Places
      BY <2>3
    <3> QED BY <3>1, <3>2 DEF ProcStates
  <2> HIDE DEF c
  <2>5. Fits(p, c, signal[p], late[p])
    BY <2>1, <2>2, <2>3, <2>4, Times DEF Fits
  <2> QED BY <2>1, <2>5, LoopMoves
<1> QED BY <1>1, <1>2

LEMMA ClaimKeeps ==
  ASSUME IInv, NEW p \in Processes, Claim(p)
  PROVE  IInv'
<1>1. Fits(p, proc[p], signal[p], late[p]) /\ proc[p].at = "claim" /\ UNCHANGED signal
  BY DEF IInv, Claim, At
<1>2. CASE queued[TypeOf[Runner(p)]] > 0
  <2> DEFINE c == [proc[p] EXCEPT !.at = "work", !.left = LongestWork]
             n == IF signal[p].asked THEN Smaller(late[p] + 1, 2) ELSE late[p]
  <2>1. proc' = [proc EXCEPT ![p] = c] /\ late' = [late EXCEPT ![p] = n]
    BY <1>2 DEF Claim
  <2>2. late[p] = 0
    BY <1>1 DEF Fits
  <2>3. n = IF signal[p].asked THEN 1 ELSE 0
    BY <2>2 DEF Smaller
  <2>4. /\ c \in ProcStates /\ c.at = "work" /\ c.left = LongestWork
        /\ c.backoff = proc[p].backoff
    BY <1>1, Times DEF Fits, ProcStates, Places
  <2> HIDE DEF c, n
  <2>5. Fits(p, c, signal[p], n)
    BY <1>1, <2>3, <2>4, Times DEF Fits
  <2>6. signal' = [signal EXCEPT ![p] = signal[p]]
    BY <1>1 DEF IInv
  <2> QED BY <2>1, <2>5, <2>6, ProcessMoves
<1>3. CASE ~(queued[TypeOf[Runner(p)]] > 0)
  <2> DEFINE c == [proc[p] EXCEPT !.at = "returned"]
  <2>1. proc' = [proc EXCEPT ![p] = c] /\ UNCHANGED late
    BY <1>3 DEF Claim, Goto
  <2>2. c \in ProcStates /\ c.at = "returned" /\ c.backoff = proc[p].backoff
    BY <1>1 DEF Fits, ProcStates, Places
  <2> HIDE DEF c
  <2>3. Fits(p, c, signal[p], late[p])
    BY <1>1, <2>2, Times DEF Fits
  <2> QED BY <1>1, <2>1, <2>3, LoopMoves
<1> QED BY <1>2, <1>3

\* The unit of work ends, or the iteration fails.
LEMMA WorkEnds ==
  ASSUME IInv, NEW p \in Processes, EndWork(p) \/ Fail(p)
  PROVE  IInv'
<1> DEFINE c == [proc[p] EXCEPT !.at = "returned", !.did = TRUE, !.left = 0]
           d == [proc[p] EXCEPT !.at = "returned", !.left = 0]
<1>1. /\ proc[p].at \in {"claim", "work"} /\ UNCHANGED <<signal, late>>
      /\ proc' = [proc EXCEPT ![p] = c] \/ proc' = [proc EXCEPT ![p] = d]
  BY DEF EndWork, Fail, At
<1>2. Fits(p, proc[p], signal[p], late[p]) /\ proc[p].left \in Nat
  BY DEF IInv, Fits, ProcStates
<1>3. /\ c \in ProcStates /\ c.at = "returned" /\ c.backoff = proc[p].backoff
      /\ d \in ProcStates /\ d.at = "returned" /\ d.backoff = proc[p].backoff
  BY <1>2 DEF Fits, ProcStates, Places
<1> HIDE DEF c, d
<1>4. signal[p].since <= LongestWork
  BY <1>1, <1>2, Times DEF Fits
<1>5. Fits(p, c, signal[p], late[p]) /\ Fits(p, d, signal[p], late[p])
  BY <1>2, <1>3, <1>4 DEF Fits
<1> QED BY <1>1, <1>5, LoopMoves

LEMMA BackOffIsBounded ==
  ASSUME NEW b \in Nat
  PROVE  BackOff(b) \in Nat /\ BackOff(b) <= Larger(Poll, MaxBackoff)
BY TimeAssumption DEF BackOff, Smaller, Larger

LEMMA ReturnForeverKeeps ==
  ASSUME IInv, NEW p \in Processes, ReturnForever(p)
  PROVE  IInv'
<1>1. /\ Fits(p, proc[p], signal[p], late[p]) /\ proc[p].at = "returned" /\ p \in Forever
      /\ UNCHANGED <<signal, late>>
  BY DEF IInv, ReturnForever, At
<1>2. CASE signal[p].stop
  BY <1>1, <1>2, GoesTo DEF ReturnForever, Places
<1>3. CASE ~signal[p].stop /\ proc[p].did
  <2> DEFINE c == [proc[p] EXCEPT !.at = "round", !.backoff = Poll, !.did = FALSE]
  <2>1. proc' = [proc EXCEPT ![p] = c]
    BY <1>3 DEF ReturnForever
  <2>2. c \in ProcStates /\ c.at = "round" /\ c.backoff = Poll
    BY <1>1, Times DEF Fits, ProcStates, Places
  <2>3. Poll <= Larger(Poll, MaxBackoff)
    BY Times DEF Larger
  <2> HIDE DEF c
  <2>4. Fits(p, c, signal[p], late[p])
    BY <1>1, <2>2, <2>3 DEF Fits
  <2> QED BY <1>1, <2>1, <2>4, LoopMoves
<1>4. CASE ~signal[p].stop /\ ~proc[p].did
  <2> DEFINE b == BackOff(proc[p].backoff)
             c == [proc[p] EXCEPT !.at = "sleep", !.left = proc[p].backoff, !.backoff = b]
  <2>1. proc' = [proc EXCEPT ![p] = c]
    BY <1>4 DEF ReturnForever
  <2>2. proc[p].backoff \in Nat /\ proc[p].backoff <= LongestStop(p)
    BY <1>1, Times DEF Fits, ProcStates
  <2>3. b \in Nat /\ b <= Larger(Poll, MaxBackoff)
    BY <2>2, BackOffIsBounded
  <2> HIDE DEF b
  <2>4. /\ c \in ProcStates /\ c.at = "sleep" /\ c.backoff = b
        /\ c.left = proc[p].backoff
    BY <1>1, <2>3 DEF Fits, ProcStates, Places
  <2> HIDE DEF c
  <2>5. Fits(p, c, signal[p], late[p])
    BY <1>1, <1>4, <2>2, <2>3, <2>4, Times DEF Fits
  <2> QED BY <1>1, <2>1, <2>5, LoopMoves
<1> QED BY <1>2, <1>3, <1>4

LEMMA ReturnAllKeeps ==
  ASSUME IInv, NEW p \in Processes, ReturnAll(p)
  PROVE  IInv'
<1> DEFINE next  == [proc[p] EXCEPT !.at = "turn", !.turn = @ + 1]
           again == [proc[p] EXCEPT !.at = "round", !.turn = 1, !.did = FALSE]
           rest  == [proc[p] EXCEPT !.at = "sleep", !.left = Poll, !.turn = 1]
<1>1. /\ Fits(p, proc[p], signal[p], late[p]) /\ proc[p].at = "returned" /\ p \notin Forever
      /\ UNCHANGED <<signal, late>>
  BY DEF IInv, ReturnAll, At
<1>2. \/ proc' = [proc EXCEPT ![p] = next] \/ proc' = [proc EXCEPT ![p] = again]
      \/ proc' = [proc EXCEPT ![p] = rest]
  BY DEF ReturnAll
<1>3. /\ next \in ProcStates /\ next.at = "turn" /\ next.backoff = proc[p].backoff
      /\ again \in ProcStates /\ again.at = "round" /\ again.backoff = proc[p].backoff
      /\ rest \in ProcStates /\ rest.at = "sleep" /\ rest.backoff = proc[p].backoff
      /\ rest.left = Poll
  <2>1. /\ proc[p] \in ProcStates /\ proc[p].turn + 1 \in Int /\ Poll \in Nat
        /\ "turn" \in Places /\ "round" \in Places /\ "sleep" \in Places
        /\ 1 \in Int /\ FALSE \in BOOLEAN
    BY <1>1, Times DEF Fits, ProcStates, Places
  <2>2. next \in ProcStates /\ next.at = "turn" /\ next.backoff = proc[p].backoff
    BY <2>1 DEF ProcStates
  <2>3. again \in ProcStates /\ again.at = "round" /\ again.backoff = proc[p].backoff
    BY <2>1 DEF ProcStates
  <2>4. /\ rest \in ProcStates /\ rest.at = "sleep" /\ rest.backoff = proc[p].backoff
        /\ rest.left = Poll
    BY <2>1 DEF ProcStates
  <2> QED BY <2>2, <2>3, <2>4
<1> HIDE DEF next, again, rest
<1>4. /\ Fits(p, next, signal[p], late[p]) /\ Fits(p, again, signal[p], late[p])
      /\ Fits(p, rest, signal[p], late[p])
  BY <1>1, <1>3, Times DEF Fits
<1> QED BY <1>1, <1>2, <1>4, LoopMoves

\* The loop is left, and the rows are stopped one after the other.
LEMMA LeavingKeeps ==
  ASSUME IInv, NEW p \in Processes, DatabaseFails(p) \/ Stop(p)
  PROVE  IInv'
<1>1. Fits(p, proc[p], signal[p], late[p]) /\ proc[p] \in ProcStates
      /\ UNCHANGED <<signal, late>>
  BY DEF IInv, Fits, DatabaseFails, Stop
<1>2. PICK place \in {"finally", "exit"}, n \in {1, proc[p].turn, proc[p].turn + 1} :
        proc' = [proc EXCEPT ![p] = [@ EXCEPT !.at = place, !.turn = n]]
  <2>1. CASE DatabaseFails(p)
    BY <2>1 DEF DatabaseFails
  <2>2. CASE Stop(p) /\ proc[p].turn < Len(Loop[p])
    <3>1. /\ proc[p].at = "finally"
          /\ proc' = [proc EXCEPT ![p] = [@ EXCEPT !.turn = proc[p].turn + 1]]
      BY <2>2 DEF Stop, At
    <3>2. [proc[p] EXCEPT !.turn = proc[p].turn + 1]
            = [proc[p] EXCEPT !.at = "finally", !.turn = proc[p].turn + 1]
      BY <1>1, <3>1 DEF ProcStates
    <3> QED BY <3>1, <3>2
  <2>3. CASE Stop(p) /\ ~(proc[p].turn < Len(Loop[p]))
    <3>1. proc' = [proc EXCEPT ![p] = [@ EXCEPT !.at = "exit"]]
      BY <2>3 DEF Stop, Goto
    <3>2. [proc[p] EXCEPT !.at = "exit"]
            = [proc[p] EXCEPT !.at = "exit", !.turn = proc[p].turn]
      BY <1>1 DEF ProcStates
    <3> QED BY <3>1, <3>2
  <2> QED BY <2>1, <2>2, <2>3
<1> DEFINE c == [proc[p] EXCEPT !.at = place, !.turn = n]
<1>3. proc' = [proc EXCEPT ![p] = c]
  BY <1>2
<1>4. n \in Int /\ place \in Places
  BY <1>1 DEF ProcStates, Places
<1>5. c \in ProcStates /\ c.at = place /\ c.backoff = proc[p].backoff
  BY <1>1, <1>4 DEF ProcStates
<1> HIDE DEF c
<1>6. Fits(p, c, signal[p], late[p])
  BY <1>1, <1>2, <1>5 DEF Fits
<1> QED BY <1>1, <1>3, <1>6, LoopMoves

\* The steps that only move a process on.
LEMMA MovesKeep ==
  ASSUME IInv, NEW p \in Processes,
         \/ NextRound(p) \/ RunOnce(p) \/ Wake(p) \/ Exit(p) \/ Kill(p) \/ Crash(p)
  PROVE  IInv'
<1>1. CASE NextRound(p)
  <2> DEFINE place == IF signal[p].stop THEN "finally"
                      ELSE IF p \in Forever THEN "once" ELSE "turn"
  <2>1. Goto(p, place) /\ UNCHANGED <<signal, late>>
    BY <1>1 DEF NextRound
  <2>2. /\ place \in {"finally", "once", "turn"}
        /\ place \in {"once", "turn"} => ~signal[p].stop
        /\ place = "turn" => p \notin Forever
    OBVIOUS
  <2> HIDE DEF place
  <2> QED BY <2>1, <2>2, GoesTo DEF Places
<1>2. CASE RunOnce(p)
  <2>1. proc[p].at = "once" /\ UNCHANGED <<signal, late>>
    BY <1>2 DEF RunOnce, At
  <2>2. CASE signal[p].stop
    <3>1. Goto(p, "returned") /\ "returned" \in Places
      BY <1>2, <2>2 DEF RunOnce, Places
    <3> QED BY <2>1, <3>1, GoesTo
  <2>3. CASE ~signal[p].stop
    <3>1. Goto(p, "claim") /\ "claim" \in Places
      BY <1>2, <2>3 DEF RunOnce, Places
    <3> QED BY <2>1, <2>3, <3>1, GoesTo
  <2> QED BY <2>2, <2>3
<1>3. CASE Wake(p) \/ Exit(p) \/ Kill(p) \/ Crash(p)
  <2>1. /\ UNCHANGED <<signal, late>>
        /\ Goto(p, "round") \/ Goto(p, "ended") \/ Goto(p, "killed")
    BY <1>3 DEF Wake, Exit, Kill, Crash
  <2> QED BY <2>1, GoesTo DEF Places
<1> QED BY <1>1, <1>2, <1>3

-----------------------------------------------------------------------------
\* The signal and the clock.

LEMMA RequestStopKeeps ==
  ASSUME IInv, NEW p \in Processes, RequestStop(p)
  PROVE  IInv'
<1> DEFINE s == [signal[p] EXCEPT !.asked = TRUE, !.stop = TRUE]
<1>1. /\ ~signal[p].asked /\ signal' = [signal EXCEPT ![p] = s] /\ UNCHANGED <<proc, late>>
  BY DEF RequestStop
<1>2. Fits(p, proc[p], signal[p], late[p])
  BY DEF IInv
<1>3. s \in [asked : BOOLEAN, since : Nat, stop : BOOLEAN] /\ s.asked /\ s.stop
      /\ s.since = signal[p].since
  BY <1>2 DEF Fits
<1> HIDE DEF s
<1>4. Fits(p, proc[p], s, late[p])
  BY <1>1, <1>2, <1>3 DEF Fits
<1>5. proc' = [proc EXCEPT ![p] = proc[p]] /\ late' = [late EXCEPT ![p] = late[p]]
  BY <1>1 DEF IInv
<1> QED BY <1>1, <1>4, <1>5, ProcessMoves

LEMMA TickKeeps ==
  ASSUME IInv, Tick
  PROVE  IInv'
<1>1. UNCHANGED late
  BY DEF Tick
<1>2. /\ proc' = [p \in Processes |-> proc'[p]] /\ signal' = [p \in Processes |-> signal'[p]]
      /\ late' = [p \in Processes |-> late'[p]]
  BY <1>1 DEF Tick, IInv
<1>3. ASSUME NEW p \in Processes PROVE Fits(p, proc'[p], signal'[p], late'[p])
  <2>1. Fits(p, proc[p], signal[p], late[p]) /\ late'[p] = late[p]
    BY <1>1 DEF IInv
  <2>2. CASE Gone(p)
    <3>1. proc'[p] = proc[p] /\ signal'[p] = signal[p]
      BY <2>2 DEF Tick
    <3> QED BY <2>1, <3>1
  <2>3. CASE ~Gone(p)
    <3> DEFINE c == [proc[p] EXCEPT !.left = @ - 1]
               m == Larger(Grace, LongestStop(p)) + 1
               s == IF signal[p].asked
                    THEN [signal[p] EXCEPT !.since = Smaller(@ + 1, m)] ELSE signal[p]
    <3>1. proc'[p] = c /\ signal'[p] = s
      BY <2>3 DEF Tick
    <3>2. proc[p].at \in {"work", "sleep"} /\ proc[p].left > 0
      BY <2>3 DEF Tick, Waiting
    <3>3. /\ c \in ProcStates /\ c.at = proc[p].at /\ c.left = proc[p].left - 1
          /\ c.backoff = proc[p].backoff
      BY <2>1, <3>2 DEF Fits, ProcStates
    <3>4. m \in Nat
      BY Times DEF Larger
    <3>5. signal[p].since \in Nat
      BY <2>1 DEF Fits
    <3> HIDE DEF c, m
    <3>6. Smaller(signal[p].since + 1, m) \in Nat
          /\ Smaller(signal[p].since + 1, m) <= signal[p].since + 1
      BY <3>4, <3>5 DEF Smaller
    <3>7. /\ s \in [asked : BOOLEAN, since : Nat, stop : BOOLEAN]
          /\ s.asked = signal[p].asked /\ s.stop = signal[p].stop
          /\ s.since <= signal[p].since + 1
          /\ ~signal[p].asked => s = signal[p]
      BY <2>1, <3>5, <3>6 DEF Fits
    <3> HIDE DEF s
    <3>8. proc[p].left \in Nat /\ s.since \in Nat
      BY <2>1, <3>7 DEF Fits, ProcStates
    <3>9. Fits(p, c, s, late[p])
      BY <2>1, <3>2, <3>3, <3>5, <3>7, <3>8, Times DEF Fits
    <3> QED BY <2>1, <3>1, <3>9
  <2> QED BY <2>2, <2>3
<1>4. \A p \in Processes : Fits(p, proc[p], signal[p], late[p])'
  BY <1>3 DEF Fits, LongestStop
<1> QED BY <1>2, <1>4 DEF IInv

-----------------------------------------------------------------------------
LEMMA InitHolds == Init => IInv
<1> SUFFICES ASSUME Init, NEW p \in Processes PROVE Fits(p, proc[p], signal[p], late[p])
  BY DEF Init, IInv
<1>1. PICK started \in Together :
        proc = [q \in Processes |->
          [at |-> IF q \in started THEN "register" ELSE "absent",
           turn |-> 1, left |-> 0, backoff |-> Poll, did |-> FALSE]]
  BY DEF Init
<1>2. proc[p] \in ProcStates /\ proc[p].at \in {"register", "absent"} /\ proc[p].backoff = Poll
  BY <1>1, Times DEF ProcStates, Places
<1>3. signal[p] = [asked |-> FALSE, since |-> 0, stop |-> FALSE] /\ late[p] = 0
  BY DEF Init
<1>4. Poll <= Larger(Poll, MaxBackoff)
  BY Times DEF Larger
<1> QED BY <1>2, <1>3, <1>4, Times DEF Fits

LEMMA NextKeeps == IInv /\ [Next]_vars => IInv'
<1> SUFFICES ASSUME IInv, [Next]_vars PROVE IInv'
  OBVIOUS
<1>1. ASSUME NEW p \in Processes,
             Step(p) \/ DatabaseFails(p) \/ RequestStop(p) \/ Kill(p) \/ Crash(p)
      PROVE IInv'
  BY <1>1, RegisterKeeps, NextTurnKeeps, ClaimKeeps, WorkEnds, ReturnForeverKeeps,
     ReturnAllKeeps, LeavingKeeps, MovesKeep, RequestStopKeeps DEF Step
<1>2. CASE Tick
  BY <1>2, TickKeeps
<1>3. CASE UNCHANGED <<proc, signal, late>>
  BY <1>3 DEF IInv, Fits, LongestStop
<1>4. ASSUME NEW t \in Types, Capture(t) PROVE IInv'
  BY <1>3, <1>4 DEF Capture
<1> QED BY <1>1, <1>2, <1>3, <1>4 DEF Next, vars

LEMMA Invariance == Spec => []IInv
BY InitHolds, NextKeeps, PTL DEF Spec

-----------------------------------------------------------------------------
\* Whenever the request arrives, run_forever and run_all claim at most the unit they
\* were about to claim, for loops over any number of queues.
THEOREM NoWorkAfterStop == Spec => []OneLateUnit
<1>1. IInv => OneLateUnit
  BY DEF IInv, Fits, OneLateUnit
<1> QED BY <1>1, Invariance, PTL

\* A process that was asked to stop is gone after the longest sleep or unit of work,
\* and in run_all one sleep more, for all poll, back-off and work times.
THEOREM StopsInTime == Spec => []StopIsPrompt
<1>1. IInv => StopIsPrompt
  BY DEF IInv, Fits, StopIsPrompt
<1> QED BY <1>1, Invariance, PTL

-----------------------------------------------------------------------------
\* The rows.  The theorems about them follow a runner's heartbeat round its loop.

RowStates == [state : States, failures : 0..MaxFailures, age : 0..MaxAge]

\* In this round the turn of runner i has begun, or is over.
Heard(c, i) == i < c.turn \/ (i = c.turn /\ c.at \in {"claim", "work", "returned"})

\* What has passed at most since the last turn of runner i once the present turn is
\* over: the turns since, and a sleep if a new round began.
Quiet(p, c, i) ==
  IF Heard(c, i) THEN (c.turn - i) * LongestWork
  ELSE (Len(Loop[p]) - i + c.turn) * LongestWork + LongestSleep(p)

\* The age of the heartbeat of runner i, in a process in state c.
Silent(p, c, i, age) ==
  /\ c.at = "register" => age = 0
  /\ c.at \in {"round", "turn", "once"} => age <= Quiet(p, c, i) - LongestWork
  /\ c.at = "sleep" => age + c.left <= Quiet(p, c, i) - LongestWork
  /\ c.at = "claim" => age <= IF i = c.turn THEN 0 ELSE Quiet(p, c, i) - LongestWork
  /\ c.at = "work" => age + c.left <= IF i = c.turn THEN LongestWork ELSE Quiet(p, c, i)
  /\ c.at = "returned" => age <= Quiet(p, c, i)
  /\ c.at \in {"finally", "exit"} => age <= LongestSilence(p)

\* The row x of runner i.
RowFits(p, c, s, i, x) ==
  /\ x.state = "stopped" => c.at \in {"finally", "exit", "ended", "killed"}
  /\ c.at \in {"exit", "ended"} \/ (c.at = "finally" /\ i < c.turn) => x.state = "stopped"
  /\ ~s.stop /\ c.at \notin {"absent", "ended", "killed"} =>
       x.state /= "stopping" /\ Silent(p, c, i, x.age)

TurnFits(p, c) ==
  /\ c.turn \in 1..Len(Loop[p])
  /\ c.at \in {"round", "sleep"} => c.turn = 1

Rows ==
  /\ row \in [Runners -> RowStates]
  /\ queued \in [Types -> 0..MaxQueued]
  /\ \A p \in Processes : TurnFits(p, proc[p])
  /\ \A p \in Processes : \A i \in DOMAIN Loop[p] :
       RowFits(p, proc[p], signal[p], i, row[Loop[p][i]])

LEMMA Loops ==
  ASSUME NEW p \in Processes
  PROVE  /\ Len(Loop[p]) \in Nat /\ Len(Loop[p]) >= 1 /\ DOMAIN Loop[p] = 1..Len(Loop[p])
         /\ \A i \in DOMAIN Loop[p] : Loop[p][i] \in Runners
         /\ p \in Forever => Len(Loop[p]) = 1
<1>1. Loop[p] \in Seq(Runners) /\ Loop[p] /= <<>>
  BY LoopAssumption
<1> QED BY <1>1, LoopAssumption

LEMMA Rests ==
  ASSUME NEW p \in Processes
  PROVE  /\ LongestSleep(p) \in Nat /\ LongestSilence(p) \in Int
         /\ LongestWork <= LongestSilence(p)
         /\ (Len(Loop[p]) - 1) * LongestWork + LongestSleep(p) <= LongestSilence(p)
         /\ p \notin Forever => LongestSleep(p) = Poll
         /\ p \in Forever => LongestSleep(p) = Larger(Poll, MaxBackoff)
<1>1. LongestSleep(p) \in Nat /\ LongestWork \in Nat /\ Len(Loop[p]) \in Nat
  BY Times, Loops DEF LongestSleep
<1>2. (Len(Loop[p]) - 1) * LongestWork + LongestSleep(p) \in Int
  BY <1>1
<1> QED BY <1>1, <1>2 DEF LongestSilence, Larger, LongestSleep

\* Turns take no less than nothing, and no longer than all the turns of a round.
LEMMA Turns ==
  ASSUME NEW j \in Int, NEW k \in Int, NEW w \in Nat, j <= k
  PROVE  j * w \in Int /\ j * w <= k * w /\ (j + 1) * w = j * w + w
<1>1. j * w \in Int /\ k * w \in Int /\ (j + 1) * w = j * w + w
  OBVIOUS
<1>2. k - j \in Nat /\ (k - j) * w >= 0 /\ k * w = j * w + (k - j) * w
  OBVIOUS
<1>3. (k - j) * w \in Int
  OBVIOUS
<1> QED BY <1>1, <1>2, <1>3

\* A row just written fits.
LEMMA FreshFits ==
  ASSUME NEW p \in Processes, NEW c \in ProcStates, TurnFits(p, c),
         NEW i \in DOMAIN Loop[p],
         c.at = "work" => c.left <= LongestWork, c.at = "sleep" => c.left <= LongestSleep(p)
  PROVE  Silent(p, c, i, 0)
<1> DEFINE n == Len(Loop[p])
           t == c.turn
<1>1. /\ n \in Nat /\ i \in 1..n /\ t \in 1..n /\ LongestWork \in Nat /\ LongestSleep(p) \in Nat
      /\ c.left \in Nat
  BY Loops, Times, Rests DEF TurnFits, ProcStates
<1>2. i < t => (t - i) * LongestWork >= LongestWork
  <2> SUFFICES ASSUME i < t PROVE (t - i) * LongestWork >= LongestWork
    OBVIOUS
  <2>1. 1 \in Int /\ t - i \in Int /\ 1 <= t - i
    BY <1>1
  <2>2. 1 * LongestWork <= (t - i) * LongestWork
    BY <1>1, <2>1, Turns
  <2> QED BY <1>1, <2>2
<1>3. (n - i + t) * LongestWork >= LongestWork
  <2>1. 1 \in Int /\ n - i + t \in Int /\ 1 <= n - i + t
    BY <1>1
  <2>2. 1 * LongestWork <= (n - i + t) * LongestWork
    BY <1>1, <2>1, Turns
  <2> QED BY <1>1, <2>2
<1>4. (t - i) * LongestWork \in Int /\ (n - i + t) * LongestWork \in Int
  BY <1>1
<1>5. LongestWork <= LongestSilence(p) /\ LongestSilence(p) \in Int
  BY Rests
<1>6. i = t => (t - i) * LongestWork = 0
  BY <1>1
<1>7. /\ Quiet(p, c, i) \in Int
      /\ Quiet(p, c, i) >= LongestWork \/ (i = t /\ c.at \in {"claim", "work", "returned"} /\ Quiet(p, c, i) = 0)
      /\ ~Heard(c, i) => Quiet(p, c, i) >= LongestWork + LongestSleep(p)
  <2>1. CASE Heard(c, i)
    BY <1>1, <1>2, <1>4, <1>6, <2>1 DEF Quiet, Heard
  <2>2. CASE ~Heard(c, i)
    <3>1. Quiet(p, c, i) = (n - i + t) * LongestWork + LongestSleep(p)
      BY <2>2 DEF Quiet
    <3> DEFINE m == (n - i + t) * LongestWork
    <3>2. m \in Int /\ m >= LongestWork /\ Quiet(p, c, i) = m + LongestSleep(p)
      BY <1>3, <1>4, <3>1
    <3> HIDE DEF m
    <3> QED BY <1>1, <2>2, <3>2
  <2> QED BY <2>1, <2>2
<1>8. c.at = "sleep" => ~Heard(c, i)
  BY <1>1 DEF Heard, TurnFits
<1> QED BY <1>1, <1>5, <1>7, <1>8 DEF Silent

\* A turn more: nobody has been heard meanwhile.
LEMMA QuietTurn ==
  ASSUME NEW p \in Processes, NEW c \in ProcStates, NEW d \in ProcStates,
         NEW i \in DOMAIN Loop[p], TurnFits(p, c), c.at = "returned", d.at = "turn",
         d.turn = c.turn + 1
  PROVE  Quiet(p, d, i) - LongestWork = Quiet(p, c, i) /\ Quiet(p, c, i) \in Int
<1> DEFINE n == Len(Loop[p])
           t == c.turn
<1>1. n \in Nat /\ i \in 1..n /\ t \in 1..n /\ LongestWork \in Nat /\ LongestSleep(p) \in Nat
  BY Loops, Times, Rests DEF TurnFits
<1>2. Heard(c, i) <=> i <= t
  BY <1>1 DEF Heard
<1>3. Heard(d, i) <=> i <= t
  BY <1>1 DEF Heard
<1>4. CASE i <= t
  <2>1. /\ t - i \in Int /\ t - i <= t - i /\ (t - i) * LongestWork \in Int
        /\ ((t - i) + 1) * LongestWork = (t - i) * LongestWork + LongestWork
    BY <1>1, Turns
  <2>2. (t - i) + 1 = d.turn - i
    BY <1>1
  <2> DEFINE m == (t - i) * LongestWork
  <2>3. Quiet(p, c, i) = m /\ Quiet(p, d, i) = m + LongestWork /\ m \in Int
    BY <1>2, <1>3, <1>4, <2>1, <2>2 DEF Quiet
  <2> HIDE DEF m
  <2> QED BY <1>1, <2>3
<1>5. CASE ~(i <= t)
  <2> DEFINE k == n - i + t
             m == k * LongestWork
  <2>1. k \in Int /\ k <= k
    BY <1>1
  <2>2. m \in Int /\ (k + 1) * LongestWork = m + LongestWork
    BY <1>1, <2>1, Turns
  <2>3. k + 1 = n - i + d.turn
    BY <1>1
  <2>4. Quiet(p, c, i) = m + LongestSleep(p) /\ Quiet(p, d, i) = (m + LongestWork) + LongestSleep(p)
    BY <1>2, <1>3, <1>5, <2>2, <2>3 DEF Quiet
  <2> HIDE DEF m, k
  <2> QED BY <1>1, <2>2, <2>4
<1> QED BY <1>4, <1>5

\* A round ends: there is a sleep more.
LEMMA QuietRound ==
  ASSUME NEW p \in Processes, NEW c \in ProcStates, NEW d \in ProcStates,
         NEW i \in DOMAIN Loop[p], TurnFits(p, c), c.at = "returned",
         c.turn = Len(Loop[p]), d.at \in {"round", "sleep"}, d.turn = 1
  PROVE  Quiet(p, d, i) - LongestWork = Quiet(p, c, i) + LongestSleep(p) /\ Quiet(p, c, i) \in Int
<1> DEFINE n == Len(Loop[p])
           k == n - i
           m == k * LongestWork
<1>1. n \in Nat /\ i \in 1..n /\ LongestWork \in Nat /\ LongestSleep(p) \in Nat /\ k \in Int /\ k <= k
  BY Loops, Times, Rests
<1>2. Heard(c, i) /\ ~Heard(d, i)
  BY <1>1 DEF Heard
<1>3. m \in Int /\ (k + 1) * LongestWork = m + LongestWork
  BY <1>1, Turns
<1>4. k + 1 = n - i + d.turn /\ c.turn - i = k
  BY <1>1
<1>5. Quiet(p, c, i) = m /\ Quiet(p, d, i) = (m + LongestWork) + LongestSleep(p)
  BY <1>2, <1>3, <1>4 DEF Quiet
<1> HIDE DEF m, k
<1> QED BY <1>1, <1>3, <1>5

\* However far a turn has come, no row has been silent for longer than LongestSilence.
LEMMA QuietIsBounded ==
  ASSUME NEW p \in Processes, NEW c \in ProcStates, NEW i \in DOMAIN Loop[p],
         TurnFits(p, c)
  PROVE  /\ Quiet(p, c, i) \in Int
         /\ c.at \notin {"work", "returned"} => Quiet(p, c, i) - LongestWork <= LongestSilence(p)
         /\ i /= c.turn \/ c.at = "returned" => Quiet(p, c, i) <= LongestSilence(p)
<1> DEFINE n == Len(Loop[p])
           t == c.turn
           m == (n - 1) * LongestWork
<1>1. /\ n \in Nat /\ i \in 1..n /\ t \in 1..n /\ LongestWork \in Nat /\ LongestSleep(p) \in Nat
      /\ m \in Int /\ LongestSilence(p) \in Int /\ m + LongestSleep(p) <= LongestSilence(p)
  BY Loops, Times, Rests DEF TurnFits
<1>2. CASE Heard(c, i)
  <2>1. t - i \in Int /\ n - 1 \in Int /\ t - i <= n - 1
    BY <1>1
  <2>2. (t - i) * LongestWork \in Int /\ (t - i) * LongestWork <= m
    BY <1>1, <2>1, Turns
  <2>3. Quiet(p, c, i) = (t - i) * LongestWork
    BY <1>2 DEF Quiet
  <2> HIDE DEF m
  <2> QED BY <1>1, <2>2, <2>3
<1>3. CASE ~Heard(c, i)
  <2> DEFINE k == n - i + t - 1
  <2>1. k \in Int /\ n - 1 \in Int /\ k <= n - 1 /\ k + 1 = n - i + t /\ k + 1 \in Int
    BY <1>1, <1>3 DEF Heard
  <2>2. k * LongestWork \in Int /\ k * LongestWork <= m
        /\ (k + 1) * LongestWork = k * LongestWork + LongestWork
    BY <1>1, <2>1, Turns
  <2>3. Quiet(p, c, i) = (k * LongestWork + LongestWork) + LongestSleep(p)
    BY <1>3, <2>1, <2>2 DEF Quiet
  <2>4. i /= t \/ c.at = "returned" => t < i
    BY <1>1, <1>3 DEF Heard
  <2>5. ASSUME t < i PROVE (k + 1) * LongestWork <= m
    <3>1. k + 1 <= n - 1
      BY <1>1, <2>5
    <3> QED BY <1>1, <2>1, <3>1, Turns
  <2> DEFINE q == k * LongestWork
  <2>6. /\ q \in Int /\ q <= m /\ Quiet(p, c, i) = (q + LongestWork) + LongestSleep(p)
        /\ i /= t \/ c.at = "returned" => q + LongestWork <= m
    BY <2>2, <2>3, <2>4, <2>5
  <2> HIDE DEF m, k, q
  <2> QED BY <1>1, <2>6
<1> QED BY <1>2, <1>3

-----------------------------------------------------------------------------
\* A step of one process keeps the rows, if it keeps its own.
LEMMA RowsMove ==
  ASSUME IInv, Rows, NEW p \in Processes, NEW c, NEW s, TurnFits(p, c),
         row' \in [Runners -> RowStates], queued' \in [Types -> 0..MaxQueued],
         proc' = [proc EXCEPT ![p] = c], signal' = [signal EXCEPT ![p] = s],
         \A r \in Runners : (\A i \in DOMAIN Loop[p] : Loop[p][i] /= r) => row'[r] = row[r],
         \A i \in DOMAIN Loop[p] : RowFits(p, c, s, i, row'[Loop[p][i]])
  PROVE  Rows'
<1>1. proc'[p] = c /\ signal'[p] = s
  BY DEF IInv
<1>2. ASSUME NEW q \in Processes, q /= p
      PROVE  proc'[q] = proc[q] /\ signal'[q] = signal[q]
             /\ \A i \in DOMAIN Loop[q] : row'[Loop[q][i]] = row[Loop[q][i]]
  <2>1. proc'[q] = proc[q] /\ signal'[q] = signal[q]
    BY <1>2 DEF IInv
  <2>2. ASSUME NEW i \in DOMAIN Loop[q] PROVE row'[Loop[q][i]] = row[Loop[q][i]]
    <3>1. Loop[q][i] \in Runners /\ \A j \in DOMAIN Loop[p] : Loop[p][j] /= Loop[q][i]
      BY <1>2, Loops, LoopAssumption
    <3> QED BY <3>1
  <2> QED BY <2>1, <2>2
<1>3. \A q \in Processes : TurnFits(q, proc'[q])
  BY <1>1, <1>2 DEF Rows
<1>4. \A q \in Processes : \A i \in DOMAIN Loop[q] :
        RowFits(q, proc'[q], signal'[q], i, row'[Loop[q][i]])
  BY <1>1, <1>2 DEF Rows
<1> QED BY <1>3, <1>4 DEF Rows, TurnFits, RowFits, Silent, Quiet, Heard, LongestSleep, LongestSilence

\* A step that writes no row.
LEMMA NoBeat ==
  ASSUME IInv, Rows, NEW p \in Processes, NEW c, TurnFits(p, c),
         proc' = [proc EXCEPT ![p] = c], UNCHANGED <<row, signal, queued>>,
         ~Gone(p), c.at \notin {"absent", "exit", "ended"},
         proc[p].at \notin {"finally", "exit"} \/ c.at = "killed",
         c.at = "finally" => c.turn = 1,
         ~signal[p].stop /\ c.at /= "killed" =>
           \A i \in DOMAIN Loop[p] : \A a \in Nat : Silent(p, proc[p], i, a) => Silent(p, c, i, a)
  PROVE  Rows'
<1>1. signal' = [signal EXCEPT ![p] = signal[p]] /\ row' \in [Runners -> RowStates]
      /\ queued' \in [Types -> 0..MaxQueued]
  BY DEF IInv, Rows
<1>2. ASSUME NEW i \in DOMAIN Loop[p]
      PROVE  RowFits(p, c, signal[p], i, row'[Loop[p][i]])
  <2>1. row'[Loop[p][i]] \in RowStates /\ row'[Loop[p][i]] = row[Loop[p][i]]
        /\ RowFits(p, proc[p], signal[p], i, row[Loop[p][i]])
    BY <1>1, Loops DEF Rows
  <2>2. row'[Loop[p][i]].age \in Nat
    BY <2>1, TimeAssumption DEF RowStates
  <2>3. ~(i < 1)
    BY Loops
  <2> QED BY <2>1, <2>2, <2>3 DEF RowFits, Gone
<1> QED BY <1>1, <1>2, RowsMove

\* A step that writes the row of the runner whose turn it is.
LEMMA OneBeat ==
  ASSUME IInv, Rows, NEW p \in Processes, NEW c \in ProcStates, TurnFits(p, c),
         proc' = [proc EXCEPT ![p] = c], UNCHANGED signal,
         queued' \in [Types -> 0..MaxQueued],
         ~Gone(p), {c.at, proc[p].at} \cap {"finally", "exit"} = {},
         c.at \notin {"absent", "ended", "killed"},
         row' \in [Runners -> RowStates],
         \A r \in Runners : r /= Runner(p) => row'[r] = row[r],
         row'[Runner(p)].age = 0, row'[Runner(p)].state /= "stopped",
         row'[Runner(p)].state = "stopping" => signal[p].stop,
         c.at = "work" => c.left <= LongestWork, c.at = "sleep" => c.left <= LongestSleep(p),
         ~signal[p].stop =>
           \A i \in DOMAIN Loop[p] : \A a \in Nat :
             i /= proc[p].turn /\ Silent(p, proc[p], i, a) => Silent(p, c, i, a)
  PROVE  Rows'
<1>1. signal' = [signal EXCEPT ![p] = signal[p]]
  BY DEF IInv
<1>2. proc[p].turn \in DOMAIN Loop[p]
  BY Loops DEF Rows, TurnFits
<1>3. ASSUME NEW i \in DOMAIN Loop[p]
      PROVE  RowFits(p, c, signal[p], i, row'[Loop[p][i]])
  <2>1. CASE Loop[p][i] = Runner(p)
    BY <2>1, FreshFits DEF RowFits
  <2>2. CASE Loop[p][i] /= Runner(p)
    <3>1. i /= proc[p].turn
      BY <2>2 DEF Runner
    <3>2. row'[Loop[p][i]] \in RowStates /\ row'[Loop[p][i]] = row[Loop[p][i]]
          /\ RowFits(p, proc[p], signal[p], i, row[Loop[p][i]])
      BY <2>2, Loops DEF Rows
    <3>3. row'[Loop[p][i]].age \in Nat
      BY <3>2, TimeAssumption DEF RowStates
    <3> QED BY <3>1, <3>2, <3>3 DEF RowFits, Gone
  <2> QED BY <2>1, <2>2
<1>4. \A r \in Runners : (\A i \in DOMAIN Loop[p] : Loop[p][i] /= r) => row'[r] = row[r]
  BY <1>2 DEF Runner
<1> QED BY <1>1, <1>3, <1>4, RowsMove

LEMMA BeatWrites ==
  ASSUME Rows, NEW r \in Runners, NEW state \in States, Beat(r, state)
  PROVE  /\ row' \in [Runners -> RowStates] /\ row'[r].age = 0 /\ row'[r].state = state
         /\ \A q \in Runners : q /= r => row'[q] = row[q]
<1> DEFINE x == [[row[r] EXCEPT !.state = state] EXCEPT !.age = 0]
<1>1. row \in [Runners -> RowStates] /\ MaxAge \in Nat
  BY TimeAssumption DEF Rows
<1>2. row' = [row EXCEPT ![r] = x]
  BY <1>1 DEF Beat
<1>3. row[r] \in RowStates /\ 0 \in 0..MaxAge
  BY <1>1
<1>4. x \in RowStates /\ x.age = 0 /\ x.state = state
  BY <1>3 DEF RowStates
<1> HIDE DEF x
<1> QED BY <1>1, <1>2, <1>4

LEMMA RunnerIsOne ==
  ASSUME Rows, NEW p \in Processes
  PROVE  Runner(p) \in Runners /\ proc[p].turn \in DOMAIN Loop[p]
BY Loops DEF Rows, TurnFits, Runner

LEMMA SameQuiet ==
  ASSUME NEW p \in Processes, NEW c \in ProcStates, NEW d \in ProcStates,
         NEW i \in DOMAIN Loop[p], TurnFits(p, c), d.turn = c.turn,
         i /= c.turn \/ (c.at \in {"claim", "work", "returned"}
                           <=> d.at \in {"claim", "work", "returned"})
  PROVE  Quiet(p, d, i) = Quiet(p, c, i) /\ Quiet(p, c, i) \in Int
BY QuietIsBounded DEF Quiet, Heard

\* A process after a step that only moves it on.
LEMMA Going ==
  ASSUME IInv, Rows, NEW p \in Processes, NEW place \in Places, Goto(p, place)
  PROVE  \E c \in ProcStates :
           /\ proc' = [proc EXCEPT ![p] = c]
           /\ c.at = place /\ c.turn = proc[p].turn /\ c.left = proc[p].left
           /\ c.turn \in 1..Len(Loop[p])
           /\ proc[p] \in ProcStates /\ TurnFits(p, proc[p]) /\ c.left \in Nat
<1> DEFINE c == [proc[p] EXCEPT !.at = place]
<1>1. proc' = [proc EXCEPT ![p] = c]
  BY DEF Goto
<1>2. proc[p] \in ProcStates /\ TurnFits(p, proc[p])
  BY DEF IInv, Fits, Rows
<1>3. c \in ProcStates /\ c.at = place /\ c.turn = proc[p].turn /\ c.left = proc[p].left
      /\ c.left \in Nat
  BY <1>2 DEF ProcStates
<1>4. c.turn \in 1..Len(Loop[p])
  BY <1>2, <1>3 DEF TurnFits
<1> HIDE DEF c
<1> QED BY <1>1, <1>2, <1>3, <1>4

LEMMA RegisterRows ==
  ASSUME IInv, Rows, NEW p \in Processes, Register(p)
  PROVE  Rows'
<1> DEFINE n == Len(Loop[p])
           c == IF proc[p].turn < n THEN [proc[p] EXCEPT !.turn = @ + 1]
                ELSE [proc[p] EXCEPT !.turn = 1, !.at = "round"]
           x == [state |-> "starting", failures |-> 0, age |-> 0]
<1>1. /\ proc[p].at = "register" /\ UNCHANGED <<signal, queued>>
      /\ proc' = [proc EXCEPT ![p] = c] /\ row' = [row EXCEPT ![Runner(p)] = x]
  BY DEF Register, At
<1>2. proc[p] \in ProcStates /\ TurnFits(p, proc[p]) /\ n \in Nat /\ n >= 1
  BY Loops DEF IInv, Fits, Rows
<1>3. /\ c \in ProcStates /\ c.at \in {"register", "round"}
      /\ c.turn \in 1..n /\ (c.at = "round" => c.turn = 1)
  <2>1. proc[p].turn + 1 \in Int /\ 1 \in Int /\ "round" \in Places
    BY <1>2 DEF TurnFits, Places
  <2>2. CASE proc[p].turn < n
    <3>1. c = [proc[p] EXCEPT !.turn = @ + 1]
      BY <2>2
    <3>2. c \in ProcStates /\ c.at = "register" /\ c.turn = proc[p].turn + 1
      BY <1>1, <1>2, <2>1, <3>1 DEF ProcStates
    <3> QED BY <1>2, <2>2, <3>2 DEF TurnFits
  <2>3. CASE ~(proc[p].turn < n)
    <3>1. c = [proc[p] EXCEPT !.turn = 1, !.at = "round"]
      BY <2>3
    <3>2. c \in ProcStates /\ c.at = "round" /\ c.turn = 1
      BY <1>2, <2>1, <3>1 DEF ProcStates
    <3> QED BY <1>2, <3>2
  <2> QED BY <2>2, <2>3
<1> HIDE DEF c
<1>4. TurnFits(p, c)
  BY <1>3 DEF TurnFits
<1>5. x \in RowStates /\ x.age = 0 /\ x.state = "starting"
  BY TimeAssumption DEF RowStates, States
<1> HIDE DEF x
<1>6. /\ row' \in [Runners -> RowStates] /\ row'[Runner(p)] = x
      /\ \A r \in Runners : r /= Runner(p) => row'[r] = row[r]
  BY <1>1, <1>5, RunnerIsOne DEF Rows
<1>7. ASSUME NEW i \in DOMAIN Loop[p], NEW a \in Nat, Silent(p, proc[p], i, a)
      PROVE  Silent(p, c, i, a)
  <2>1. a = 0
    BY <1>1, <1>7 DEF Silent
  <2> QED BY <1>3, <1>4, <2>1, FreshFits
<1>8. queued' \in [Types -> 0..MaxQueued] /\ ~Gone(p)
  BY <1>1 DEF Rows, Gone
<1> QED BY <1>1, <1>3, <1>4, <1>5, <1>6, <1>7, <1>8, OneBeat

\* The steps that only move the process on, and write no row.
LEMMA QuietSteps ==
  ASSUME IInv, Rows, NEW p \in Processes, NEW place \in Places, Goto(p, place),
         UNCHANGED <<row, signal, queued>>, ~Gone(p),
         place \in {"once", "turn", "round", "finally", "killed"},
         proc[p].at \notin {"finally", "exit"} \/ place = "killed",
         place \in {"once", "turn"} => proc[p].at \in {"round", "turn"},
         place = "round" => proc[p].at = "sleep" /\ proc[p].left = 0,
         place = "finally" => signal[p].stop /\ proc[p].turn = 1
  PROVE  Rows'
<1>1. PICK c \in ProcStates :
        /\ proc' = [proc EXCEPT ![p] = c]
        /\ c.at = place /\ c.turn = proc[p].turn /\ c.left = proc[p].left
        /\ c.turn \in 1..Len(Loop[p])
        /\ proc[p] \in ProcStates /\ TurnFits(p, proc[p]) /\ c.left \in Nat
  BY Going
<1>2. TurnFits(p, c)
  BY <1>1 DEF TurnFits
<1>3. ASSUME NEW i \in DOMAIN Loop[p], NEW a \in Nat, Silent(p, proc[p], i, a),
             ~signal[p].stop, place /= "killed"
      PROVE  Silent(p, c, i, a)
  <2>1. CASE place \in {"once", "turn", "round"}
    <3>1. Quiet(p, c, i) = Quiet(p, proc[p], i) /\ Quiet(p, c, i) \in Int
      BY <1>1, <2>1, SameQuiet
    <3> QED BY <1>1, <1>3, <2>1, <3>1 DEF Silent
  <2>2. place /= "finally"
    BY <1>3
  <2> QED BY <1>3, <2>1, <2>2
<1>4. c.at \notin {"absent", "exit", "ended"} /\ (c.at = "finally" => c.turn = 1)
  BY <1>1
<1> QED BY <1>1, <1>2, <1>3, <1>4, NoBeat

LEMMA MovesKeepRows ==
  ASSUME IInv, Rows, NEW p \in Processes,
         NextRound(p) \/ Wake(p) \/ DatabaseFails(p) \/ Kill(p) \/ Crash(p)
  PROVE  Rows'
<1>1. CASE NextRound(p)
  <2> DEFINE place == IF signal[p].stop THEN "finally"
                      ELSE IF p \in Forever THEN "once" ELSE "turn"
  <2>1. Goto(p, place) /\ UNCHANGED <<row, signal, queued>> /\ proc[p].at = "round"
    BY <1>1 DEF NextRound, At
  <2>2. place \in {"finally", "once", "turn"} /\ (place = "finally" => signal[p].stop)
        /\ place \in Places
    BY DEF Places
  <2> HIDE DEF place
  <2>3. ~Gone(p) /\ proc[p].turn = 1
    BY <2>1 DEF Gone, Rows, TurnFits
  <2> QED BY <2>1, <2>2, <2>3, QuietSteps
<1>2. CASE Wake(p)
  <2>1. /\ Goto(p, "round") /\ UNCHANGED <<row, signal, queued>> /\ proc[p].at = "sleep"
        /\ proc[p].left = 0 /\ ~Gone(p) /\ "round" \in Places
    BY <1>2 DEF Wake, At, Gone, Places
  <2> QED BY <2>1, QuietSteps
<1>3. CASE DatabaseFails(p)
  <2> DEFINE c == [proc[p] EXCEPT !.at = "finally", !.turn = 1]
  <2>1. /\ proc' = [proc EXCEPT ![p] = c] /\ UNCHANGED <<row, signal, queued>>
        /\ proc[p].at \in {"once", "returned"} /\ ~Gone(p) /\ proc[p] \in ProcStates
        /\ TurnFits(p, proc[p])
    BY <1>3 DEF DatabaseFails, Gone, IInv, Fits, Rows
  <2>2. c.at = "finally" /\ c.turn = 1
    BY <2>1 DEF ProcStates
  <2> HIDE DEF c
  <2>3. TurnFits(p, c)
    BY <2>2, Loops DEF TurnFits
  <2>4. ASSUME NEW i \in DOMAIN Loop[p], NEW a \in Nat, Silent(p, proc[p], i, a)
        PROVE  Silent(p, c, i, a)
    <3>1. /\ Quiet(p, proc[p], i) \in Int /\ LongestSilence(p) \in Int
          /\ proc[p].at = "once" => Quiet(p, proc[p], i) - LongestWork <= LongestSilence(p)
          /\ proc[p].at = "returned" => Quiet(p, proc[p], i) <= LongestSilence(p)
      BY <2>1, QuietIsBounded, Rests
    <3>2. a <= LongestSilence(p)
      BY <2>1, <2>4, <3>1, Times DEF Silent
    <3> QED BY <2>2, <3>2 DEF Silent
  <2> QED BY <2>1, <2>2, <2>3, <2>4, NoBeat
<1>4. CASE Kill(p) \/ Crash(p)
  <2>1. /\ Goto(p, "killed") /\ UNCHANGED <<row, signal, queued>> /\ ~Gone(p)
        /\ "killed" \in Places
    BY <1>4 DEF Kill, Crash, Places
  <2> QED BY <2>1, QuietSteps
<1> QED BY <1>1, <1>2, <1>3, <1>4

LEMMA NextTurnRows ==
  ASSUME IInv, Rows, NEW p \in Processes, NextTurn(p)
  PROVE  Rows'
<1>1. proc[p].at = "turn" /\ ~Gone(p) /\ UNCHANGED <<row, signal, queued>>
  BY DEF NextTurn, At, Gone
<1>2. CASE ~signal[p].stop
  <2>1. Goto(p, "once") /\ "once" \in Places
    BY <1>2 DEF NextTurn, Places
  <2> QED BY <1>1, <2>1, QuietSteps
<1>3. CASE signal[p].stop
  <2> DEFINE place == IF proc[p].did THEN "round" ELSE "sleep"
             c == [proc[p] EXCEPT !.at = place, !.left = Poll, !.turn = 1, !.did = FALSE]
  <2>1. proc' = [proc EXCEPT ![p] = c]
    BY <1>3 DEF NextTurn
  <2>2. proc[p] \in ProcStates /\ place \in {"round", "sleep"}
    BY DEF IInv, Fits
  <2> HIDE DEF place
  <2>3. c.at = place /\ c.turn = 1
    BY <2>2 DEF ProcStates
  <2> HIDE DEF c
  <2>4. TurnFits(p, c)
    BY <2>3, Loops DEF TurnFits
  <2> QED BY <1>1, <1>3, <2>1, <2>2, <2>3, <2>4, NoBeat
<1> QED BY <1>2, <1>3

LEMMA RunOnceRows ==
  ASSUME IInv, Rows, NEW p \in Processes, RunOnce(p)
  PROVE  Rows'
<1> DEFINE state == IF signal[p].stop THEN "stopping" ELSE "idle"
           place == IF signal[p].stop THEN "returned" ELSE "claim"
<1>1. /\ proc[p].at = "once" /\ ~Gone(p) /\ UNCHANGED <<signal, queued>>
      /\ Beat(Runner(p), state) /\ Goto(p, place)
  BY DEF RunOnce, At, Gone
<1>2. state \in States /\ place \in Places /\ place \in {"returned", "claim"}
      /\ state /= "stopped" /\ (state = "stopping" <=> signal[p].stop)
      /\ (~signal[p].stop => place = "claim")
  BY DEF States, Places
<1> HIDE DEF state, place
<1>3. PICK c \in ProcStates :
        /\ proc' = [proc EXCEPT ![p] = c]
        /\ c.at = place /\ c.turn = proc[p].turn /\ c.left = proc[p].left
        /\ c.turn \in 1..Len(Loop[p])
        /\ proc[p] \in ProcStates /\ TurnFits(p, proc[p]) /\ c.left \in Nat
  BY <1>1, <1>2, Going
<1>4. TurnFits(p, c)
  BY <1>2, <1>3 DEF TurnFits
<1>5. ASSUME NEW i \in DOMAIN Loop[p], NEW a \in Nat, Silent(p, proc[p], i, a),
             i /= proc[p].turn, ~signal[p].stop
      PROVE  Silent(p, c, i, a)
  <2>1. Quiet(p, c, i) = Quiet(p, proc[p], i)
    BY <1>3, <1>5, SameQuiet
  <2> QED BY <1>1, <1>2, <1>3, <1>5, <2>1 DEF Silent
<1>6. /\ row' \in [Runners -> RowStates] /\ row'[Runner(p)].age = 0
      /\ row'[Runner(p)].state = state
      /\ \A r \in Runners : r /= Runner(p) => row'[r] = row[r]
  BY <1>1, <1>2, RunnerIsOne, BeatWrites
<1>7. queued' \in [Types -> 0..MaxQueued]
  BY <1>1 DEF Rows
<1> QED BY <1>1, <1>2, <1>3, <1>4, <1>5, <1>6, <1>7, OneBeat

\* The turn's unit begins.
LEMMA ClaimRows ==
  ASSUME IInv, Rows, NEW p \in Processes, Claim(p)
  PROVE  Rows'
<1> DEFINE r == Runner(p)
           t == TypeOf[r]
<1>1. /\ proc[p].at = "claim" /\ ~Gone(p) /\ UNCHANGED signal
      /\ r \in Runners /\ t \in Types /\ proc[p] \in ProcStates /\ TurnFits(p, proc[p])
  BY RunnerIsOne, LoopAssumption DEF Claim, At, Gone, IInv, Rows, Fits
<1>2. CASE queued[t] > 0
  <2> DEFINE c == [proc[p] EXCEPT !.at = "work", !.left = LongestWork]
  <2>1. /\ Beat(r, "processing") /\ queued' = [queued EXCEPT ![t] = @ - 1]
        /\ proc' = [proc EXCEPT ![p] = c]
    BY <1>2 DEF Claim
  <2>2. /\ c \in ProcStates /\ c.at = "work" /\ c.left = LongestWork
        /\ c.turn = proc[p].turn
    BY <1>1, Times DEF ProcStates, Places
  <2> HIDE DEF c
  <2>3. TurnFits(p, c)
    BY <1>1, <2>2 DEF TurnFits
  <2>4. ASSUME NEW i \in DOMAIN Loop[p], NEW a \in Nat, Silent(p, proc[p], i, a),
               i /= proc[p].turn
        PROVE  Silent(p, c, i, a)
    <3>1. Quiet(p, c, i) = Quiet(p, proc[p], i) /\ Quiet(p, c, i) \in Int
      BY <1>1, <2>2, <2>4, SameQuiet
    <3> QED BY <1>1, <2>2, <2>4, <3>1, Times DEF Silent
  <2>5. /\ row' \in [Runners -> RowStates] /\ row'[r].age = 0
        /\ row'[r].state = "processing"
        /\ \A q \in Runners : q /= r => row'[q] = row[q]
    BY <1>1, <2>1, BeatWrites DEF States
  <2>6. queued' \in [Types -> 0..MaxQueued]
    <3>1. queued \in [Types -> 0..MaxQueued] /\ MaxQueued \in Nat /\ queued[t] \in 0..MaxQueued
      BY <1>1, TimeAssumption DEF Rows
    <3>2. queued[t] - 1 \in 0..MaxQueued
      BY <1>2, <3>1
    <3> QED BY <2>1, <3>1, <3>2
  <2>7. c.left <= LongestWork
    BY <2>2, Times
  <2> QED BY <1>1, <2>1, <2>2, <2>3, <2>4, <2>5, <2>6, <2>7, OneBeat
<1>3. CASE ~(queued[t] > 0)
  <2>1. Beat(r, "idle") /\ Goto(p, "returned") /\ UNCHANGED queued
    BY <1>3 DEF Claim
  <2>2. PICK c \in ProcStates :
          /\ proc' = [proc EXCEPT ![p] = c]
          /\ c.at = "returned" /\ c.turn = proc[p].turn
          /\ c.turn \in 1..Len(Loop[p])
    BY <2>1, Going DEF Places
  <2>3. TurnFits(p, c)
    BY <2>2 DEF TurnFits
  <2>4. ASSUME NEW i \in DOMAIN Loop[p], NEW a \in Nat, Silent(p, proc[p], i, a),
               i /= proc[p].turn
        PROVE  Silent(p, c, i, a)
    <3>1. Quiet(p, c, i) = Quiet(p, proc[p], i) /\ Quiet(p, c, i) \in Int
      BY <1>1, <2>2, <2>4, SameQuiet
    <3> QED BY <1>1, <2>2, <2>4, <3>1, Times DEF Silent
  <2>5. /\ row' \in [Runners -> RowStates] /\ row'[r].age = 0 /\ row'[r].state = "idle"
        /\ \A q \in Runners : q /= r => row'[q] = row[q]
    BY <1>1, <2>1, BeatWrites DEF States
  <2>6. queued' \in [Types -> 0..MaxQueued]
    BY <2>1 DEF Rows
  <2> QED BY <1>1, <2>2, <2>3, <2>4, <2>5, <2>6, OneBeat
<1> QED BY <1>2, <1>3

LEMMA WorkEndsRows ==
  ASSUME IInv, Rows, NEW p \in Processes, EndWork(p) \/ Fail(p)
  PROVE  Rows'
<1> DEFINE r == Runner(p)
           done == [state |-> "idle", failures |-> 0, age |-> 0]
           f == Smaller(row[r].failures + 1, MaxFailures)
           failed == [[[row[r] EXCEPT !.state = "unhealthy"] EXCEPT !.age = 0]
                        EXCEPT !.failures = f]
           c == [proc[p] EXCEPT !.at = "returned", !.did = TRUE, !.left = 0]
           d == [proc[p] EXCEPT !.at = "returned", !.left = 0]
<1>1. /\ proc[p].at \in {"claim", "work"} /\ ~Gone(p) /\ UNCHANGED <<signal, queued>>
      /\ r \in Runners /\ proc[p] \in ProcStates /\ TurnFits(p, proc[p])
      /\ row \in [Runners -> RowStates]
  BY RunnerIsOne DEF EndWork, Fail, At, Gone, IInv, Rows, Fits
<1>2. PICK x \in {done, failed} : row' = [row EXCEPT ![r] = x]
  <2>1. CASE EndWork(p)
    BY <2>1 DEF EndWork
  <2>2. CASE Fail(p)
    <3>1. row' = [row EXCEPT ![r].state = "unhealthy", ![r].age = 0, ![r].failures = f]
      BY <2>2 DEF Fail
    <3> HIDE DEF f, r
    <3> QED BY <1>1, <3>1
  <2> QED BY <2>1, <2>2
<1>3. done \in RowStates /\ failed \in RowStates
      /\ done.age = 0 /\ failed.age = 0 /\ done.state = "idle" /\ failed.state = "unhealthy"
  <2>1. done \in RowStates
    BY TimeAssumption DEF RowStates, States
  <2>2. row[r].failures + 1 \in Nat /\ MaxFailures \in Nat \ {0}
    BY <1>1, TimeAssumption DEF RowStates
  <2>3. Smaller(row[r].failures + 1, MaxFailures) \in 0..MaxFailures
    BY <2>2 DEF Smaller
  <2>4. row[r] \in RowStates /\ "unhealthy" \in States /\ 0 \in 0..MaxAge
    BY <1>1, TimeAssumption DEF States
  <2>5. failed \in RowStates /\ failed.age = 0 /\ failed.state = "unhealthy"
    BY <2>3, <2>4 DEF RowStates
  <2> QED BY <2>1, <2>5
<1>4. x \in RowStates /\ x.age = 0 /\ x.state \in {"idle", "unhealthy"}
  BY <1>2, <1>3
<1> HIDE DEF done, failed
<1>5. /\ row' \in [Runners -> RowStates] /\ row'[r] = x
      /\ \A q \in Runners : q /= r => row'[q] = row[q]
  BY <1>1, <1>2, <1>4
<1>6. PICK e \in {c, d} : proc' = [proc EXCEPT ![p] = e]
  BY DEF EndWork, Fail
<1>7. e \in ProcStates /\ e.at = "returned" /\ e.turn = proc[p].turn
  <2>1. "returned" \in Places
    BY DEF Places
  <2>2. c \in ProcStates /\ c.at = "returned" /\ c.turn = proc[p].turn
    BY <1>1, <2>1 DEF ProcStates
  <2>3. d \in ProcStates /\ d.at = "returned" /\ d.turn = proc[p].turn
    BY <1>1, <2>1 DEF ProcStates
  <2> QED BY <1>6, <2>2, <2>3
<1> HIDE DEF c, d
<1>8. TurnFits(p, e)
  BY <1>1, <1>7 DEF TurnFits
<1>9. ASSUME NEW i \in DOMAIN Loop[p], NEW a \in Nat, Silent(p, proc[p], i, a),
             i /= proc[p].turn
      PROVE  Silent(p, e, i, a)
  <2>1. Quiet(p, e, i) = Quiet(p, proc[p], i) /\ Quiet(p, e, i) \in Int
    BY <1>1, <1>7, <1>9, SameQuiet
  <2>2. proc[p].left \in Nat
    BY <1>1 DEF ProcStates
  <2> QED BY <1>1, <1>7, <1>9, <2>1, <2>2, Times DEF Silent
<1>10. queued' \in [Types -> 0..MaxQueued]
  BY <1>1 DEF Rows
<1> QED BY <1>1, <1>4, <1>5, <1>6, <1>7, <1>8, <1>9, <1>10, OneBeat

LEMMA ReturnForeverRows ==
  ASSUME IInv, Rows, NEW p \in Processes, ReturnForever(p)
  PROVE  Rows'
<1>1. /\ proc[p].at = "returned" /\ p \in Forever /\ ~Gone(p) /\ UNCHANGED <<signal, queued>>
      /\ proc[p] \in ProcStates /\ TurnFits(p, proc[p])
      /\ Fits(p, proc[p], signal[p], late[p]) /\ queued' \in [Types -> 0..MaxQueued]
  <2>1. /\ proc[p].at = "returned" /\ p \in Forever /\ ~Gone(p)
        /\ UNCHANGED <<signal, queued>>
    BY DEF ReturnForever, At, Gone
  <2>2. Fits(p, proc[p], signal[p], late[p]) /\ TurnFits(p, proc[p])
    BY DEF IInv, Rows
  <2>3. queued' \in [Types -> 0..MaxQueued] /\ proc[p] \in ProcStates
    BY <2>1, <2>2 DEF Rows, Fits
  <2> QED BY <2>1, <2>2, <2>3
<1>2. /\ Len(Loop[p]) = 1 /\ proc[p].turn = 1 /\ DOMAIN Loop[p] = 1..1
      /\ LongestSleep(p) = Larger(Poll, MaxBackoff) /\ LongestSleep(p) \in Nat
  <2>1. Len(Loop[p]) = 1 /\ DOMAIN Loop[p] = 1..1
    BY <1>1, Loops
  <2>2. proc[p].turn = 1
    BY <1>1, <2>1 DEF TurnFits
  <2>3. LongestSleep(p) = Larger(Poll, MaxBackoff) /\ LongestSleep(p) \in Nat
    BY <1>1, Rests
  <2> QED BY <2>1, <2>2, <2>3
<1>3. CASE signal[p].stop
  <2>1. Goto(p, "finally") /\ UNCHANGED row /\ "finally" \in Places
    BY <1>3 DEF ReturnForever, Places
  <2> QED BY <1>1, <1>2, <1>3, <2>1, QuietSteps
<1>4. CASE ~signal[p].stop /\ proc[p].did
  <2> DEFINE c == [proc[p] EXCEPT !.at = "round", !.backoff = Poll, !.did = FALSE]
  <2>1. proc' = [proc EXCEPT ![p] = c] /\ UNCHANGED row
    BY <1>4 DEF ReturnForever
  <2>2. c \in ProcStates /\ c.at = "round" /\ c.turn = 1
    BY <1>1, <1>2, Times DEF ProcStates, Places
  <2> HIDE DEF c
  <2>3. TurnFits(p, c)
    BY <1>2, <2>2 DEF TurnFits
  <2>4. ASSUME NEW i \in DOMAIN Loop[p], NEW a \in Nat, Silent(p, proc[p], i, a)
        PROVE  Silent(p, c, i, a)
    <3>1. Quiet(p, c, i) - LongestWork = Quiet(p, proc[p], i) + LongestSleep(p)
          /\ Quiet(p, proc[p], i) \in Int
      BY <1>1, <1>2, <2>2, QuietRound
    <3>2. a <= Quiet(p, c, i) - LongestWork
      BY <1>1, <1>2, <2>4, <3>1 DEF Silent
    <3> QED BY <2>2, <3>2 DEF Silent
  <2> QED BY <1>1, <2>1, <2>2, <2>3, <2>4, NoBeat
<1>5. CASE ~signal[p].stop /\ ~proc[p].did
  <2> DEFINE b == BackOff(proc[p].backoff)
             c == [proc[p] EXCEPT !.at = "sleep", !.left = proc[p].backoff, !.backoff = b]
  <2>1. proc' = [proc EXCEPT ![p] = c] /\ Beat(Runner(p), "backing_off")
    BY <1>5 DEF ReturnForever
  <2>2. proc[p].backoff \in Nat /\ proc[p].backoff <= LongestSleep(p)
    BY <1>1, <1>2 DEF Fits, ProcStates
  <2>3. b \in Nat
    BY <2>2, BackOffIsBounded
  <2> HIDE DEF b
  <2>4. c \in ProcStates /\ c.at = "sleep" /\ c.turn = 1 /\ c.left = proc[p].backoff
    BY <1>1, <1>2, <2>2, <2>3 DEF ProcStates, Places
  <2> HIDE DEF c
  <2>5. TurnFits(p, c)
    BY <1>2, <2>4 DEF TurnFits
  <2>6. /\ row' \in [Runners -> RowStates] /\ row'[Runner(p)].age = 0
        /\ row'[Runner(p)].state = "backing_off"
        /\ \A r \in Runners : r /= Runner(p) => row'[r] = row[r]
    BY <2>1, RunnerIsOne, BeatWrites DEF States
  <2>7. \A i \in DOMAIN Loop[p] : i = proc[p].turn
    BY <1>2
  <2> QED BY <1>1, <2>1, <2>2, <2>4, <2>5, <2>6, <2>7, OneBeat
<1> QED BY <1>3, <1>4, <1>5

LEMMA ReturnAllRows ==
  ASSUME IInv, Rows, NEW p \in Processes, ReturnAll(p)
  PROVE  Rows'
<1> DEFINE n == Len(Loop[p])
           next  == [proc[p] EXCEPT !.at = "turn", !.turn = @ + 1]
           again == [proc[p] EXCEPT !.at = "round", !.turn = 1, !.did = FALSE]
           rest  == [proc[p] EXCEPT !.at = "sleep", !.left = Poll, !.turn = 1]
<1>1. /\ proc[p].at = "returned" /\ p \notin Forever /\ ~Gone(p)
      /\ UNCHANGED <<row, signal, queued>>
      /\ proc[p] \in ProcStates /\ TurnFits(p, proc[p])
      /\ n \in Nat /\ n >= 1 /\ LongestSleep(p) = Poll /\ Poll \in Nat /\ proc[p].turn \in 1..n
  BY Loops, Rests, Times DEF ReturnAll, At, Gone, IInv, Rows, Fits, TurnFits
<1>2. CASE proc[p].turn < n
  <2>1. proc' = [proc EXCEPT ![p] = next]
    BY <1>2 DEF ReturnAll
  <2>2. next \in ProcStates /\ next.at = "turn" /\ next.turn = proc[p].turn + 1
    <3>1. "turn" \in Places /\ proc[p].turn + 1 \in Int
      BY <1>1 DEF Places
    <3> QED BY <1>1, <3>1 DEF ProcStates
  <2> HIDE DEF next
  <2>3. TurnFits(p, next)
    BY <1>1, <1>2, <2>2 DEF TurnFits
  <2>4. ASSUME NEW i \in DOMAIN Loop[p], NEW a \in Nat, Silent(p, proc[p], i, a)
        PROVE  Silent(p, next, i, a)
    <3>1. Quiet(p, next, i) - LongestWork = Quiet(p, proc[p], i)
      BY <1>1, <2>2, QuietTurn
    <3>2. a <= Quiet(p, next, i) - LongestWork
      BY <1>1, <2>4, <3>1 DEF Silent
    <3> QED BY <2>2, <3>2 DEF Silent
  <2> QED BY <1>1, <2>1, <2>2, <2>3, <2>4, NoBeat
<1>3. CASE ~(proc[p].turn < n)
  <2>1. PICK c \in {again, rest} : proc' = [proc EXCEPT ![p] = c]
    BY <1>3 DEF ReturnAll
  <2>2. /\ c \in ProcStates /\ c.at \in {"round", "sleep"} /\ c.turn = 1
        /\ c.at = "sleep" => c.left = Poll
    <3>1. "round" \in Places /\ "sleep" \in Places /\ 1 \in Int /\ FALSE \in BOOLEAN
      BY DEF Places
    <3>2. again \in ProcStates /\ again.at = "round" /\ again.turn = 1
      BY <1>1, <3>1 DEF ProcStates
    <3>3. rest \in ProcStates /\ rest.at = "sleep" /\ rest.turn = 1 /\ rest.left = Poll
      BY <1>1, <3>1 DEF ProcStates
    <3> QED BY <2>1, <3>2, <3>3
  <2> HIDE DEF again, rest
  <2>3. TurnFits(p, c) /\ proc[p].turn = n
    BY <1>1, <1>3, <2>2 DEF TurnFits
  <2>4. ASSUME NEW i \in DOMAIN Loop[p], NEW a \in Nat, Silent(p, proc[p], i, a)
        PROVE  Silent(p, c, i, a)
    <3>1. Quiet(p, c, i) - LongestWork = Quiet(p, proc[p], i) + LongestSleep(p)
          /\ Quiet(p, proc[p], i) \in Int
      BY <1>1, <2>2, <2>3, QuietRound
    <3>2. a <= Quiet(p, proc[p], i)
      BY <1>1, <2>4 DEF Silent
    <3>3. a + Poll <= Quiet(p, c, i) - LongestWork /\ a <= Quiet(p, c, i) - LongestWork
      BY <1>1, <3>1, <3>2
    <3> QED BY <2>2, <3>3 DEF Silent
  <2> QED BY <1>1, <2>1, <2>2, <2>3, <2>4, NoBeat
<1> QED BY <1>2, <1>3

\* One row more of the process is stopped.
LEMMA StopRows ==
  ASSUME IInv, Rows, NEW p \in Processes, Stop(p)
  PROVE  Rows'
<1> DEFINE n == Len(Loop[p])
<1>1. /\ proc[p].at = "finally" /\ UNCHANGED <<signal, queued>> /\ Beat(Runner(p), "stopped")
      /\ proc[p] \in ProcStates /\ proc[p].turn \in 1..n /\ n \in Nat /\ DOMAIN Loop[p] = 1..n
  BY Loops DEF Stop, At, IInv, Fits, Rows, TurnFits
<1>2. PICK c \in ProcStates :
        /\ proc' = [proc EXCEPT ![p] = c]
        /\ \/ c.at = "finally" /\ c.turn = proc[p].turn + 1 /\ c.turn \in 1..n
           \/ c.at = "exit" /\ c.turn = proc[p].turn /\ c.turn = n
  <2>1. CASE proc[p].turn < n
    <3> DEFINE c == [proc[p] EXCEPT !.turn = proc[p].turn + 1]
    <3>1. proc' = [proc EXCEPT ![p] = c]
      BY <2>1 DEF Stop
    <3>2. proc[p].turn + 1 \in Int /\ proc[p].turn + 1 \in 1..n
      BY <1>1, <2>1
    <3>3. c \in ProcStates /\ c.at = "finally" /\ c.turn = proc[p].turn + 1
      BY <1>1, <3>2 DEF ProcStates
    <3> QED BY <3>1, <3>2, <3>3
  <2>2. CASE ~(proc[p].turn < n)
    <3>1. Goto(p, "exit") /\ "exit" \in Places /\ proc[p].turn = n
      BY <1>1, <2>2 DEF Stop, Places
    <3> QED BY <3>1, Going
  <2> QED BY <2>1, <2>2
<1>3. TurnFits(p, c)
  BY <1>1, <1>2 DEF TurnFits
<1>4. /\ row' \in [Runners -> RowStates] /\ row'[Runner(p)].age = 0
      /\ row'[Runner(p)].state = "stopped"
      /\ \A r \in Runners : r /= Runner(p) => row'[r] = row[r]
  BY <1>1, RunnerIsOne, BeatWrites DEF States
<1>5. ASSUME NEW i \in DOMAIN Loop[p]
      PROVE  RowFits(p, c, signal[p], i, row'[Loop[p][i]])
  <2>1. CASE Loop[p][i] = Runner(p)
    <3>1. 0 <= LongestSilence(p)
      BY Rests, Times
    <3> QED BY <1>2, <1>4, <2>1, <3>1 DEF RowFits, Silent
  <2>2. CASE Loop[p][i] /= Runner(p)
    <3>1. i \in 1..n /\ i /= proc[p].turn
      BY <1>1, <2>2 DEF Runner
    <3>2. row'[Loop[p][i]] = row[Loop[p][i]]
      BY <1>4, <2>2, Loops
    <3>3. RowFits(p, proc[p], signal[p], i, row[Loop[p][i]])
      BY DEF Rows
    <3>4. c.at = "exit" \/ i < c.turn => i < proc[p].turn
      BY <1>1, <1>2, <3>1
    <3>5. ~signal[p].stop => /\ row[Loop[p][i]].state /= "stopping"
                             /\ row[Loop[p][i]].age <= LongestSilence(p)
      BY <1>1, <3>3 DEF RowFits, Silent
    <3> QED BY <1>1, <1>2, <3>2, <3>3, <3>4, <3>5 DEF RowFits, Silent
  <2> QED BY <2>1, <2>2
<1>6. \A r \in Runners : (\A i \in DOMAIN Loop[p] : Loop[p][i] /= r) => row'[r] = row[r]
  BY <1>1, <1>4 DEF Runner
<1>7. signal' = [signal EXCEPT ![p] = signal[p]] /\ queued' \in [Types -> 0..MaxQueued]
  BY <1>1 DEF IInv, Rows
<1> QED BY <1>2, <1>3, <1>4, <1>5, <1>6, <1>7, RowsMove

\* All of them are, and the process has ended.
LEMMA ExitRows ==
  ASSUME IInv, Rows, NEW p \in Processes, Exit(p)
  PROVE  Rows'
<1>1. /\ proc[p].at = "exit" /\ Goto(p, "ended") /\ "ended" \in Places
      /\ UNCHANGED <<row, signal, queued>>
  BY DEF Exit, At, Places
<1>2. PICK c \in ProcStates :
        proc' = [proc EXCEPT ![p] = c] /\ c.at = "ended" /\ c.turn \in 1..Len(Loop[p])
  BY <1>1, Going
<1>3. TurnFits(p, c)
  BY <1>2 DEF TurnFits
<1>4. \A i \in DOMAIN Loop[p] : RowFits(p, c, signal[p], i, row'[Loop[p][i]])
  BY <1>1, <1>2 DEF Rows, RowFits
<1>5. /\ signal' = [signal EXCEPT ![p] = signal[p]] /\ row' \in [Runners -> RowStates]
      /\ queued' \in [Types -> 0..MaxQueued]
  BY <1>1 DEF IInv, Rows
<1> QED BY <1>1, <1>2, <1>3, <1>4, <1>5, RowsMove

LEMMA RequestStopRows ==
  ASSUME IInv, Rows, NEW p \in Processes, RequestStop(p)
  PROVE  Rows'
<1> DEFINE s == [signal[p] EXCEPT !.asked = TRUE, !.stop = TRUE]
<1>1. signal' = [signal EXCEPT ![p] = s] /\ UNCHANGED <<row, proc, queued>>
  BY DEF RequestStop
<1>2. s.stop
  BY DEF IInv, Fits
<1> HIDE DEF s
<1>3. proc' = [proc EXCEPT ![p] = proc[p]] /\ TurnFits(p, proc[p])
      /\ row' \in [Runners -> RowStates] /\ queued' \in [Types -> 0..MaxQueued]
  BY <1>1 DEF IInv, Rows
<1>4. \A i \in DOMAIN Loop[p] : RowFits(p, proc[p], s, i, row'[Loop[p][i]])
  BY <1>1, <1>2 DEF Rows, RowFits
<1> QED BY <1>1, <1>3, <1>4, RowsMove

LEMMA TickRows ==
  ASSUME IInv, Rows, Tick
  PROVE  Rows'
<1> DEFINE age(r) == IF row[r].state = "none" THEN 0 ELSE Smaller(row[r].age + 1, MaxAge)
           x(r) == [row[r] EXCEPT !.age = age(r)]
<1>1. ASSUME NEW r \in Runners
      PROVE  /\ row'[r] = x(r) /\ x(r) \in RowStates /\ x(r).state = row[r].state
             /\ row[r].age \in Nat /\ x(r).age \in Nat /\ x(r).age <= row[r].age + 1
  <2>1. row[r] \in RowStates /\ MaxAge \in Nat
    BY TimeAssumption DEF Rows
  <2>2. row[r].age \in 0..MaxAge
    BY <2>1 DEF RowStates
  <2>3. age(r) \in 0..MaxAge /\ age(r) <= row[r].age + 1
    BY <2>1, <2>2 DEF Smaller
  <2>4. row'[r] = x(r)
    BY DEF Tick
  <2> HIDE DEF age
  <2>5. x(r) \in RowStates /\ x(r).state = row[r].state /\ x(r).age = age(r)
    BY <2>1, <2>3 DEF RowStates
  <2> HIDE DEF x
  <2> QED BY <2>1, <2>2, <2>3, <2>4, <2>5
<1>2. row' = [r \in Runners |-> row'[r]] /\ UNCHANGED queued
  BY DEF Tick
<1>3. row' \in [Runners -> RowStates] /\ queued' \in [Types -> 0..MaxQueued]
  BY <1>1, <1>2 DEF Rows
<1> HIDE DEF x
<1>4. ASSUME NEW p \in Processes
      PROVE  /\ TurnFits(p, proc'[p])
             /\ \A i \in DOMAIN Loop[p] : RowFits(p, proc'[p], signal'[p], i, row'[Loop[p][i]])
  <2>1. /\ TurnFits(p, proc[p]) /\ proc[p] \in ProcStates
        /\ \A i \in DOMAIN Loop[p] :
             RowFits(p, proc[p], signal[p], i, row[Loop[p][i]]) /\ Loop[p][i] \in Runners
    BY Loops DEF Rows, IInv, Fits
  <2>2. CASE Gone(p)
    <3>1. proc'[p] = proc[p] /\ signal'[p] = signal[p]
      BY <2>2 DEF Tick
    <3>2. ASSUME NEW i \in DOMAIN Loop[p]
          PROVE  RowFits(p, proc[p], signal[p], i, row'[Loop[p][i]])
      BY <1>1, <2>1, <2>2 DEF RowFits, Gone
    <3> QED BY <2>1, <3>1, <3>2
  <2>3. CASE ~Gone(p)
    <3> DEFINE c == [proc[p] EXCEPT !.left = @ - 1]
    <3>1. proc'[p] = c /\ proc[p].at \in {"work", "sleep"} /\ proc[p].left > 0
      BY <2>3 DEF Tick, Waiting
    <3>2. c \in ProcStates /\ c.at = proc[p].at /\ c.turn = proc[p].turn
          /\ c.left = proc[p].left - 1 /\ proc[p].left \in Nat
      BY <2>1, <3>1 DEF ProcStates
    <3> HIDE DEF c
    <3>3. TurnFits(p, c)
      BY <2>1, <3>2 DEF TurnFits
    <3>4. signal'[p].stop = signal[p].stop
      <4>1. signal[p] \in [asked : BOOLEAN, since : Nat, stop : BOOLEAN]
        BY DEF IInv, Fits
      <4> DEFINE m == Smaller(signal[p].since + 1, Larger(Grace, LongestStop(p)) + 1)
      <4>2. signal'[p] = signal[p] \/ signal'[p] = [signal[p] EXCEPT !.since = m]
        BY DEF Tick
      <4> QED BY <4>1, <4>2
    <3>5. ASSUME NEW i \in DOMAIN Loop[p]
          PROVE  RowFits(p, c, signal'[p], i, row'[Loop[p][i]])
      <4> DEFINE r == Loop[p][i]
      <4>1. RowFits(p, proc[p], signal[p], i, row[r]) /\ r \in Runners
        BY <2>1
      <4>2. /\ row'[r].state = row[r].state /\ row[r].age \in Nat /\ row'[r].age \in Nat
            /\ row'[r].age <= row[r].age + 1
        BY <1>1, <4>1
      <4> HIDE DEF r
      <4>3. Quiet(p, c, i) = Quiet(p, proc[p], i) /\ Quiet(p, c, i) \in Int
        BY <2>1, <3>2, SameQuiet
      <4>4. ASSUME Silent(p, proc[p], i, row[r].age)
            PROVE  Silent(p, c, i, row'[r].age)
        BY <3>1, <3>2, <4>2, <4>3, <4>4, Times DEF Silent
      <4>5. RowFits(p, c, signal'[p], i, row'[r])
        BY <2>3, <3>1, <3>2, <3>4, <4>1, <4>2, <4>4 DEF RowFits, Gone
      <4> QED BY <4>5 DEF r
    <3> QED BY <3>1, <3>3, <3>5
  <2> QED BY <2>2, <2>3
<1> QED BY <1>3, <1>4 DEF Rows, TurnFits, RowFits, Silent, Quiet, Heard, LongestSleep, LongestSilence

-----------------------------------------------------------------------------
LEMMA RowsInit == Init => Rows
<1> SUFFICES ASSUME Init PROVE Rows
  OBVIOUS
<1>1. row \in [Runners -> RowStates] /\ queued \in [Types -> 0..MaxQueued]
  <2>1. [state |-> "none", failures |-> 0, age |-> 0] \in RowStates /\ 0 \in 0..MaxQueued
    BY TimeAssumption DEF RowStates, States
  <2> QED BY <2>1 DEF Init
<1>2. ASSUME NEW p \in Processes
      PROVE  proc[p].at \in {"register", "absent"} /\ proc[p].turn = 1
  BY DEF Init
<1>3. \A p \in Processes : TurnFits(p, proc[p])
  BY <1>2, Loops DEF TurnFits
<1>4. ASSUME NEW p \in Processes, NEW i \in DOMAIN Loop[p]
      PROVE  RowFits(p, proc[p], signal[p], i, row[Loop[p][i]])
  <2>1. row[Loop[p][i]] = [state |-> "none", failures |-> 0, age |-> 0]
    BY Loops DEF Init
  <2> QED BY <1>2, <2>1 DEF RowFits, Silent
<1> QED BY <1>1, <1>3, <1>4 DEF Rows

LEMMA RowsNext == IInv /\ Rows /\ [Next]_vars => Rows'
<1> SUFFICES ASSUME IInv, Rows, [Next]_vars PROVE Rows'
  OBVIOUS
<1>1. ASSUME NEW p \in Processes,
             Step(p) \/ DatabaseFails(p) \/ RequestStop(p) \/ Kill(p) \/ Crash(p)
      PROVE Rows'
  BY <1>1, RegisterRows, NextTurnRows, RunOnceRows, ClaimRows, WorkEndsRows,
     ReturnForeverRows, ReturnAllRows, StopRows, ExitRows, MovesKeepRows,
     RequestStopRows DEF Step
<1>2. CASE Tick
  BY <1>2, TickRows
<1>3. ASSUME UNCHANGED <<row, proc, signal>>, queued' \in [Types -> 0..MaxQueued]
      PROVE  Rows'
  BY <1>3 DEF Rows, TurnFits, RowFits, Silent, Quiet, Heard, LongestSleep, LongestSilence
<1>4. ASSUME NEW t \in Types, Capture(t) PROVE Rows'
  <2>1. queued \in [Types -> 0..MaxQueued] /\ queued[t] \in 0..MaxQueued /\ MaxQueued \in Nat
    BY TimeAssumption DEF Rows
  <2>2. queued[t] + 1 \in 0..MaxQueued
    BY <1>4, <2>1 DEF Capture
  <2>3. queued' \in [Types -> 0..MaxQueued] /\ UNCHANGED <<row, proc, signal>>
    BY <1>4, <2>1, <2>2 DEF Capture
  <2> QED BY <1>3, <2>3
<1>5. CASE UNCHANGED vars
  BY <1>3, <1>5 DEF vars, Rows
<1> QED BY <1>1, <1>2, <1>4, <1>5 DEF Next

LEMMA RowsInvariance == Spec => []Rows
BY RowsInit, RowsNext, Invariance, PTL DEF Spec

\* Every variable keeps its type; no row says stopped while its process is in its loop,
\* and none of a process that ended of itself says anything else, for loops over any
\* number of queues and whatever kills the others.
THEOREM TypesHold == Spec => []TypeOK
<1>1. IInv /\ Rows => TypeOK
  <2> SUFFICES ASSUME IInv, Rows PROVE TypeOK
    OBVIOUS
  <2>1. /\ row \in [Runners -> [state : States, failures : 0..MaxFailures,
                                age : 0..MaxAge]]
        /\ queued \in [Types -> 0..MaxQueued]
    BY DEF Rows, RowStates
  <2>2. ASSUME NEW p \in Processes
        PROVE  /\ proc[p] \in [at : Places, turn : Nat \ {0}, left : Nat, backoff : Nat,
                               did : BOOLEAN]
               /\ signal[p] \in [asked : BOOLEAN, since : Nat, stop : BOOLEAN]
               /\ late[p] \in Nat
    <3>1. proc[p] \in ProcStates /\ Fits(p, proc[p], signal[p], late[p])
      BY DEF IInv, Fits
    <3>2. proc[p].turn \in Nat \ {0}
      BY Loops DEF Rows, TurnFits
    <3> QED BY <3>1, <3>2 DEF Fits, ProcStates
  <2>3. /\ proc \in [Processes -> [at : Places, turn : Nat \ {0}, left : Nat, backoff : Nat,
                                   did : BOOLEAN]]
        /\ signal \in [Processes -> [asked : BOOLEAN, since : Nat, stop : BOOLEAN]]
        /\ late \in [Processes -> Nat]
    BY <2>2 DEF IInv
  <2>4. \A p \in Processes : \A i \in DOMAIN Loop[p] :
          /\ row[Loop[p][i]].state = "stopped" =>
               proc[p].at \in {"finally", "exit", "ended", "killed"}
          /\ proc[p].at \in {"exit", "ended"} => row[Loop[p][i]].state = "stopped"
    BY DEF Rows, RowFits
  <2> QED BY <2>1, <2>3, <2>4 DEF TypeOK
<1> QED BY <1>1, Invariance, RowsInvariance, PTL

\* A live process leaves none of its rows alone for longer than its unit, or those of
\* all its other runners and a sleep, for loops over any number of queues and any
\* times of polling, back-off and work.
THEOREM SilenceHolds == Spec => []SilenceIsBounded
<1>1. IInv /\ Rows => SilenceIsBounded
  <2> SUFFICES ASSUME IInv, Rows,
                      NEW p \in Processes, ~Gone(p), ~signal[p].stop,
                      NEW i \in DOMAIN Loop[p]
               PROVE  row[Loop[p][i]].age <= LongestSilence(p)
    BY DEF SilenceIsBounded
  <2> DEFINE a == row[Loop[p][i]].age
             l == proc[p].left
             q == Quiet(p, proc[p], i)
             m == LongestSilence(p)
  <2>1. /\ row[Loop[p][i]] \in RowStates /\ proc[p] \in ProcStates /\ TurnFits(p, proc[p])
        /\ RowFits(p, proc[p], signal[p], i, row[Loop[p][i]])
    BY Loops DEF Rows, IInv, Fits
  <2>2. Silent(p, proc[p], i, a)
    BY <2>1 DEF RowFits, Gone
  <2>3. /\ a \in Nat /\ l \in Nat /\ LongestWork \in Nat
        /\ m \in Int /\ LongestWork <= m
    BY <2>1, TimeAssumption, Rests DEF RowStates, ProcStates
  <2>4. /\ q \in Int
        /\ proc[p].at \notin {"work", "returned"} => q - LongestWork <= m
        /\ i /= proc[p].turn \/ proc[p].at = "returned" => q <= m
    BY <2>1, QuietIsBounded
  <2>5. proc[p].at \in {"register", "round", "turn", "once", "claim", "work", "returned",
                        "sleep", "finally", "exit"}
    BY <2>1 DEF ProcStates, Places, Gone
  <2>6. /\ proc[p].at = "register" => a = 0
        /\ proc[p].at \in {"round", "turn", "once", "claim"} => a <= q - LongestWork \/ a = 0
        /\ proc[p].at = "sleep" => a + l <= q - LongestWork
        /\ proc[p].at = "work" => IF i = proc[p].turn THEN a + l <= LongestWork ELSE a + l <= q
        /\ proc[p].at = "returned" => a <= q
        /\ proc[p].at \in {"finally", "exit"} => a <= m
    BY <2>2, <2>3 DEF Silent
  <2> HIDE DEF a, l, q, m
  <2>7. a <= m
    BY <2>3, <2>4, <2>5, <2>6
  <2> QED BY <2>7 DEF a, m
<1> QED BY <1>1, Invariance, RowsInvariance, PTL
=============================================================================
