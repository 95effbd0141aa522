--------------------------- MODULE PacketLifecycle ---------------------------
(***************************************************************************)
(* What Queue 2 promises for one job, with no tasks, leases or workers: a  *)
(* packet request is queued, generated and delivered once.  A request that *)
(* was interrupted is queued again or failed, a failed one is queued again *)
(* on demand, and a delivered packet is there to stay until the job and    *)
(* everything of it is removed.                                            *)
(***************************************************************************)
EXTENDS Naturals

CONSTANT Jobs

VARIABLES
  status,     \* what a reader of the job sees
  delivered   \* how many packets of the job are ready

vars == <<status, delivered>>

Init ==
  /\ status = [j \in Jobs |-> "not_requested"]
  /\ delivered = [j \in Jobs |-> 0]

Move(j, from, to) ==
  /\ status[j] \in from
  /\ status' = [status EXCEPT ![j] = to]

Request(j) == Move(j, {"not_requested"}, "queued") /\ UNCHANGED delivered
Begin(j)   == Move(j, {"queued"}, "generating") /\ UNCHANGED delivered
Fail(j)    == Move(j, {"queued", "generating"}, "failed") /\ UNCHANGED delivered
Retry(j)   == Move(j, {"generating", "failed"}, "queued") /\ UNCHANGED delivered

Deliver(j) ==
  /\ Move(j, {"generating"}, "ready")
  /\ delivered' = [delivered EXCEPT ![j] = 1]

Remove(j) ==
  /\ status' = [status EXCEPT ![j] = "not_requested"]
  /\ delivered' = [delivered EXCEPT ![j] = 0]

\* One recovery settles several interrupted requests in one transaction.
Recover ==
  /\ \E stale \in SUBSET {j \in Jobs : status[j] \in {"queued", "generating"}} :
       \E outcome \in [stale -> {"queued", "failed"}] :
         status' = [j \in Jobs |-> IF j \in stale THEN outcome[j] ELSE status[j]]
  /\ UNCHANGED delivered

Next ==
  \/ \E j \in Jobs :
       Request(j) \/ Begin(j) \/ Deliver(j) \/ Fail(j) \/ Retry(j) \/ Remove(j)
  \/ Recover

Spec == Init /\ [][Next]_vars
=============================================================================
