------------------------ MODULE RegenerationLifecycle ------------------------
(***************************************************************************)
(* What the regeneration queue promises for the resolutions of one job,    *)
(* with no leases, attempts or workers: a resolution asks for a packet or  *)
(* not, and what is asked for is begun, delivered once and complete when   *)
(* it is linked to what was delivered.  One that is interrupted is queued  *)
(* again or failed, and one that is complete, failed or asked for nothing  *)
(* stays as it is until the job and everything of it is removed.           *)
(***************************************************************************)
EXTENDS Naturals, Sequences

VARIABLE requests  \* by resolution: the status its reader sees, how many of its
                   \* packets are ready, and what packet it is linked to: one of
                   \* these ("delivered") or none of them ("none")

Init == requests = <<>>

Ask(status) ==
  requests' = Append(requests, [status |-> status, delivered |-> 0, link |-> "none"])

Begin(i) ==
  /\ requests[i].status = "queued"
  /\ requests' = [requests EXCEPT ![i].status = "processing"]

Deliver(i) ==
  /\ requests[i].status = "processing"
  /\ requests[i].delivered = 0
  /\ requests' = [requests EXCEPT ![i].delivered = 1]

Complete(i) ==
  /\ requests[i].status = "processing"
  /\ requests[i].delivered = 1
  /\ requests' = [requests EXCEPT ![i] =
                    [status |-> "complete", delivered |-> 1, link |-> "delivered"]]

\* A failure settles one request, a recovery several in one transaction; either may
\* come after the delivery.
Underway == {i \in DOMAIN requests : requests[i].status = "processing"}

Interrupt ==
  \E rows \in SUBSET Underway : \E outcome \in [rows -> {"queued", "failed"}] :
    requests' = [i \in DOMAIN requests |->
                   IF i \in rows THEN [requests[i] EXCEPT !.status = outcome[i]]
                   ELSE requests[i]]

Remove == requests' = <<>>

Next ==
  \/ \E status \in {"not_required", "queued"} : Ask(status)
  \/ \E i \in DOMAIN requests : Begin(i) \/ Deliver(i) \/ Complete(i)
  \/ Interrupt
  \/ Remove

Spec == Init /\ [][Next]_requests
=============================================================================
