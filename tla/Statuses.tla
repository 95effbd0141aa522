------------------------------ MODULE Statuses ------------------------------
(***************************************************************************)
(* The two status vocabularies of a job (statuses.py) and the transition   *)
(* tables the repository validates its writes against.                     *)
(***************************************************************************)

IntakeStatuses ==
  {"raw_added", "queued", "extracting", "structuring", "scoring", "scored",
   "duplicate", "failed", "manual_review"}

PacketStatuses ==
  {"not_requested", "queued", "generating", "rewriting", "truth_checking",
   "rendering", "fitting", "ready", "failed", "manual_review",
   "skipped_low_score"}

INTAKE_TRANSITIONS ==
  {<<"queued", "extracting">>, <<"queued", "scoring">>,
   <<"extracting", "structuring">>, <<"extracting", "manual_review">>,
   <<"extracting", "failed">>, <<"structuring", "scored">>,
   <<"structuring", "scoring">>, <<"structuring", "manual_review">>,
   <<"structuring", "failed">>, <<"extracting", "scoring">>,
   <<"scoring", "scored">>, <<"scoring", "failed">>,
   <<"scored", "scoring">>, <<"failed", "queued">>,
   <<"manual_review", "queued">>}

PACKET_TRANSITIONS ==
  {<<"not_requested", "queued">>, <<"queued", "generating">>,
   <<"generating", "ready">>, <<"failed", "queued">>,
   <<"manual_review", "queued">>}

\* Mutant: writing the status a job already has is allowed.
ValidPacketTransitionLenient(from, to) == from = to \/ <<from, to>> \in PACKET_TRANSITIONS

\* validate_intake_transition and validate_packet_transition raise
\* InvalidTransitionError, a ValueError, exactly when these are FALSE.
ValidIntakeTransition(from, to) == <<from, to>> \in INTAKE_TRANSITIONS
ValidPacketTransition(from, to) == <<from, to>> \in PACKET_TRANSITIONS

\* The states retry_job accepts.
Retryable == {"failed", "manual_review"}
=============================================================================
