--------------------------- MODULE MCAnalysisQueue ---------------------------
(***************************************************************************)
(* Instances of AnalysisQueue for TLC.                                     *)
(***************************************************************************)
EXTENDS AnalysisQueue, TLC

\* The requests of an instance.
Retrying   == {"retry"}
Curating   == {"rescore", "archive", "delete"}
Everything == {"rescore", "retry", "archive", "delete"}

Symmetric == Permutations(Workers) \cup Permutations(Clients)
=============================================================================
