------------------------ MODULE MCReviewRegeneration ------------------------
(***************************************************************************)
(* Instances of ReviewRegeneration for TLC.                                *)
(***************************************************************************)
EXTENDS ReviewRegeneration, TLC

Symmetric == Permutations(Workers) \cup Permutations(Clients)
=============================================================================
