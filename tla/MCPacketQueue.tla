---------------------------- MODULE MCPacketQueue ----------------------------
(***************************************************************************)
(* Instances of PacketQueue for TLC.                                       *)
(***************************************************************************)
EXTENDS PacketQueue, TLC

\* The requests of an instance.
Contending == {"promote", "retry", "recover", "rescore", "delete", "archive", "priority"}
Delivering == {"promote", "retry", "recover", "delete"}

Symmetric == Permutations(Workers) \cup Permutations(Clients) \cup Permutations(Jobs)
=============================================================================
