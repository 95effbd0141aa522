------------------------- MODULE MCPromotionScheduler -------------------------
(***************************************************************************)
(* Instances of PromotionScheduler for TLC: three jobs for the limits, two *)
(* for what must happen in the end, oldest first.                          *)
(***************************************************************************)
EXTENDS PromotionScheduler

ThreeJobs == 1..3
TwoJobs == 1..2
OldestFirst == [j \in Jobs |-> j]
LowAndHigh == {75, 90}
TwoHigh == <<90, 90, 75>>
BothHigh == <<90, 90>>

\* The threads differ in nothing; used for safety only.
AnyThread == Permutations(Threads)
=============================================================================
