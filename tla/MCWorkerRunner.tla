---------------------------- MODULE MCWorkerRunner ----------------------------
(***************************************************************************)
(* Instance of WorkerRunner for TLC: a process of either kind; run_all has *)
(* its three runners, one for each queue.                                  *)
(***************************************************************************)
EXTENDS WorkerRunner

OneOfEach == {{"single"}, {"all"}}
Loops == [p \in {"single", "all"} |->
            IF p = "single" THEN <<"a">> ELSE <<"b", "c", "d">>]
Serves == [a |-> "q1", b |-> "q1", c |-> "q2", d |-> "regeneration"]
=============================================================================
