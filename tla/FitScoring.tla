------------------------------ MODULE FitScoring ------------------------------
(***************************************************************************)
(* score_job and score_hybrid_job: how well a job fits the candidate, in   *)
(* points of 100, from the truth-bank blocks of the selected family, and   *)
(* how the assessment of a language model is blended in when one answers   *)
(* and what it says is valid.                                              *)
(***************************************************************************)
EXTENDS FamilyClassifier

CONSTANT RetryCount  \* LLMConfig.retry_count

ASSUME RetryAssumption == RetryCount \in Nat

Clamp(n) == Most(0, Least(100, n))

\* round(), of hundredths of a point.
Points(n) == Quotient(n, 100)

\* A mean of the values at some places, with a weight; it is rounded no further than
\* the weights are.
MeanOf(weight, seq, places) ==
  Quotient(weight * SumFunctionOnSet(seq, places), Most(1, Cardinality(places)))

Mean(seq) == MeanOf(1, seq, DOMAIN seq)

\* What is known of a job and of the blocks of the bank: where the content of a
\* block comes from is stated (90) or not (40).
BlockFacts == [matched : Nat, domain : BOOLEAN, evidence : {40, 90}, recency : Int,
               impressive : Int]

IsJob(job) ==
  /\ job.terms \in Nat /\ job.skills \in Nat
  /\ {job.senior, job.musts, job.domain, job.blocked} \subseteq BOOLEAN
  /\ job.blocks \in Seq(BlockFacts)

\* score_block: terms of the job, those the block matches, whether it shares a
\* domain and states where its content comes from; recency and impressiveness
\* are the bank's.
BlockScore(block, job) ==
  LET coverage == Quotient(100 * block.matched, Most(1, job.terms)) IN
  Clamp(Points(22 * Least(100, 35 + coverage) + 18 * coverage
               + 16 * (IF block.matched > 0 THEN 75 ELSE 35)
               + 14 * (IF block.domain THEN 90 ELSE 55)
               + 10 * block.evidence
               + 8 * (IF job.senior THEN 55 ELSE 75)
               + 6 * block.recency + 6 * block.impressive
               - 10 * (IF block.matched > 0 THEN 10 ELSE 30)))

BlockScores(job) == [i \in DOMAIN job.blocks |-> BlockScore(job.blocks[i], job)]

\* The places of the three highest values, of equal ones the first.
TopThree(seq) ==
  LET above(i) == {j \in DOMAIN seq : seq[j] > seq[i] \/ (seq[j] = seq[i] /\ j < i)}
  IN {i \in DOMAIN seq : Cardinality(above(i)) < 3}

\* overall_score, before the recommendation; role fit follows the family's confidence.
RoleFit == [high |-> 90, medium |-> 75, low |-> 60]

\* Mutant: the blocker is left to the recommendation.
OverallScoreUnpenalised(job, confidence) ==
  Clamp(Points(25 * RoleFit[confidence]
               + 25 * (IF job.musts THEN 100 ELSE 70)
               + MeanOf(20, BlockScores(job), TopThree(BlockScores(job)))
               + 10 * Least(100, 35 + 10 * job.skills)
               + 10 * (IF job.domain THEN 85 ELSE 60)
               + 10 * Mean([i \in DOMAIN job.blocks |-> job.blocks[i].evidence])))

OverallScore(job, confidence) ==
  Clamp(Points(25 * RoleFit[confidence]
               + 25 * (IF job.musts THEN 100 ELSE 70)
               + MeanOf(20, BlockScores(job), TopThree(BlockScores(job)))
               + 10 * Least(100, 35 + 10 * job.skills)
               + 10 * (IF job.domain THEN 85 ELSE 60)
               + 10 * Mean([i \in DOMAIN job.blocks |-> job.blocks[i].evidence])
               - (IF job.blocked THEN 3500 ELSE 0)))

\* The tail of overall_score, and recommendation_for.
Recommendation(score, blocked) ==
  CASE score >= 75 /\ blocked -> "Consider"
    [] score >= 85 /\ ~blocked -> "Strong apply"
    [] score \in 75..84 /\ ~blocked -> "Apply"
    [] score \in 65..74 -> "Consider"
    [] OTHER -> "Low priority"

-----------------------------------------------------------------------------
\* The assessment.

\* SemanticLLMClient.assess: the calls answer, time out, bring malformed JSON or fail
\* otherwise, in turn; only RetryCount + 1 of them are made, and the message of the
\* last one is what _semantic_failure_status reads.
Assess(client) ==
  LET made     == SubSeq(client.calls, 1, Least(RetryCount + 1, Len(client.calls)))
      answered == SelectSeq(made, LAMBDA call : call = "answer")
  IN CASE ~client.enabled -> "disabled"
       [] client.enabled /\ ~client.key -> "not_configured"
       [] client.enabled /\ client.key /\ answered /= <<>> -> "answer"
       [] OTHER -> CASE Last(made) = "timeout"   -> "timed_out"
                     [] Last(made) = "malformed" -> "response_invalid"
                     [] OTHER                    -> "request_failed"

\* What a model says of blocks, valid or not.
Verdicts == [match : Int, risk : Int]
IsAnswer(answer) == answer.blocks \in Seq(Verdicts)

\* validate_semantic_assessment: every block of the bank, on scales of 0 to 4.
ValidAssessment(answer, job) ==
  /\ answer.confidence \in {"low", "medium", "high"}
  /\ Len(answer.blocks) = Len(job.blocks)
  /\ \A i \in DOMAIN answer.blocks :
       answer.blocks[i].match \in 0..4 /\ answer.blocks[i].risk \in 0..4

\* _semantic_failure_status, and the status of a valid answer. Only of a block left out
\* does the message name no cause that the function knows.
SemanticStatus(client, job) ==
  LET answer  == client.answer
      covered == Len(answer.blocks) = Len(job.blocks)
  IN CASE Assess(client) /= "answer" -> Assess(client)
       [] Assess(client) = "answer" /\ ValidAssessment(answer, job) -> "live_success"
       [] OTHER -> IF answer.confidence \in {"low", "medium", "high"} /\ ~covered
                   THEN "fallback_used" ELSE "response_invalid"

\* Mutant: a model that is sure of itself beats rules that are sure too.
HybridFamilyEager(selection, answer) ==
  CASE answer.family = selection.family -> [selection EXCEPT !.secondary = @]
    [] answer.family /= selection.family /\ answer.confidence = "high" /\ answer.grounded
         -> [selection EXCEPT !.family = answer.family, !.confidence = "high"]
    [] OTHER -> [selection EXCEPT !.confidence = IF @ = "high" THEN "high" ELSE "low"]

\* hybrid_family_decision, and the selection that score_hybrid_job makes of it.
\* The family the answer names is not looked up among the four.
HybridFamily(selection, answer) ==
  CASE answer.family = selection.family -> selection
    [] answer.family /= selection.family /\ selection.confidence = "high" -> selection
    [] answer.family /= selection.family /\ selection.confidence /= "high"
         /\ answer.confidence = "high" /\ answer.grounded
         -> [selection EXCEPT !.family = answer.family, !.confidence = "high"]
    [] OTHER -> [selection EXCEPT !.confidence = "low"]

\* The blended score of a block: five scales make 100 points.
HybridBlock(score, assessed) ==
  Clamp(Points(55 * score + 35 * (25 * assessed.match)
               - 100 * Quotient(10 * assessed.risk, 4)))

HybridScore(score, blocks) == Clamp(Points(75 * score + MeanOf(25, blocks, DOMAIN blocks)))

\* score_hybrid_job: without a valid answer the rules alone decide.
ScoreJob(job, class, client) ==
  LET chosen == Selection(class)
      rules  == OverallScore(job, chosen.confidence)
      status == SemanticStatus(client, job)
      blocks == [i \in DOMAIN job.blocks |->
                   HybridBlock(BlockScores(job)[i], client.answer.blocks[i])]
      score  == IF status = "live_success" THEN HybridScore(rules, blocks) ELSE rules
  IN [selection |-> IF status = "live_success"
                    THEN HybridFamily(chosen, client.answer) ELSE chosen,
      rules |-> rules, score |-> score, status |-> status,
      recommendation |-> Recommendation(score, job.blocked)]
=============================================================================
