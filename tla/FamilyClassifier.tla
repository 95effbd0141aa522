--------------------------- MODULE FamilyClassifier ---------------------------
(***************************************************************************)
(* classify_job_family: which of the four master CVs frames a job, decided *)
(* from the signals of the job text and, when a provider answers, from its *)
(* scores.  A score is a fraction of Unit; the code rounds to six decimals *)
(* and an instance to fewer, which makes the rounding errors larger.       *)
(***************************************************************************)
EXTENDS Integers, FiniteSets, SequencesExt, CVFamilies

CONSTANT Unit  \* the score 1.0, in steps of the rounding

ASSUME UnitAssumption == Unit \in Nat \ {0} /\ Unit % 100 = 0

\* No provider, or an answer that is not accepted.
Unavailable == [f \in Families |-> -1]

Percent(n) == n * (Unit \div 100)
Least(m, n) == IF m < n THEN m ELSE n
Most(m, n)  == IF m > n THEN m ELSE n

\* round(), of a quotient; of two nearest values, where round() takes the even one,
\* this is the larger.
Quotient(n, d) == (2 * n + d) \div (2 * d)

Total(values) == SumFunction(values)

\* The first family of an order among those with the highest score.
FirstBest(order, scores) ==
  order[CHOOSE i \in DOMAIN order :
          /\ \A j \in DOMAIN order : scores[order[j]] <= scores[order[i]]
          /\ \A j \in 1..(i - 1) : scores[order[j]] < scores[order[i]]]

\* normalize: shares of the total, the rounding drift given to the best.
Normalize(values) ==
  LET shares == [f \in Families |-> Quotient(values[f] * Unit, Total(values))]
      drift  == Unit - Total(shares)
  IN IF Total(values) = 0 THEN [f \in Families |-> Percent(25)]
     ELSE [shares EXCEPT ![FirstBest(FamilyIds, shares)] = @ + drift]

\* deterministic_family_scores: what the phrases found for a family add up to,
\* title: with one in the title, less what the phrases against it take away.
RawScore(signal) == Most(0, signal.weight - signal.against)
Deterministic(signals) == Normalize([f \in Families |-> RawScore(signals[f])])

\* semantic_family_scores, validate_semantic_scores: all four families, none
\* negative, or the classifier does without.
Semantic(answer) ==
  IF \E f \in Families : answer[f] < 0 THEN Unavailable ELSE Normalize(answer)

\* combine_scores, with the configured weights 0.6 and 0.4.
Combined(signals, answer) ==
  LET rules == Deterministic(signals)
      model == Semantic(answer)
  IN IF model = Unavailable THEN Normalize(rules)
     ELSE Normalize([f \in Families |-> 6 * rules[f] + 4 * model[f]])

Ranked(scores) ==
  LET best == FirstBest(Alphabetical, scores)
      rest == SelectSeq(Alphabetical, LAMBDA f : f /= best)
  IN <<best, FirstBest(rest, scores)>>

Margin(scores) == scores[Ranked(scores)[1]] - scores[Ranked(scores)[2]]

\* decide, with the thresholds of family_classifier.json.
Decide(scores) ==
  LET top == scores[Ranked(scores)[1]] IN
  CASE top <= Percent(40) -> "low_confidence"
    [] top > Percent(40) /\ top >= Percent(65) /\ Margin(scores) >= Percent(25) -> "clear_match"
    [] top > Percent(40) /\ Margin(scores) <= Percent(12) -> "close_match"
    [] OTHER -> "hybrid_match"

\* has_title_conflict: another family has a signal in the title.
TitleConflict(signals, family) == \E f \in Families \ {family} : signals[f].title

\* classify_job_family.
Classify(signals, answer) ==
  LET scores   == Combined(signals, answer)
      family   == Ranked(scores)[1]
      decided  == Decide(scores)
      decision == IF decided = "clear_match" /\ TitleConflict(signals, family)
                  THEN "hybrid_match" ELSE decided
  IN [family |-> family, scores |-> scores, decision |-> decision,
      review |-> decision \in {"low_confidence", "close_match"}]

\* selection_from_classification.
Selection(class) ==
  LET second == Ranked(class.scores)[2] IN
  [family     |-> class.family,
   secondary  |-> IF class.scores[second] >= Percent(15) THEN second ELSE "none",
   confidence |-> CASE class.decision = "clear_match" -> "high"
                    [] class.decision = "hybrid_match" -> "medium"
                    [] OTHER -> "low"]
=============================================================================
