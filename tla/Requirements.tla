----------------------------- MODULE Requirements -----------------------------
(***************************************************************************)
(* What a posting asks for, found by a table of aliases and, in the tool   *)
(* that tries a language model, completed by it; and how well the blocks   *)
(* of a portfolio cover it.  Importance, specificity and differentiation   *)
(* are in thousandths, and so are the scores, which the code rounds to     *)
(* four decimals.  A mention is a place where an alias is found:           *)
(*   key, section   the row of the table ("generic": teamwork and the      *)
(*                  like) and the section of the posting                   *)
(*   explicit       the words found are several, or in capitals            *)
(*   preferred      the section or its text says nice to have              *)
(*   quote          the words found                                        *)
(***************************************************************************)
EXTENDS Integers, FiniteSets, SequencesExt

Round(n, d) == (2 * n + d) \div (2 * d)
AtMost(n, m) == IF n < m THEN n ELSE m

\* SECTION_WEIGHTS, in percent.
SectionWeight == [title |-> 95, responsibilities |-> 90, must_have_requirements |-> 100,
                  nice_to_have_requirements |-> 72, skills |-> 68, technologies |-> 65,
                  domains |-> 62, keywords |-> 55, jd_text |-> 58]

Means(caps, specificity, differentiation) ==
  [caps |-> caps, specificity |-> specificity, differentiation |-> differentiation]

\* CAPABILITY_ALIASES without the words, in percent.
Alias == [
  npu            |-> Means({"npu", "ml_accelerator", "hardware_acceleration"}, 98, 95),
  ml_accelerator |-> Means({"ml_accelerator", "hardware_acceleration", "edge_ai"}, 94, 90),
  quantization   |-> Means({"quantization", "model_optimization", "edge_ai"}, 88, 78),
  edge_ai        |-> Means({"edge_ai", "on_device_inference", "deployment"}, 84, 76),
  on_device_inference |->
    Means({"on_device_inference", "deployment", "performance_optimization"}, 82, 72),
  hardware_aware_optimization |->
    Means({"hardware_acceleration", "hardware_aware_optimization",
           "performance_optimization"}, 82, 76),
  machine_learning |-> Means({"machine_learning", "model_training"}, 62, 48),
  pytorch          |-> Means({"pytorch", "machine_learning"}, 70, 48),
  compiler_runtime |-> Means({"compiler_runtime", "software_engineering"}, 82, 70),
  rtl              |-> Means({"rtl", "digital_design", "computer_architecture"}, 90, 82),
  verification     |-> Means({"verification", "uvm"}, 86, 74),
  python           |-> Means({"python", "software_engineering"}, 42, 30),
  cpp              |-> Means({"cpp", "software_engineering"}, 48, 34)]

ApprovedCapabilities ==
  {"general_collaboration", "embedded_systems", "digital_ic"}
    \cup UNION {Alias[key].caps : key \in DOMAIN Alias}

MentionShape == [key : DOMAIN Alias \cup {"generic"}, section : DOMAIN SectionWeight,
                 explicit : BOOLEAN, preferred : BOOLEAN, quote : STRING]

\* The importance of what a mention asks for: at most 1.
Importance(m) ==
  LET a == Alias[m.key]
      p == SectionWeight[m.section] * (IF m.explicit THEN 100 ELSE 86)
             * (a.specificity * a.differentiation)
  IN AtMost(1000, Round(IF m.preferred THEN p ELSE p + (8 * p) \div 100, 100000))

Required(m, number) ==
  [id |-> <<"req", number>>, key |-> m.key, section |-> m.section,
   quotes |-> {m.quote}, sources |-> {"deterministic"}, semanticOnly |-> FALSE,
   caps |-> IF m.key = "generic" THEN {"general_collaboration"} ELSE Alias[m.key].caps,
   importance |-> IF m.key = "generic" THEN Round(SectionWeight[m.section] * 18, 10)
                  ELSE Importance(m),
   specificity |-> IF m.key = "generic" THEN 180 ELSE 10 * Alias[m.key].specificity,
   differentiation |-> IF m.key = "generic" THEN 120 ELSE 10 * Alias[m.key].differentiation]

\* One mention of extract_requirements: the first of a key in a section takes a
\* number, unless it is a generic one, and gives way to a more important one.
Noted(notes, m) ==
  LET new  == Required(m, notes.next)
      same == {i \in DOMAIN notes.found : notes.found[i].key = m.key
                                          /\ notes.found[i].section = m.section}
  IN IF same = {}
     THEN [found |-> Append(notes.found, new),
           next  |-> IF m.key = "generic" THEN notes.next ELSE notes.next + 1]
     ELSE [notes EXCEPT !.found = [i \in DOMAIN @ |->
             IF i \in same /\ m.key /= "generic" /\ new.importance > @[i].importance
             THEN new ELSE @[i]]]

MoreImportant(a, b) ==
  \/ a.importance > b.importance
  \/ /\ a.importance = b.importance
     /\ \/ a.id[1] = "req" /\ b.id[1] = "sem"
        \/ a.id[1] = b.id[1] /\ a.id[2] < b.id[2]

\* One more in a list that is sorted, behind those that it does not come before.
Inserted(sorted, r) ==
  InsertAt(sorted, 1 + Cardinality({i \in DOMAIN sorted : ~MoreImportant(r, sorted[i])}), r)
Sorted(seq) == FoldLeft(Inserted, <<>>, seq)

RulesFind(mentions) == Sorted(FoldLeft(Noted, [found |-> <<>>, next |-> 1], mentions).found)

-----------------------------------------------------------------------------
\* The language model.  An item of its answer: the quote it rests on, whether
\* the posting contains it, denies it or only advertises with it, and whether
\* the requirement has a text.

ItemShape == [caps : SUBSET STRING, quote : STRING, grounded : BOOLEAN, negated : BOOLEAN,
              importance : Int, specificity : Int, worded : BOOLEAN, idle : BOOLEAN]

Fraction(n) == n \in 0..1000

\* _semantic_rejection_reason.
Rejection(item) ==
  IF ~item.grounded THEN "ungrounded_evidence"
  ELSE IF item.negated THEN "negated_evidence"
  ELSE IF item.caps = {} THEN "missing_capabilities"
  ELSE IF ~(item.caps \subseteq ApprovedCapabilities) THEN "invalid_capability"
  ELSE IF ~Fraction(item.importance) THEN "invalid_importance"
  ELSE IF ~Fraction(item.specificity) THEN "invalid_specificity"
  ELSE IF ~item.worded THEN "missing_requirement_text"
  ELSE IF item.idle THEN "generic_marketing" ELSE "none"

\* validate_semantic_requirement_response.
Accepted(items) ==
  FoldLeft(LAMBDA kept, i :
             IF Rejection(items[i]) /= "none" THEN kept
             ELSE Append(kept,
               [id |-> <<"sem", i>>, key |-> "semantic", section |-> "semantic",
                quotes |-> {}, quote |-> items[i].quote, sources |-> {"semantic"},
                semanticOnly |-> TRUE, caps |-> items[i].caps,
                importance |-> items[i].importance, specificity |-> items[i].specificity,
                differentiation |-> Round(items[i].specificity * 75, 100)]),
           <<>>, [i \in DOMAIN items |-> i])

\* extract_semantic_requirements: the provider is asked only if it is enabled.
\* response.comes is "answer", "timeout" or "malformed".
SemanticOutcome(enabled, provider, response) ==
  LET accepted == Accepted(response.items) IN
  CASE ~enabled -> [status |-> "disabled", accepted |-> <<>>]
    [] enabled /\ ~provider -> [status |-> "not_configured", accepted |-> <<>>]
    [] enabled /\ provider /\ response.comes = "timeout"
         -> [status |-> "timed_out", accepted |-> <<>>]
    [] enabled /\ provider /\ response.comes = "malformed"
         -> [status |-> "response_invalid", accepted |-> <<>>]
    [] OTHER -> [status |-> IF accepted = <<>> THEN "grounding_rejected"
                            ELSE "live_success", accepted |-> accepted]

\* _matching_requirement, its candidates: capabilities in common, and the same
\* quote or the same capabilities.
Matches(fused, sem) ==
  {i \in DOMAIN fused : /\ fused[i].caps \cap sem.caps /= {}
                        /\ sem.quote \in fused[i].quotes \/ fused[i].caps = sem.caps}

\* What an item of the model supports is no longer semantic_only, though it may be
\* the model's own.
Supported(r, quote) ==
  [r EXCEPT !.sources = @ \cup {"semantic"}, !.quotes = @ \cup {quote},
            !.semanticOnly = FALSE]

\* Mutant: a match takes the model's word for its importance.
MergedEager(fused, sem) ==
  IF sem.importance < 620 \/ sem.specificity < 600 THEN fused
  ELSE IF Matches(fused, sem) = {} THEN Append(fused, sem)
  ELSE LET first == CHOOSE i \in Matches(fused, sem) : \A j \in Matches(fused, sem) : i <= j
       IN [fused EXCEPT ![first] =
             [Supported(@, sem.quote) EXCEPT !.importance = sem.importance]]

\* fuse_requirements, one item: a weak one is left out, one that matches
\* supports what it matches, any other is added.
Merged(fused, sem) ==
  IF sem.importance < 620 \/ sem.specificity < 600 THEN fused
  ELSE IF Matches(fused, sem) = {} THEN Append(fused, sem)
  ELSE LET first == CHOOSE i \in Matches(fused, sem) : \A j \in Matches(fused, sem) : i <= j
       IN [fused EXCEPT ![first] = Supported(@, sem.quote)]

Fused(rules, accepted) == Sorted(FoldLeft(Merged, rules, accepted))

\* extract_requirements.
Extract(mentions, enabled, provider, response) ==
  LET rules    == RulesFind(mentions)
      semantic == SemanticOutcome(enabled, provider, response)
  IN [rules |-> rules, status |-> semantic.status,
      requirements |-> Fused(rules, semantic.accepted)]

-----------------------------------------------------------------------------
\* The portfolio.  block.caps: the strength of a block in a capability, in
\* percent; block.bridges: the pairs of domains it joins.

SumOver(requirements, Value(_)) ==
  FoldLeft(LAMBDA sum, r : sum + Value(r), 0, requirements)

\* _role_dimensions_from_dicts, one of them.
Dimension(requirements, cap) ==
  AtMost(1000, SumOver(requirements, LAMBDA r : IF cap \in r.caps THEN r.importance ELSE 0))

\* _saturate, and _bridge_bonus.
Saturate(v) == Round(1000 * v, 1000 + v)
BridgeBonus(block, requirements) ==
  LET joined == {AtMost(Dimension(requirements, pair[1]), Dimension(requirements, pair[2])) :
                   pair \in block.bridges} \cup {0}
      most   == CHOOSE n \in joined : \A m \in joined : m <= n
  IN AtMost(350, Round(most * block.strength, 100))

Strength(block, r) ==
  LET strengths == {block.caps[cap] : cap \in r.caps \cap DOMAIN block.caps} \cup {0}
  IN CHOOSE n \in strengths : \A m \in strengths : m <= n
Coverage(block, r) == (Strength(block, r) * r.importance) \div 100

\* score_project of a block that is eligible: its mismatch penalty is never due.
ProjectScore(block, family, requirements) ==
  LET cover == SumOver(requirements, LAMBDA r : Coverage(block, r))
      depth == SumOver(requirements, LAMBDA r : (Coverage(block, r) * r.specificity) \div 1000)
      edge  == SumOver(requirements, LAMBDA r : (Coverage(block, r) * r.differentiation) \div 1000)
  IN AtMost(1000, Round(35 * Saturate(cover) + 20 * Saturate(depth) + 10 * Saturate(edge)
                        + 10 * BridgeBonus(block, requirements)
                        + 5 * AtMost(1000, 250 * block.evidence)
                        + 5 * (IF block.home = family THEN 1000 ELSE 450), 100))

Distinctive(block, requirements) ==
  \E i \in DOMAIN requirements : /\ requirements[i].caps \cap DOMAIN block.caps /= {}
                                 /\ requirements[i].specificity >= 820
                                 /\ requirements[i].importance >= 550

\* score_project_portfolio.
Portfolio(bank, family, requirements) ==
  LET eligible == {b \in DOMAIN bank : family \in bank[b].eligible}
      scores   == [b \in eligible |-> ProjectScore(bank[b], family, requirements)]
  IN [scores    |-> scores,
      shortlist |-> {b \in eligible : Distinctive(bank[b], requirements) \/ scores[b] >= 200}]
=============================================================================
