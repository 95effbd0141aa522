--------------------------- MODULE ProjectTailoring ---------------------------
(***************************************************************************)
(* The registry of approved project blocks, the one substitution that      *)
(* tailoring may make in a master CV, and what a reviewer may make of it.  *)
(* An order of blocks is what it keeps of a base order and what it adds;   *)
(* where a block stands in it is left out.  A block added that is also     *)
(* kept stands in the order twice.  Gains and scores are in thousandths.   *)
(***************************************************************************)
EXTENDS Integers, FiniteSets, CVFamilies

CONSTANTS
  Bank,     \* the blocks by number, in the order of their ids; a block has a
            \* project, a home and eligible families, caps, bridges, evidence
            \* and strength
  Base,     \* base_project_order
  Rules,    \* compatibility: family, removed, inserted, review
  NoBlock

Blocks == DOMAIN Bank

\* validate_project_block_registry, _validate_base_order, _validate_compatibility:
\* a registry that is not so is not loaded.
ASSUME RegistryAssumption ==
  /\ Blocks \subseteq Nat /\ NoBlock \notin Blocks
  /\ \A b \in Blocks : /\ Bank[b].home \in Bank[b].eligible
                       /\ Bank[b].eligible \subseteq Families
  /\ \A f \in Families : Base[f] \subseteq {b \in Blocks : Bank[b].home = f}
  /\ \A r \in Rules : /\ r.removed \in Blocks /\ Bank[r.removed].home = r.family
                      /\ r.inserted \in Blocks /\ r.family \in Bank[r.inserted].eligible

Project(b) == Bank[b].project

Unchanged(f) == [kept |-> Base[f], added |-> {}]
Swap(r)      == [kept |-> Base[r.family] \ {r.removed}, added |-> {r.inserted}]
Listed(order) == order.kept \cup order.added

AtMostOne(S) == \A a, b \in S : a = b

ProjectsAreDistinct(order) ==
  /\ order.kept \cap order.added = {}
  /\ \A a, b \in Listed(order) : Project(a) = Project(b) => a = b

\* The registry that is shipped; _validate_base_order and _validate_compatibility
\* do not ask for it.
ASSUME MastersAreDistinct == \A f \in Families : ProjectsAreDistinct(Unchanged(f))
ASSUME RulesKeepProjectsApart ==
  \A r \in Rules :
    r.removed \in Base[r.family] /\ r.inserted \notin Base[r.family] \ {r.removed} =>
      \A b \in Base[r.family] \ {r.removed} : Project(b) /= Project(r.inserted)

\* validate_replacement_pair.
ValidPair(f, removed, inserted) ==
  /\ f \in Families /\ removed \in Blocks /\ inserted \in Blocks
  /\ Bank[removed].home = f
  /\ f \in Bank[inserted].eligible
  /\ \E r \in Rules : r.family = f /\ r.removed = removed /\ r.inserted = inserted

\* validate_tailoring_decision, of an order for the base order of a family.
ValidOrder(f, order, removed, inserted) ==
  /\ f \in Families
  /\ Listed(order) /= Base[f] =>
       /\ AtMostOne(Base[f] \ Listed(order)) /\ AtMostOne(Listed(order) \ Base[f])
       /\ ValidPair(f, removed, inserted)
       /\ Listed(order) = (Base[f] \ {removed}) \cup {inserted}
  /\ Listed(order) \subseteq Blocks

-----------------------------------------------------------------------------
\* select_tailoring_decision.  A profile: the family, the classifier's decision,
\* whether it wants a review, and whether the family dominates by 0.25.  A
\* reading of the posting: the overlap with each block, the portfolio's scores
\* and its shortlist.

\* compatible_candidates.
Candidates(f) == {r \in Rules : r.family = f}

\* Mutant: a block may be inserted next to its own project, or to itself.
OptionsLoose(f) == {r \in Candidates(f) : r.removed \in Base[f]}

\* best_substitution, what it may choose from.
Options(f) ==
  {r \in Candidates(f) :
     /\ r.removed \in Base[f] /\ r.inserted \notin Base[f]
     /\ \A b \in Base[f] \ {r.removed} : Project(b) /= Project(r.inserted)}

\* The larger gain of the two scorings; both blocks of a rule are eligible, so
\* the portfolio has a score for each.
Gain(r, reading) ==
  LET overlap   == reading.overlap[r.inserted] - reading.overlap[r.removed]
      portfolio == reading.portfolio[r.inserted] - reading.portfolio[r.removed]
  IN IF overlap > portfolio THEN overlap ELSE portfolio

Beats(a, b, reading) ==
  \/ Gain(a, reading) > Gain(b, reading)
  \/ /\ Gain(a, reading) = Gain(b, reading)
     /\ \/ a.removed < b.removed
        \/ a.removed = b.removed /\ a.inserted < b.inserted

\* best_substitution.
IsBest(r, f, reading) ==
  r \in Options(f) /\ \A other \in Options(f) : ~Beats(other, r, reading)

\* The policy's minimum_replacement_gain and clear_match_tailoring_gain.
Threshold(profile) == IF profile.decision = "clear_match" THEN 200 ELSE 150

\* _reviewable_requirement_candidate.
Reviewable(f, reading) ==
  \E r \in Candidates(f) : r.inserted \in reading.shortlist /\ r.review

KeepMaster(profile, status, review) ==
  [status |-> status, review |-> review, family |-> profile.family,
   removed |-> NoBlock, inserted |-> NoBlock, order |-> Unchanged(profile.family)]

\* No substitution: a person is asked if the case is close or a rule could help.
NotConvinced(profile, reading) ==
  LET ask == profile.decision = "close_match" \/ Reviewable(profile.family, reading) IN
  KeepMaster(profile, IF ask THEN "review_required" ELSE "master_unchanged",
             ask \/ profile.review)

Tailored(profile, r) ==
  [status |-> "tailored", family |-> profile.family,
   review |-> profile.decision = "close_match" \/ r.review \/ profile.review,
   removed |-> r.removed, inserted |-> r.inserted, order |-> Swap(r)]

\* What becomes of the best substitution.
Judged(profile, reading, r) ==
  CASE profile.decision = "clear_match" /\ ~profile.dominant
         -> KeepMaster(profile, "master_unchanged", profile.review)
    [] ~(profile.decision = "clear_match" /\ ~profile.dominant)
         /\ Gain(r, reading) < Threshold(profile) -> NotConvinced(profile, reading)
    [] OTHER -> Tailored(profile, r)

\* The decision; it is one, unless two rules swap the same blocks.
Decisions(profile, reading) ==
  LET f == profile.family IN
  IF profile.decision = "low_confidence"
  THEN {KeepMaster(profile, "review_required", TRUE)}
  ELSE IF Options(f) = {} THEN {NotConvinced(profile, reading)}
  ELSE {Judged(profile, reading, r) : r \in {r \in Options(f) : IsBest(r, f, reading)}}

\* evaluate_tailoring, after a candidate that could not be used: the status
\* changes, the order stays.
Fallback(decision) == [decision EXCEPT !.status = "fallback_to_master"]

\* _tailoring_needs_review.
NeedsReview(decision) ==
  decision.review \/ decision.status \in {"review_required", "fallback_to_master",
                                          "tailoring_rejected"}

-----------------------------------------------------------------------------
\* What a reviewer decides, and what the worker that carries it out accepts.

Actions == {"approve_classification", "approve_tailoring", "approve_order", "defer",
            "mark_out_of_scope", "reject_tailoring", "use_master_unchanged",
            "override_family", "select_approved_replacement"}

Queued(family, order) == [family |-> family, order |-> order]
Nothing == [family |-> "none"]

\* Mutant: the order of a replacement is not looked at.
ReplacementsUnchecked(f) ==
  {Queued(f, Swap(r)) : r \in {r \in Candidates(f) : r.removed \in Base[f]}}

\* select_approved_replacement: an approved pair, and no block twice.
Replacements(f) ==
  {Queued(f, Swap(r)) :
     r \in {r \in Candidates(f) : /\ ValidPair(f, r.removed, r.inserted)
                                  /\ r.removed \in Base[f]
                                  /\ r.inserted \notin Base[f] \ {r.removed}}}

\* _validate_review_resolution of a classified job: what an action on a review can
\* queue for regeneration, or Nothing; the empty set: the request is refused.
\* original is the classified family, named the one in the payload, if any.  The
\* blocks of a resolution that queues nothing are only kept.
Resolutions(action, original, named) ==
  LET family == IF named = "none" THEN original ELSE named IN
  IF action = "override_family"
    THEN IF named \in Families THEN {Queued(named, Unchanged(named))} ELSE {}
  ELSE IF action = "mark_out_of_scope" THEN {Nothing}
  ELSE IF family \notin Families \cup {"out_of_scope"} THEN {}
  ELSE IF action = "use_master_unchanged"
    THEN IF family \in Families THEN {Queued(family, Unchanged(family))} ELSE {Nothing}
  ELSE IF action = "reject_tailoring"
    THEN IF original \in Families THEN {Queued(original, Unchanged(original))} ELSE {}
  ELSE IF action = "select_approved_replacement"
    THEN IF family \in Families THEN Replacements(family) ELSE {}
  ELSE {Nothing}

\* _validate_blocks of the regeneration worker: one block less and one more, at
\* most, and no project twice.
PickFrom(S) == IF S = {} THEN NoBlock ELSE CHOOSE b \in S : TRUE
ReviewedOrderIsValid(f, order) ==
  /\ ProjectsAreDistinct(order)
  /\ AtMostOne(Base[f] \ Listed(order)) /\ AtMostOne(Listed(order) \ Base[f])
  /\ ValidOrder(f, order, PickFrom(Base[f] \ Listed(order)),
                          PickFrom(Listed(order) \ Base[f]))
=============================================================================
