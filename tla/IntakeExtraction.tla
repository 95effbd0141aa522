--------------------------- MODULE IntakeExtraction ---------------------------
(***************************************************************************)
(* run_intake: what a captured page says, from the text that is taken for  *)
(* the job description and from the candidates found for its title (those  *)
(* for company and location are ranked the same way), and how good the     *)
(* extraction is.  A page is a record of what the text heuristics find:    *)
(*   visible, posting, element   lengths of the visible text, of the first *)
(*       JSON-LD description and of the first description element          *)
(*   kept    the share of the lines, in percent, that survive the trimming *)
(*   duties, skills   the text has a section of that kind                  *)
(*   company   a company was resolved                                      *)
(*   noise   boilerplate phrases per hundred lines                         *)
(*   titles  candidates: source, confidence, value, length of the value,   *)
(*       and whether a campaign suffix hangs on to the value               *)
(***************************************************************************)
EXTENDS Integers, FiniteSets, SequencesExt

Source == [json_ld_jobposting |-> 100, dom_title_candidate |-> 90, meta_tag |-> 75,
           heading |-> 65, page_title_pattern |-> 60, visible_text_label |-> 60,
           visible_text_heading |-> 50, url_pattern |-> 35, page_title |-> 0]
Confidence == [high |-> 3, medium |-> 2, low |-> 1]

\* select_jd_text: the first text that is long enough, else what is visible.
JdText(page) ==
  CASE page.posting >= 120 -> [from |-> "json_ld_description", length |-> page.posting]
    [] page.posting < 120 /\ page.element >= 180
         -> [from |-> "dom_description_candidate", length |-> page.element]
    [] OTHER -> [from |-> "visible_text", length |-> page.visible]

Raw(page)   == IF page.visible >= JdText(page).length THEN page.visible ELSE JdText(page).length
Clean(page) == (JdText(page).length * page.kept) \div 100

ExtractionMethod(page) ==
  IF page.kept < 100 /\ JdText(page).from = "visible_text"
  THEN "visible_text_section_heuristic" ELSE JdText(page).from

\* normalize_campaign_title_candidates, one candidate: two other sources have
\* to name the title without the suffix.
Support(titles, i) ==
  {titles[j].source : j \in {j \in DOMAIN titles :
     /\ titles[j].source /= titles[i].source
     /\ titles[j].value = titles[i].value /\ ~titles[j].campaign}}

\* The loop rewrites the list it reads: a candidate that lost its suffix
\* supports those after it.
WithoutCampaigns(titles) ==
  FoldLeft(LAMBDA seen, i : IF seen[i].campaign /\ Cardinality(Support(seen, i)) >= 2
                            THEN [seen EXCEPT ![i].campaign = FALSE] ELSE seen,
           titles, [i \in DOMAIN titles |-> i])

\* resolve_field: by source, confidence and length; the first of equals.
Ahead(a, b) ==
  \/ Source[a.source] > Source[b.source]
  \/ /\ Source[a.source] = Source[b.source]
     /\ \/ Confidence[a.confidence] > Confidence[b.confidence]
        \/ Confidence[a.confidence] = Confidence[b.confidence] /\ a.length > b.length

Chosen(titles) ==
  titles[CHOOSE i \in DOMAIN titles :
           \A j \in DOMAIN titles : ~Ahead(titles[j], titles[i])
                                    /\ (j < i => Ahead(titles[i], titles[j]))]

HasClues(page) == page.company /\ page.titles /= <<>>

\* Mutant: a page with hardly any noise earns its points before the length does.
QualityScoreNoisy(page) ==
  LET n == Clean(page) IN
  (CASE n >= 1200 -> 35 [] n \in 500..1199 -> 25 [] n \in 220..499 -> 12 [] OTHER -> 0)
  + (IF page.duties THEN 20 ELSE 0) + (IF page.skills THEN 20 ELSE 0)
  + (IF HasClues(page) THEN 15 ELSE 0)
  + (IF page.noise > 10 THEN 10 ELSE 0)

\* assess_quality, the points: from 0 to 100.
QualityScore(page) ==
  LET n == Clean(page)
      points == (CASE n >= 1200 -> 35 [] n \in 500..1199 -> 25 [] n \in 220..499 -> 12
                   [] OTHER -> 0)
                + (IF page.duties THEN 20 ELSE 0) + (IF page.skills THEN 20 ELSE 0)
                + (IF HasClues(page) THEN 15 ELSE 0)
                + (IF page.noise <= 10 THEN 10 ELSE IF page.noise > 30 THEN -10 ELSE 0)
  IN IF points < 0 THEN 0 ELSE points

\* assess_quality, the band.
Band(page) ==
  LET section == page.duties \/ page.skills IN
  CASE Raw(page) < 80 \/ Clean(page) < 80 \/ (Clean(page) < 220 /\ ~section) -> "failed"
    [] Clean(page) >= 80 /\ QualityScore(page) >= 75 /\ page.duties /\ page.skills -> "good"
    [] Clean(page) >= 80 /\ QualityScore(page) \in 55..100 /\ section
         /\ ~(QualityScore(page) >= 75 /\ page.duties /\ page.skills)
         -> "usable_with_warnings"
    [] OTHER -> "manual_review"

\* run_intake, and what intake_result_to_updates keeps of it.
RunIntake(page) ==
  [band |-> Band(page), score |-> QualityScore(page), method |-> ExtractionMethod(page),
   title |-> IF page.titles = <<>> THEN {} ELSE {Chosen(WithoutCampaigns(page.titles))}]

-----------------------------------------------------------------------------
\* The order in which pages and bands are better or worse.

Grade == [failed |-> 0, manual_review |-> 1, usable_with_warnings |-> 2, good |-> 3]

\* The same page with more of what an extraction looks for and less noise.
Richer(page, other) ==
  /\ page.visible = other.visible /\ page.posting = other.posting
  /\ page.element = other.element
  /\ other.kept >= page.kept /\ other.noise <= page.noise
  /\ page.duties => other.duties
  /\ page.skills => other.skills
  /\ HasClues(page) => HasClues(other)
=============================================================================
