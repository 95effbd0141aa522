----------------------------- MODULE JobDecisions -----------------------------
(***************************************************************************)
(* The decisions about one job, from its page to the files of its packets: *)
(* Queue 1 extracts, classifies and scores it, Queue 2 tailors a master CV *)
(* to it, users resolve its reviews, and the regeneration worker carries   *)
(* out what they decided.  Queue 2 and the regeneration worker prepare the *)
(* files of a packet in the same steps, each in its own directory, and a   *)
(* job may be scored again at any time.  How the rows of the queues change *)
(* meanwhile is the matter of the queue modules.                           *)
(***************************************************************************)
EXTENDS IntakeExtraction, FitScoring, Requirements, ProjectTailoring

CONSTANTS
  Pages,      \* pages that are captured
  Signals,    \* what their text says of the families
  Answers,    \* what the classifier's provider answers
  Facts,      \* what their text says for the score
  Clients,    \* how the scoring model behaves
  Mentions,   \* what their text asks for
  Responses,  \* what the requirements model answers
  Readings    \* overlaps of a posting with the blocks

\* What is measured of a page.
ASSUME PagesAssumption ==
  \A page \in Pages : /\ {page.visible, page.posting, page.element, page.noise} \subseteq Nat
                      /\ page.kept \in 0..100

\* What is known of a posting for its score, what the scoring model says of it, what
\* it asks for and what the requirements model adds.
ASSUME InputsAssumption ==
  /\ \A facts \in Facts : IsJob(facts)
  /\ \A client \in Clients : IsAnswer(client.answer)
  /\ \A mentions \in Mentions : mentions \in Seq(MentionShape)
  /\ \A response \in Responses : response.items \in Seq(ItemShape)

VARIABLES
  desk,       \* the first analysis of the job, and what its last stage computed
  standing,    \* the classification and the selected family the job has
  reviews,    \* the latest review of each type; that of a classification refers
              \* to the family it was opened for
  resolution, \* what a user has queued for regeneration
  work,       \* where Queue 2 and the regeneration worker are, and the files
  delivered   \* the ready packet of either, and the files as they were left

vars == <<desk, standing, reviews, resolution, work, delivered>>

Threads == {"queue2", "regeneration"}

Free      == [at |-> "free"]
Idle      == [at |-> "idle"]
NoPacket  == [at |-> "none"]
NoProfile == [family |-> "none"]
NoReview  == [status |-> "none", family |-> "none"]

\* A packet in the making: the decision it rests on, whether that passes its
\* validation, and the two files, which are not there yet.
Packet(decision, valid) ==
  [at |-> "copy", decision |-> decision, valid |-> valid, tex |-> "none", pdf |-> "none"]

\* The packet at its next step, with its files as they are then.
Moved(packet, at, tex, pdf) ==
  [at |-> at, decision |-> packet.decision, valid |-> packet.valid, tex |-> tex, pdf |-> pdf]

Init ==
  /\ desk = Free
  /\ standing = NoProfile
  /\ reviews = [type \in {"classification", "tailoring"} |-> NoReview]
  /\ resolution = Nothing
  /\ work = [t \in Threads |-> Idle]
  /\ delivered = [t \in Threads |-> NoPacket]

-----------------------------------------------------------------------------
\* Queue 1.  The first analysis stage by stage, later ones in one step.

\* _extract.
ExtractPage(page) ==
  /\ desk = Free /\ standing = NoProfile
  /\ desk' = [at |-> "extracted", page |-> page, result |-> RunIntake(page)]
  /\ UNCHANGED <<standing, reviews, resolution, work, delivered>>

\* An extraction that is not usable ends the analysis.
SetAside ==
  /\ desk.at = "extracted" /\ desk.result.band \in {"failed", "manual_review"}
  /\ desk' = Free
  /\ UNCHANGED <<standing, reviews, resolution, work, delivered>>

\* _score, classify_job_family.
ClassifyJob(signals, answer) ==
  /\ desk.at = "extracted" /\ desk.result.band \in {"good", "usable_with_warnings"}
  /\ desk' = [at |-> "classified", class |-> Classify(signals, answer)]
  /\ UNCHANGED <<standing, reviews, resolution, work, delivered>>

\* _score, score_hybrid_job.
ScoreFacts(facts, client) ==
  /\ desk.at = "classified"
  /\ desk' = [at |-> "scored", class |-> desk.class, facts |-> facts,
              outcome |-> ScoreJob(facts, desk.class, client)]
  /\ UNCHANGED <<standing, reviews, resolution, work, delivered>>

\* The job's classification, and the family its score selects.
ProfileOf(class, outcome) ==
  [classified |-> class.family, family |-> outcome.selection.family,
   decision |-> class.decision, review |-> class.review,
   dominant |-> Margin(class.scores) >= Percent(25)]

\* _ensure_pending_review.
Ensured(type, family) ==
  IF reviews[type].status = "pending" THEN reviews
  ELSE [reviews EXCEPT ![type] = [status |-> "pending", family |-> family]]

\* save_scoring_result: _classification_needs_review opens a review.
Save(new) ==
  /\ standing' = new
  /\ reviews' = IF new.review \/ new.decision \in {"close_match", "hybrid_match", "low_confidence"}
                THEN Ensured("classification", new.classified) ELSE reviews
  /\ UNCHANGED <<resolution, work, delivered>>

SaveScore ==
  /\ desk.at = "scored"
  /\ Save(ProfileOf(desk.class, desk.outcome))
  /\ desk' = Free

Profiles ==
  {ProfileOf(class, ScoreJob(facts, class, client)) :
     class \in {Classify(signals, answer) : signals \in Signals, answer \in Answers},
     facts \in Facts, client \in Clients}

\* rescore_job, of a job that is scored.
Rescore ==
  /\ standing /= NoProfile
  /\ \E new \in Profiles : Save(new)
  /\ UNCHANGED desk

\* semantic_requirements_check tries the requirements model on a posting; the
\* analyses that tailoring makes are never given a provider.
CheckRequirements(mentions, enabled, provider, response) ==
  /\ desk = Free /\ standing = NoProfile
  /\ desk' = [at |-> "checked",
              analysis |-> Extract(mentions, enabled, provider, response)]
  /\ UNCHANGED <<standing, reviews, resolution, work, delivered>>

Report ==
  /\ desk.at = "checked"
  /\ desk' = Free
  /\ UNCHANGED <<standing, reviews, resolution, work, delivered>>

-----------------------------------------------------------------------------
\* Tailoring.

\* What select_tailoring_decision reads of a posting; there is no provider.
ReadingOf(mentions, overlap, family) ==
  LET analysis == Extract(mentions, FALSE, FALSE, [comes |-> "answer", items |-> <<>>])
      ranked   == Portfolio(Bank, family, analysis.requirements)
  IN [overlap |-> overlap, portfolio |-> ranked.scores, shortlist |-> ranked.shortlist]

At(t, step) == work[t].at = step

\* Every decision that a profile can lead to, with it; a family that is not one of
\* the four has no master to tailor.
Tailoring ==
  UNION {UNION {{<<p, d>> : d \in Decisions(p, ReadingOf(m, o, p.family))} :
                  m \in Mentions, o \in Readings} :
           p \in {p \in Profiles : p.family \in Families}}

\* _tailoring_needs_review, when a decision is saved.
DecisionIsSaved(decision) ==
  reviews' = IF NeedsReview(decision) THEN Ensured("tailoring", "none") ELSE reviews

\* reanalyze_project_selection of a job with a packet, which stays as it is; one
\* that failed is forgotten here, and without a packet nothing is saved.
Reanalyse ==
  /\ standing /= NoProfile /\ standing.family \in Families
  /\ delivered["queue2"] /= NoPacket \/ ~At("queue2", "idle")
  /\ \E choice \in Tailoring : choice[1] = standing /\ DecisionIsSaved(choice[2])
  /\ UNCHANGED <<desk, standing, resolution, work, delivered>>

\* create_manual_review.
OpenReview(type) ==
  /\ standing /= NoProfile
  /\ reviews' = Ensured(type, IF type = "classification" THEN standing.classified ELSE "none")
  /\ UNCHANGED <<desk, standing, resolution, work, delivered>>

\* resolve_review: any action on a review of any type, pending or not.  Of what
\* is queued the model holds one at a time.
Resolve(type, action, named) ==
  LET original == IF reviews[type].family /= "none" THEN reviews[type].family
                  ELSE standing.classified
  IN
  /\ reviews[type].status /= "none" /\ resolution = Nothing
  /\ work["regeneration"] = Idle
  /\ \E outcome \in Resolutions(action, original, named) : resolution' = outcome
  /\ reviews' = [reviews EXCEPT ![type].status = "resolved"]
  /\ UNCHANGED <<desk, standing, work, delivered>>

-----------------------------------------------------------------------------
\* The files of a packet.

Becomes(t, packet) == work' = [work EXCEPT ![t] = packet]
Substitutes(packet) == packet.decision.status = "tailored"

\* process_next reads the job and selects at once what it will do; the family has
\* to be one of the four.
StartPacket ==
  /\ standing /= NoProfile /\ standing.family \in Families
  /\ At("queue2", "idle") /\ delivered["queue2"] = NoPacket
  /\ \E choice \in Tailoring :
       LET decision == choice[2] IN
       /\ choice[1] = standing
       /\ Becomes("queue2", Packet(decision,
                    ValidOrder(decision.family, decision.order,
                               decision.removed, decision.inserted)))
  /\ UNCHANGED <<desk, standing, reviews, resolution, delivered>>

\* _process: what was queued is validated again, and made a decision of.
StartRegeneration ==
  LET order  == resolution.order
      status == IF Listed(order) = Base[resolution.family] THEN "master_unchanged"
                ELSE "tailored"
      decision == [status |-> status, review |-> FALSE, family |-> resolution.family,
                   removed  |-> PickFrom(Base[resolution.family] \ Listed(order)),
                   inserted |-> PickFrom(Listed(order) \ Base[resolution.family]),
                   order |-> order]
  IN
  /\ resolution /= Nothing /\ At("regeneration", "idle")
  /\ resolution' = Nothing
  /\ IF delivered["queue2"] = NoPacket THEN UNCHANGED work  \* no source packet
     ELSE Becomes("regeneration",
                  Packet(decision, ReviewedOrderIsValid(resolution.family, order)))
  /\ UNCHANGED <<desk, standing, reviews, delivered>>

\* fail_packet_attempt and fail_regeneration_job.
Fail(t) == Becomes(t, Idle)

\* A candidate that cannot be used: Queue 2 says that it kept the master.
GiveUp(t, tex, pdf) ==
  IF t = "queue2"
  THEN Becomes(t, Moved([work[t] EXCEPT !.decision = Fallback(@)], "save", tex, pdf))
  ELSE Fail(t)

\* build_master_packet_artifacts, if what was decided passes its validation.
CopyMaster(t) ==
  /\ At(t, "copy")
  /\ \/ /\ work[t].valid
        /\ Becomes(t, Moved(work[t], IF Substitutes(work[t]) THEN "compile" ELSE "save",
                            "master", "master"))
     \/ Fail(t)
  /\ UNCHANGED <<desk, standing, reviews, resolution, delivered>>

\* render_tailored_tex, validate_tailored_tex, compile_pdf and the page count.
Compile(t) ==
  /\ At(t, "compile")
  /\ \/ Becomes(t, Moved(work[t], "install", "master", "master"))
     \/ GiveUp(t, "master", "master")
  /\ UNCHANGED <<desk, standing, reviews, resolution, delivered>>

\* The candidate's cv.tex is written over the master's, and may not get there.
InstallTex(t) ==
  /\ At(t, "install")
  /\ \/ Becomes(t, Moved(work[t], "exchange", "tailored", "master"))
     \/ GiveUp(t, "broken", "master")
  /\ UNCHANGED <<desk, standing, reviews, resolution, delivered>>

\* Mutant: an error of the copy is let pass.
InstallPdfCarelessly(t) ==
  /\ At(t, "exchange")
  /\ \E pdf \in {"tailored", "broken"} : Becomes(t, Moved(work[t], "save", "tailored", pdf))
  /\ UNCHANGED <<desk, standing, reviews, resolution, delivered>>

\* The candidate's cv.pdf is copied over the master's; the tex stays if it cannot.
InstallPdf(t) ==
  /\ At(t, "exchange")
  /\ \/ Becomes(t, Moved(work[t], "save", "tailored", "tailored"))
     \/ GiveUp(t, "tailored", "broken")
  /\ UNCHANGED <<desk, standing, reviews, resolution, delivered>>

\* Mutant: only the status of a decision opens a review.
SaveDecisionByStatus(t) ==
  /\ At(t, "save")
  /\ Becomes(t, Moved(work[t], "complete", work[t].tex, work[t].pdf))
  /\ reviews' = IF t = "queue2" /\ work[t].decision.status
                     \in {"review_required", "fallback_to_master", "tailoring_rejected"}
                THEN Ensured("tailoring", "none") ELSE reviews
  /\ UNCHANGED <<desk, standing, resolution, delivered>>

\* save_tailoring_decision, of Queue 2; the regeneration worker has a file only.
SaveDecision(t) ==
  /\ At(t, "save")
  /\ Becomes(t, Moved(work[t], "complete", work[t].tex, work[t].pdf))
  /\ IF t = "queue2" THEN DecisionIsSaved(work[t].decision) ELSE UNCHANGED reviews
  /\ UNCHANGED <<desk, standing, resolution, delivered>>

\* The JSON files, the log and the manifest; then the packet is ready.
Complete(t) ==
  /\ At(t, "complete")
  /\ Becomes(t, Idle)
  /\ \/ UNCHANGED delivered  \* an OSError: the attempt fails
     \/ delivered' = [delivered EXCEPT ![t] = Moved(work[t], "ready", work[t].tex, work[t].pdf)]
  /\ UNCHANGED <<desk, standing, reviews, resolution>>

Analyse ==
  \/ \E page \in Pages : ExtractPage(page)
  \/ \E signals \in Signals, answer \in Answers : ClassifyJob(signals, answer)
  \/ \E facts \in Facts, client \in Clients : ScoreFacts(facts, client)
  \/ \E mentions \in Mentions, enabled \in BOOLEAN, provider \in BOOLEAN,
        response \in Responses : CheckRequirements(mentions, enabled, provider, response)
  \/ SetAside \/ SaveScore \/ Report

Review ==
  \/ Reanalyse
  \/ \E type \in DOMAIN reviews : OpenReview(type)
  \/ \E type \in DOMAIN reviews, action \in Actions,
        named \in Families \cup {"none", "out_of_scope", "other"} : Resolve(type, action, named)

Prepare(t) ==
  \/ CopyMaster(t) \/ Compile(t) \/ InstallTex(t) \/ InstallPdf(t)
  \/ SaveDecision(t) \/ Complete(t)

Next ==
  \/ Analyse \/ Rescore \/ Review \/ StartPacket \/ StartRegeneration
  \/ \E t \in Threads : Prepare(t)

Spec == Init /\ [][Next]_vars

-----------------------------------------------------------------------------
\* Properties.

\* assess_quality: a page with more of what is looked for, with more of its text
\* kept and with less noise never gets a worse band.
QualityIsMonotone ==
  desk.at = "extracted" =>
    \A page \in Pages :
      Richer(desk.page, page) => Grade[desk.result.band] <= Grade[Band(page)]

\* score_hybrid_job: whatever the model assesses, a job with a hard blocker stays
\* below the score that is promoted without being asked for (0.82), and is never
\* recommended for application.
BlockedIsNotPromoted ==
  desk.at = "scored" /\ desk.facts.blocked =>
    /\ desk.outcome.score < 82
    /\ desk.outcome.recommendation \notin {"Apply", "Strong apply"}

\* score_hybrid_job: when the rules have a clear match no answer of the model
\* takes the job to another family.
ClearMatchIsOfFamily ==
  desk.at = "scored" /\ desk.class.decision = "clear_match" =>
    desk.outcome.selection.family = desk.class.family

\* fuse_requirements: the model may add and support, but what the rules found keeps
\* its importance and its capabilities, and what is added rests on a quote that
\* the posting does not deny.
FusionKeepsRules ==
  desk.at = "checked" =>
    LET rules == ToSet(desk.analysis.rules)
        fused == ToSet(desk.analysis.requirements)
    IN /\ \A r \in rules : \E f \in fused :
            f.id = r.id /\ f.caps = r.caps /\ f.importance = r.importance /\ ~f.semanticOnly
       /\ \A f \in fused : f.id[1] = "sem" =>
            /\ desk.analysis.status = "live_success"
            /\ f.importance >= 620 /\ f.caps \subseteq ApprovedCapabilities

\* tailoring.py and regeneration_worker.py: a packet that is delivered as tailored
\* has both files of the candidate, whatever copy failed on the way.
TailoredFilesAgree ==
  \A t \in Threads :
    delivered[t] /= NoPacket /\ Substitutes(delivered[t]) =>
      delivered[t].tex = "tailored" /\ delivered[t].pdf = "tailored"

\* best_substitution and _validate_blocks: no packet shows a project twice, though
\* neither validate_tailoring_decision nor the check of the TeX would notice.
NoProjectTwice ==
  \A t \in Threads :
    delivered[t] /= NoPacket => ProjectsAreDistinct(delivered[t].decision.order)

\* save_tailoring_decision: a packet of Queue 2 that rests on a close call, on a
\* rule that asks for a review or on a candidate that failed was put to a person.
DoubtIsReviewed ==
  LET packet == delivered["queue2"] IN
  packet /= NoPacket /\ (packet.decision.review \/ packet.decision.status
                            \in {"review_required", "fallback_to_master"}) =>
    reviews["tailoring"].status /= "none"

\* resolve_review and _validate_blocks: what a user was allowed to queue passes the
\* validation of the worker, and what is selected passes that of the packet.
AcceptedIsValid == \A t \in Threads : At(t, "copy") => work[t].valid
=============================================================================
